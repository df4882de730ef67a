----------------------------- MODULE Activation -----------------------------
(***************************************************************************)
(* A collector from its start to its end: run of src/main.rs, the install  *)
(* and the launch of the stable installation (src/platform/installation.rs)*)
(* ProvisioningClient of src/provisioning.rs with the credential stores of *)
(* src/security/mod.rs, the startup check of src/credential_validation.rs, *)
(* the instance guard, and the window with its activation and its worker   *)
(* (src/desktop/native_shell.rs and portable.rs).  How a file gets into    *)
(* place is module Installation.                                           *)
(*                                                                         *)
(* The stores are those of macOS (src/security/macos.rs): a file, written  *)
(* in one step by a rename, and a copy in the keychain, which can be       *)
(* unreadable, fail to be written and fail to be removed without an error. *)
(* Where there is one copy only, it is as if none of that ever happens.    *)
(*                                                                         *)
(* A key is the activation token it was issued for and the secret it was   *)
(* issued to; the service keeps, of each token, the secret of the first    *)
(* request.  A request is served at any time after it is sent, also when   *)
(* nobody waits for it any more.  The user gives a token only while no     *)
(* other activation is under way.                                          *)
(***************************************************************************)
EXTENDS Naturals, FiniteSets

CONSTANTS
    Processes,  \* collectors of this user
    External,   \* those started from a file outside the stable installation
    Tokens,     \* activation tokens given to the user
    None,
    Flaky,      \* the operations that may fail on the keychain
    MaxSecrets  \* bound: secrets generated

ASSUME ActivationAssumption ==
    /\ External \subseteq Processes
    /\ None \notin Processes \union Tokens
    /\ None \notin [token : Tokens, secret : 1 .. MaxSecrets]
    /\ Flaky \subseteq {"read", "write", "remove"}
    /\ MaxSecrets \in Nat

VARIABLES
    pending,   \* PendingProvisioningStore, in the file and in the keychain
    key,       \* CredentialStore, likewise
    guard,     \* the holder of the instance guard
    redeemed,  \* the service: the secret each token was redeemed with, or 0
    issued,    \* the service: the time order of the keys issued, as their ids show
    revoked,   \* the service: tokens whose credential is revoked
    requests,  \* redemptions on their way to the service
    pc,        \* the next step of each process; "off" when it does not run
    ui,        \* provisioning: an activation was asked for in the window
    token,     \* the token it activates
    secret,    \* the secret it activates with
    loaded,    \* access_key
    worker,    \* the collector worker: "none" before it is started
    secrets,   \* secrets generated so far
    saved,     \* history: tokens whose key was saved
    replaced,  \* history: tokens whose pending secret another token's took the place of
    rejected   \* history: tokens refused for having been redeemed

store == <<pending, key>>
service == <<redeemed, issued, revoked, requests>>
process == <<pc, ui, token, secret, loaded, worker>>
history == <<saved, replaced, rejected>>
vars == <<store, guard, service, process, secrets, history>>

Secrets == 1 .. MaxSecrets

Keys == [token : Tokens, secret : Secrets]

Key(t, s) == [token |-> t, secret |-> s]

Active(k) == redeemed[k.token] = k.secret /\ k.token \notin revoked

Nothing == [file |-> None, keychain |-> None]

(* What is in the keychain after an operation that is to leave value there, *)
(* or is read from it.                                                      *)
InKeychain(operation, value, otherwise) ==
    {value} \union (IF operation \in Flaky THEN {otherwise} ELSE {})

Saved(copies, value) ==
    {[file |-> value, keychain |-> k] : k \in InKeychain("write", value, copies.keychain)}

(* delete, of a file that can be removed                                    *)
Removed(copies) ==
    {[file |-> None, keychain |-> k] : k \in InKeychain("remove", None, copies.keychain)}

(* load_system_value: an unreadable keychain is an empty one.               *)
SystemValues(copies) == InKeychain("read", copies.keychain, None)

(* select_preferred_access_key: the key with the greater id is the newer.   *)
Preferred(file, keychain) ==
    IF file = None THEN keychain
    ELSE IF keychain = None THEN file
    ELSE IF issued[keychain.token] > issued[file.token] THEN keychain ELSE file

StoredKey == Preferred(key.file, key.keychain)

NobodyActivates == \A p \in Processes : token[p] = None

Init ==
    /\ pending = Nothing
    /\ key = Nothing
    /\ guard = None
    /\ redeemed = [t \in Tokens |-> 0]
    /\ issued = [t \in Tokens |-> 0]
    /\ revoked = {}
    /\ requests = {}
    /\ pc = [p \in Processes |-> "off"]
    /\ ui = [p \in Processes |-> FALSE]
    /\ token = [p \in Processes |-> None]
    /\ secret = [p \in Processes |-> 0]
    /\ loaded = [p \in Processes |-> None]
    /\ worker = [p \in Processes |-> "none"]
    /\ secrets = 0
    /\ saved = {}
    /\ replaced = {}
    /\ rejected = {}

-----------------------------------------------------------------------------
Goto(p, step) == pc' = [pc EXCEPT ![p] = step]

Advance(p, from, to) ==
    /\ pc[p] = from
    /\ Goto(p, to)

(* The process ends: the operating system releases the guard.               *)
Exit(p) ==
    /\ Goto(p, "off")
    /\ ui' = [ui EXCEPT ![p] = FALSE]
    /\ token' = [token EXCEPT ![p] = None]
    /\ secret' = [secret EXCEPT ![p] = 0]
    /\ loaded' = [loaded EXCEPT ![p] = None]
    /\ worker' = [worker EXCEPT ![p] = "none"]
    /\ guard' = IF guard = p THEN None ELSE guard

(* An error: a task of the window posts it, a start ends with it.           *)
Report(p) ==
    IF ui[p]
    THEN /\ Goto(p, "failed")
         /\ token' = [token EXCEPT ![p] = None]
         /\ secret' = [secret EXCEPT ![p] = 0]
         /\ UNCHANGED <<ui, loaded, worker, guard>>
    ELSE Exit(p)

StartPlain(p) ==
    /\ Advance(p, "off", "load_key")
    /\ UNCHANGED <<store, guard, service, ui, token, secret, loaded, worker, secrets, history>>

(* A start with a token, which is refused outside the stable installation,  *)
(* and a start with --install and a token.                                  *)
StartWithToken(p) ==
    /\ NobodyActivates
    /\ \/ p \notin External /\ Advance(p, "off", "load_pending")
       \/ Advance(p, "off", "install")
    /\ \E t \in Tokens : token' = [token EXCEPT ![p] = t]
    /\ UNCHANGED <<store, guard, service, ui, secret, loaded, worker, secrets, history>>

(* begin_activation, in the window of a collector without a key.            *)
BeginActivation(p) ==
    /\ NobodyActivates
    /\ loaded[p] = None
    /\ Advance(p, "desktop", IF p \in External THEN "install" ELSE "load_pending")
    /\ ui' = [ui EXCEPT ![p] = TRUE]
    /\ \E t \in Tokens : token' = [token EXCEPT ![p] = t]
    /\ UNCHANGED <<store, guard, service, secret, loaded, worker, secrets, history>>

(* launch_installed, as the last step of install_and_launch and of          *)
(* migrate_existing_and_launch: q is the stable installation.               *)
Launch(p, q) ==
    /\ q \notin External
    /\ pc[q] = "off"
    /\ pc' = [pc EXCEPT ![q] = IF token[p] = None THEN "load_key" ELSE "load_pending",
                        ![p] = IF ui[p] THEN "launched" ELSE "off"]
    /\ token' = [token EXCEPT ![p] = None, ![q] = token[p]]
    /\ loaded' = [loaded EXCEPT ![p] = None]

InstallAndLaunch(p) ==
    /\ pc[p] = "install"
    /\ \E q \in Processes : Launch(p, q)
    /\ UNCHANGED <<store, guard, service, ui, secret, worker, secrets, history>>

MigrateAndLaunch(p) ==
    /\ pc[p] = "migrate"
    /\ \E q \in Processes : Launch(p, q)
    /\ UNCHANGED <<store, guard, service, ui, secret, worker, secrets, history>>

-----------------------------------------------------------------------------
(* provision                                                                *)

(* Mutant of LoadPending: every attempt has a secret of its own.            *)
AlwaysGenerate(p) ==
    /\ Advance(p, "load_pending", "generate")
    /\ UNCHANGED <<store, guard, service, ui, token, secret, loaded, worker, secrets, history>>

LoadPending(p) ==
    /\ \E system \in SystemValues(pending) :
        LET found == IF pending.file # None THEN pending.file ELSE system
        IN  /\ pending' = [file |-> found, keychain |-> pending.keychain]
            /\ IF found # None /\ found.token = token[p]
               THEN /\ Advance(p, "load_pending", "send")
                    /\ secret' = [secret EXCEPT ![p] = found.secret]
               ELSE /\ Advance(p, "load_pending", "generate")
                    /\ UNCHANGED secret
    /\ UNCHANGED <<key, guard, service, ui, token, loaded, worker, secrets, history>>

GenerateSecret(p) ==
    /\ secrets < MaxSecrets
    /\ Advance(p, "generate", "save_pending")
    /\ secrets' = secrets + 1
    /\ secret' = [secret EXCEPT ![p] = secrets + 1]
    /\ UNCHANGED <<store, guard, service, ui, token, loaded, worker, history>>

SavePending(p) ==
    /\ Advance(p, "save_pending", "send")
    /\ pending' \in Saved(pending, Key(token[p], secret[p]))
    /\ replaced' = replaced \union
                      (IF pending.file = None THEN {} ELSE {pending.file.token} \ {token[p]})
    /\ UNCHANGED <<key, guard, service, ui, token, secret, loaded, worker, secrets, saved,
                   rejected>>

Send(p) ==
    /\ Advance(p, "send", "await")
    /\ requests' = requests \union {Key(token[p], secret[p])}
    /\ UNCHANGED <<store, guard, redeemed, issued, revoked, ui, token, secret, loaded, worker,
                   secrets, history>>

Issued(p) ==
    /\ Advance(p, "await", "save_key")
    /\ Key(token[p], secret[p]) \notin requests
    /\ redeemed[token[p]] = secret[p]
    /\ UNCHANGED <<store, guard, service, ui, token, secret, loaded, worker, secrets, history>>

Refused(p) ==
    /\ pc[p] = "await"
    /\ Key(token[p], secret[p]) \notin requests
    /\ redeemed[token[p]] \notin {0, secret[p]}
    /\ rejected' = rejected \union {token[p]}
    /\ Report(p)
    /\ UNCHANGED <<store, service, secrets, saved, replaced>>

SaveKey(p) ==
    /\ Advance(p, "save_key", "clear")
    /\ key' \in Saved(key, Key(token[p], secret[p]))
    /\ saved' = saved \union {token[p]}
    /\ UNCHANGED <<pending, guard, service, ui, token, secret, loaded, worker, secrets,
                   replaced, rejected>>

ClearPending(p) ==
    /\ Advance(p, "clear", IF ui[p] THEN "autostart" ELSE "load_key")
    /\ pending' \in Removed(pending)
    /\ UNCHANGED <<key, guard, service, ui, token, secret, loaded, worker, secrets, history>>

-----------------------------------------------------------------------------
(* load_access_key: the copies are made the same as far as that succeeds.   *)
TakeKey(p) ==
    \E system \in SystemValues(key) :
        LET selected == Preferred(key.file, system)
        IN  /\ loaded' = [loaded EXCEPT ![p] = selected]
            /\ IF selected = None THEN UNCHANGED key ELSE key' \in Saved(key, selected)

(* The startup with what is stored.                                         *)
LoadKey(p) ==
    /\ pc[p] = "load_key"
    /\ TakeKey(p)
    /\ Goto(p, IF loaded'[p] = None THEN "guard" ELSE "validate")
    /\ UNCHANGED <<pending, guard, service, ui, token, secret, worker, secrets, history>>

(* validate_stored_credential: the service accepts the key, or is not there *)
KeyAccepted(p) ==
    /\ Advance(p, "validate", IF p \in External THEN "migrate" ELSE "autostart")
    /\ UNCHANGED <<store, guard, service, ui, token, secret, loaded, worker, secrets, history>>

(* Mutant of KeyRejected: an unavailable service counts as a rejection.     *)
KeyRejectedOffline(p) ==
    /\ Advance(p, "validate", "delete")
    /\ UNCHANGED <<store, guard, service, ui, token, secret, loaded, worker, secrets, history>>

KeyRejected(p) ==
    /\ Advance(p, "validate", "delete")
    /\ ~Active(loaded[p])
    /\ UNCHANGED <<store, guard, service, ui, token, secret, loaded, worker, secrets, history>>

(* A removal that fails is only reported.                                   *)
DeleteKey(p) ==
    /\ Advance(p, "delete", "guard")
    /\ key' \in Removed(key) \union {key}
    /\ loaded' = [loaded EXCEPT ![p] = None]
    /\ UNCHANGED <<pending, guard, service, ui, token, secret, worker, secrets, history>>

EnableAutostart(p) ==
    /\ Advance(p, "autostart", IF ui[p] THEN "reload" ELSE "guard")
    /\ UNCHANGED <<store, guard, service, ui, token, secret, loaded, worker, secrets, history>>

(* Mutant of AcquireGuard: nobody looks at the guard.                       *)
RunUnguarded(p) ==
    /\ Advance(p, "guard", "window")
    /\ guard' = p
    /\ UNCHANGED <<store, service, ui, token, secret, loaded, worker, secrets, history>>

AcquireGuard(p) ==
    /\ guard = None
    /\ Advance(p, "guard", "window")
    /\ guard' = p
    /\ UNCHANGED <<store, service, ui, token, secret, loaded, worker, secrets, history>>

(* The window is created, and the worker starts if there is a key.          *)
OpenWindow(p) ==
    /\ Advance(p, "window", "desktop")
    /\ worker' = [worker EXCEPT ![p] = IF loaded[p] = None THEN "none" ELSE "runs"]
    /\ token' = [token EXCEPT ![p] = None]
    /\ secret' = [secret EXCEPT ![p] = 0]
    /\ UNCHANGED <<store, guard, service, ui, loaded, secrets, history>>

AlreadyRunning(p) ==
    /\ pc[p] = "guard"
    /\ guard # None
    /\ Exit(p)
    /\ UNCHANGED <<store, service, secrets, history>>

(* The task of an activation has the key and posts its result; on Windows   *)
(* it starts the worker itself, elsewhere the window does.                  *)
Activated(p) ==
    /\ Advance(p, "reload", "activated")
    /\ TakeKey(p)
    /\ loaded'[p] # None
    /\ \/ worker' = [worker EXCEPT ![p] = "runs"]
       \/ UNCHANGED worker
    /\ token' = [token EXCEPT ![p] = None]
    /\ secret' = [secret EXCEPT ![p] = 0]
    /\ UNCHANGED <<pending, guard, service, ui, secrets, history>>

(* activation_completed, poll_activation: the window gets the result.       *)
ActivationCompleted(p) ==
    /\ Advance(p, "activated", "desktop")
    /\ ui' = [ui EXCEPT ![p] = FALSE]
    /\ worker' = [worker EXCEPT ![p] = IF @ = "none" THEN "runs" ELSE @]
    /\ UNCHANGED <<store, guard, service, token, secret, loaded, secrets, history>>

ActivationFailed(p) ==
    /\ Advance(p, "failed", "desktop")
    /\ ui' = [ui EXCEPT ![p] = FALSE]
    /\ UNCHANGED <<store, guard, service, token, secret, loaded, worker, secrets, history>>

(* The stable installation was launched: the window closes.                 *)
ActivationHandedOver(p) ==
    /\ pc[p] = "launched"
    /\ Exit(p)
    /\ UNCHANGED <<store, service, secrets, history>>

(* spawn_collector: an error of the worker is logged; a worker that stops   *)
(* for an update ends the process on Windows.                               *)
WorkerFails(p) ==
    /\ worker[p] = "runs"
    /\ worker' = [worker EXCEPT ![p] = "failed"]
    /\ UNCHANGED <<store, guard, service, pc, ui, token, secret, loaded, secrets, history>>

WorkerStops(p) ==
    /\ worker[p] = "runs"
    /\ worker' = [worker EXCEPT ![p] = "stopped"]
    /\ UNCHANGED <<store, guard, service, pc, ui, token, secret, loaded, secrets, history>>

CollectorStopped(p) ==
    /\ worker[p] = "stopped"
    /\ Exit(p)
    /\ UNCHANGED <<store, service, secrets, history>>

-----------------------------------------------------------------------------
(* Mutant of Fails: a request waits for its answer as long as it takes.     *)
FailsAtOnce(p) ==
    /\ pc[p] \in {"install", "migrate", "load_pending", "generate", "save_pending", "save_key",
                  "clear", "load_key", "autostart", "guard", "window", "reload"}
    /\ Report(p)
    /\ UNCHANGED <<store, service, secrets, history>>

(* An installation or an operation of the store fails, the request times    *)
(* out, the registration of the autostart is rejected, the file of the      *)
(* guard cannot be opened or the window not created.                        *)
Fails(p) ==
    /\ pc[p] \in {"install", "migrate", "load_pending", "generate", "save_pending", "await",
                  "save_key", "clear", "load_key", "autostart", "guard", "window",
                  "reload"}
    /\ Report(p)
    /\ UNCHANGED <<store, service, secrets, history>>

(* The process is killed, or its window closed where that ends it.          *)
Dies(p) ==
    /\ pc[p] # "off"
    /\ Exit(p)
    /\ UNCHANGED <<store, service, secrets, history>>

(* The service.                                                             *)
Redeem ==
    \E r \in requests :
        /\ requests' = requests \ {r}
        /\ redeemed' = [redeemed EXCEPT ![r.token] = IF @ = 0 THEN r.secret ELSE @]
        /\ issued' = [issued EXCEPT ![r.token] =
                        IF @ = 0 THEN Cardinality({t \in Tokens : issued[t] # 0}) + 1 ELSE @]
        /\ UNCHANGED <<store, guard, revoked, process, secrets, history>>

Revoke ==
    \E t \in Tokens \ revoked :
        /\ redeemed[t] # 0
        /\ revoked' = revoked \union {t}
        /\ UNCHANGED <<store, guard, redeemed, issued, requests, process, secrets, history>>

(* What a process does on its own.                                          *)
Step(p) ==
    \/ InstallAndLaunch(p) \/ MigrateAndLaunch(p)
    \/ LoadPending(p) \/ GenerateSecret(p) \/ SavePending(p)
    \/ Send(p) \/ Issued(p) \/ Refused(p)
    \/ SaveKey(p) \/ ClearPending(p)
    \/ LoadKey(p) \/ KeyAccepted(p) \/ KeyRejected(p) \/ DeleteKey(p)
    \/ EnableAutostart(p) \/ AcquireGuard(p) \/ AlreadyRunning(p)
    \/ OpenWindow(p)
    \/ Activated(p) \/ ActivationCompleted(p) \/ ActivationFailed(p)
    \/ ActivationHandedOver(p)
    \/ Fails(p)

Next ==
    \/ \E p \in Processes :
         \/ StartPlain(p) \/ StartWithToken(p) \/ BeginActivation(p) \/ Step(p)
         \/ WorkerFails(p) \/ WorkerStops(p) \/ CollectorStopped(p)
         \/ Dies(p)
    \/ Redeem \/ Revoke

Spec == Init /\ [][Next]_vars

(* A process that can go on does, and a call that has a timeout ends.       *)
FairSpec == Spec /\ \A p \in Processes : WF_vars(Step(p))

-----------------------------------------------------------------------------
(* The stores hold keys, and a process in a step has what the step uses.    *)
TypeOK ==
    /\ {pending.file, pending.keychain, key.file, key.keychain} \subseteq Keys \union {None}
    /\ redeemed \in [Tokens -> 0 .. MaxSecrets]
    /\ requests \subseteq Keys
    /\ guard \in Processes \union {None}
    /\ \A p \in Processes :
         /\ pc[p] \in {"load_pending", "generate", "save_pending", "send", "await", "save_key",
                       "clear"} => token[p] \in Tokens
         /\ pc[p] \in {"send", "await", "save_key"} => secret[p] \in Secrets
         /\ pc[p] \in {"validate", "delete"} => loaded[p] # None
         /\ pc[p] = "desktop" \/ ui[p] => guard = p

(* "retry-safe collector provisioning state": a token that has been         *)
(* redeemed is not refused before its key was saved, whatever answers are   *)
(* lost or late, wherever a process dies, and whichever process tries the   *)
(* token again, unless another token was tried in between: there is room    *)
(* for one pending secret.                                                  *)
RetrySafe == rejected \subseteq saved \union replaced

(* At most one worker runs, in the stable installation and with a key that  *)
(* the service has issued, although processes are started, install, hand    *)
(* over, activate and validate together.                                    *)
OneWorker ==
    \A p \in Processes :
        worker[p] = "runs" =>
            /\ p \notin External
            /\ redeemed[loaded[p].token] = loaded[p].secret
            /\ \A q \in Processes : worker[q] = "runs" => q = p

(* The window of an activation gets its answer, or closes, whatever fails   *)
(* and whether the service answers or not; and since a window holds the     *)
(* guard, no other can have begun an activation in the meantime.            *)
ActivationEnds ==
    (\E p \in Processes : ui[p]) ~> (\A p \in Processes : ~ui[p])

(* "A revoked or rejected credential is removed": one that is neither stays *)
(* stored, whatever becomes of its two copies, until another activation     *)
(* replaces it, unless it was stored while a start was about to remove the  *)
(* one before it.                                                           *)
ActiveKeyKept ==
    [][StoredKey # None /\ Active(StoredKey)
         /\ (\A p \in Processes : pc[p] = "delete" => loaded[p] = StoredKey)
         => StoredKey' # None]_vars
=============================================================================
