-------------------------- MODULE ActivationProofs --------------------------
(***************************************************************************)
(* Safety of the life of a collector, for any number of processes, tokens  *)
(* and secrets and whichever operation of the stores fails.                *)
(*                                                                         *)
(* The invariants are proved one on top of the other: what each step of a  *)
(* process has and holds, which keys can be in the stores, what is known   *)
(* of a key that is about to be removed, who activates, and where the      *)
(* secret of a token under way is.                                         *)
(***************************************************************************)
EXTENDS Activation, TLAPS

(* The steps of a start, of an activation and of the window's part of one.  *)
Starting == {"load_key", "validate", "delete", "migrate", "guard", "window"}
Activating == {"load_pending", "generate", "save_pending", "send", "await", "save_key", "clear"}
InWindow == {"reload", "activated", "failed", "launched"}

Locations ==
    Starting \union Activating \union InWindow \union {"off", "install", "autostart", "desktop"}

Copies == [file : Keys \union {None}, keychain : Keys \union {None}]

(* What the variables of the processes and the stores hold.                 *)
Typed ==
    /\ pending \in Copies
    /\ key \in Copies
    /\ pc \in [Processes -> Locations]
    /\ ui \in [Processes -> BOOLEAN]
    /\ token \in [Processes -> Tokens \union {None}]
    /\ secret \in [Processes -> Secrets \union {0}]
    /\ loaded \in [Processes -> Keys \union {None}]
    /\ worker \in [Processes -> {"none", "runs", "failed", "stopped"}]
    /\ guard \in Processes \union {None}
    /\ secrets \in 0 .. MaxSecrets

(* What a process has and holds in its step.                                *)
StepInv(p) ==
    /\ pc[p] \in Activating => token[p] \in Tokens
    /\ pc[p] \in {"save_pending", "send", "await", "save_key", "clear"} =>
         secret[p] \in Secrets
    /\ pc[p] \in Starting \union {"off", "desktop"} => ~ui[p]
    /\ pc[p] \in InWindow => ui[p]
    /\ pc[p] \in {"off", "desktop", "activated", "failed"} => token[p] = None
    /\ guard = p <=> ui[p] \/ pc[p] \in {"window", "desktop"}
    /\ ui[p] /\ pc[p] # "activated" => loaded[p] = None
    /\ pc[p] \in {"validate", "delete", "activated"} => loaded[p] # None
    /\ p \in External => pc[p] \notin Activating \union {"autostart", "reload", "activated"}
    /\ p \in External /\ pc[p] \in {"guard", "window"} => loaded[p] = None
    /\ worker[p] # "none" =>
         p \notin External /\ guard = p /\ loaded[p] # None /\ pc[p] # "window"

StepsInv == \A p \in Processes : StepInv(p)

ProcessesInv == Typed /\ StepsInv

(* The service has issued every key that is stored, loaded or saved next.   *)
KeysInv ==
    /\ redeemed \in [Tokens -> Secrets \union {0}]
    /\ requests \subseteq Keys
    /\ \A k \in {key.file, key.keychain} \ {None} : redeemed[k.token] = k.secret
    /\ \A p \in Processes :
         /\ loaded[p] # None => redeemed[loaded[p].token] = loaded[p].secret
         /\ pc[p] \in {"save_key", "clear"} => redeemed[token[p]] = secret[p]

(* A key is removed only after it was revoked, which nothing undoes.        *)
RemovalInv ==
    \A p \in Processes : pc[p] = "delete" => loaded[p].token \in revoked

(* One activation is under way at a time.                                   *)
OneActivates ==
    \A p, q \in Processes : token[p] # None /\ token[q] # None => p = q

(* The secret of a token that was sent to the service is the one that is    *)
(* pending, until its key is saved or another token's takes its place.      *)
PendingInv ==
    /\ \A p \in Processes :
         /\ pc[p] \in {"send", "await", "save_key", "clear"} =>
              pending.file = Key(token[p], secret[p])
         /\ pc[p] \in {"generate", "save_pending"} /\ pending.file # None =>
              pending.file.token # token[p]
         /\ pc[p] = "clear" => token[p] \in saved
    /\ pending.keychain # None /\ pending.keychain # pending.file =>
         pending.keychain.token \in saved \union replaced
    /\ \A t \in Tokens \ (saved \union replaced) :
         /\ redeemed[t] # 0 => pending.file = Key(t, redeemed[t])
         /\ \A r \in requests : r.token = t => pending.file = r

ActivationInv ==
    /\ ProcessesInv
    /\ KeysInv
    /\ RemovalInv
    /\ OneActivates
    /\ PendingInv
    /\ RetrySafe

-----------------------------------------------------------------------------
(* The steps of the processes, one by one.                                  *)
LEMMA StepsStep == ProcessesInv /\ [Next]_vars => ProcessesInv'
<1> SUFFICES ASSUME ProcessesInv, [Next]_vars PROVE ProcessesInv'
  OBVIOUS
<1> USE ActivationAssumption DEF ProcessesInv, Typed, StepsInv, StepInv, Locations,
           Starting, Activating, InWindow, store, service, process, history, Advance,
           Goto, Key, Keys, Copies
<1>1. ASSUME NEW p \in Processes, StartPlain(p) PROVE ProcessesInv'
  BY <1>1 DEF StartPlain
<1>2. ASSUME NEW p \in Processes, StartWithToken(p) PROVE ProcessesInv'
  BY <1>2 DEF StartWithToken
<1>3. ASSUME NEW p \in Processes, BeginActivation(p) PROVE ProcessesInv'
  BY <1>3 DEF BeginActivation
<1>4. ASSUME NEW p \in Processes, InstallAndLaunch(p) PROVE ProcessesInv'
  BY <1>4, SMTT(30) DEF InstallAndLaunch, Launch
<1>5. ASSUME NEW p \in Processes, MigrateAndLaunch(p) PROVE ProcessesInv'
  BY <1>5, SMTT(30) DEF MigrateAndLaunch, Launch
<1>6. ASSUME NEW p \in Processes, LoadPending(p) PROVE ProcessesInv'
  <2>1. Typed'
    BY <1>6 DEF LoadPending, SystemValues, InKeychain
  <2>2. StepsInv'
    BY <1>6 DEF LoadPending, SystemValues, InKeychain
  <2> QED
    BY <2>1, <2>2
<1>7. ASSUME NEW p \in Processes, GenerateSecret(p) PROVE ProcessesInv'
  BY <1>7 DEF GenerateSecret, Secrets
<1>8. ASSUME NEW p \in Processes, SavePending(p) PROVE ProcessesInv'
  BY <1>8 DEF SavePending, Saved, InKeychain
<1>9. ASSUME NEW p \in Processes, Send(p) PROVE ProcessesInv'
  BY <1>9 DEF Send
<1>10. ASSUME NEW p \in Processes, Issued(p) PROVE ProcessesInv'
  BY <1>10 DEF Issued
<1>11. ASSUME NEW p \in Processes, Refused(p) PROVE ProcessesInv'
  <2>1. CASE ui[p]
    BY <1>11, <2>1 DEF Refused, Report, Exit
  <2>2. CASE ~ui[p]
    <3>1. Typed'
      <4>1. Exit(p) /\ UNCHANGED <<pending, key, secrets>>
        BY <1>11, <2>2 DEF Refused, Report
      <4> QED
        BY <4>1 DEF Exit
    <3>2. ASSUME NEW q \in Processes PROVE StepInv(q)'
      <4>1. CASE q = p
        BY <1>11, <2>2, <4>1 DEF Refused, Report, Exit
      <4>2. CASE q # p
        BY <1>11, <2>2, <4>2 DEF Refused, Report, Exit
      <4> QED
        BY <4>1, <4>2
    <3> QED
      BY <3>1, <3>2
  <2> QED
    BY <2>1, <2>2
<1>12. ASSUME NEW p \in Processes, SaveKey(p) PROVE ProcessesInv'
  BY <1>12 DEF SaveKey, Saved, InKeychain
<1>13. ASSUME NEW p \in Processes, ClearPending(p) PROVE ProcessesInv'
  BY <1>13 DEF ClearPending, Removed, InKeychain
<1>14. ASSUME NEW p \in Processes, LoadKey(p) PROVE ProcessesInv'
  BY <1>14 DEF LoadKey, TakeKey, SystemValues, InKeychain, Preferred, Saved
<1>15. ASSUME NEW p \in Processes, KeyAccepted(p) PROVE ProcessesInv'
  BY <1>15 DEF KeyAccepted
<1>16. ASSUME NEW p \in Processes, KeyRejected(p) PROVE ProcessesInv'
  BY <1>16 DEF KeyRejected
<1>17. ASSUME NEW p \in Processes, DeleteKey(p) PROVE ProcessesInv'
  BY <1>17 DEF DeleteKey, Removed, InKeychain
<1>18. ASSUME NEW p \in Processes, EnableAutostart(p) PROVE ProcessesInv'
  BY <1>18 DEF EnableAutostart
<1>19. ASSUME NEW p \in Processes, AcquireGuard(p) PROVE ProcessesInv'
  BY <1>19 DEF AcquireGuard
<1>20. ASSUME NEW p \in Processes, AlreadyRunning(p) PROVE ProcessesInv'
  BY <1>20 DEF AlreadyRunning, Exit
<1>21. ASSUME NEW p \in Processes, OpenWindow(p) PROVE ProcessesInv'
  BY <1>21 DEF OpenWindow
<1>22. ASSUME NEW p \in Processes, Activated(p) PROVE ProcessesInv'
  BY <1>22 DEF Activated, TakeKey, SystemValues, InKeychain, Preferred, Saved
<1>23. ASSUME NEW p \in Processes, ActivationCompleted(p) PROVE ProcessesInv'
  BY <1>23 DEF ActivationCompleted
<1>24. ASSUME NEW p \in Processes, ActivationFailed(p) PROVE ProcessesInv'
  BY <1>24 DEF ActivationFailed
<1>25. ASSUME NEW p \in Processes, ActivationHandedOver(p) PROVE ProcessesInv'
  BY <1>25 DEF ActivationHandedOver, Exit
<1>26. ASSUME NEW p \in Processes, Fails(p) PROVE ProcessesInv'
  <2>1. CASE ui[p]
    BY <1>26, <2>1 DEF Fails, Report, Exit
  <2>2. CASE ~ui[p]
    <3>1. Typed'
      <4>1. Exit(p) /\ UNCHANGED <<pending, key, secrets>>
        BY <1>26, <2>2 DEF Fails, Report
      <4> QED
        BY <4>1 DEF Exit
    <3>2. ASSUME NEW q \in Processes PROVE StepInv(q)'
      <4>1. CASE q = p
        BY <1>26, <2>2, <4>1 DEF Fails, Report, Exit
      <4>2. CASE q # p
        BY <1>26, <2>2, <4>2 DEF Fails, Report, Exit
      <4> QED
        BY <4>1, <4>2
    <3> QED
      BY <3>1, <3>2
  <2> QED
    BY <2>1, <2>2
<1>27. ASSUME NEW p \in Processes, WorkerFails(p) PROVE ProcessesInv'
  BY <1>27 DEF WorkerFails
<1>28. ASSUME NEW p \in Processes, WorkerStops(p) PROVE ProcessesInv'
  BY <1>28 DEF WorkerStops
<1>29. ASSUME NEW p \in Processes, CollectorStopped(p) PROVE ProcessesInv'
  BY <1>29 DEF CollectorStopped, Exit
<1>30. ASSUME NEW p \in Processes, Dies(p) PROVE ProcessesInv'
  BY <1>30 DEF Dies, Exit
<1>31. CASE Redeem
  BY <1>31 DEF Redeem
<1>32. CASE Revoke
  BY <1>32 DEF Revoke
<1>33. CASE UNCHANGED vars
  BY <1>33 DEF vars
<1> QED
  BY <1>1, <1>2, <1>3, <1>4, <1>5, <1>6, <1>7, <1>8, <1>9, <1>10, <1>11,
     <1>12, <1>13, <1>14, <1>15, <1>16, <1>17, <1>18, <1>19, <1>20, <1>21,
     <1>22, <1>23, <1>24, <1>25, <1>26, <1>27, <1>28, <1>29, <1>30, <1>31,
     <1>32, <1>33 DEF Next, Step

(* A key is in a store, or about to be, only after the service has issued   *)
(* it, and the service never changes what it has issued.                    *)
LEMMA KeysStep == ProcessesInv /\ KeysInv /\ [Next]_vars => KeysInv'
<1> SUFFICES ASSUME ProcessesInv, KeysInv, [Next]_vars PROVE KeysInv'
  OBVIOUS
<1> USE ActivationAssumption DEF ProcessesInv, Typed, StepsInv, StepInv, KeysInv,
           Activating, store, service, process, history, Advance, Goto, Key, Keys,
           Secrets, Copies
<1>1. ASSUME NEW p \in Processes, StartPlain(p) PROVE KeysInv'
  BY <1>1 DEF StartPlain
<1>2. ASSUME NEW p \in Processes, StartWithToken(p) PROVE KeysInv'
  BY <1>2 DEF StartWithToken
<1>3. ASSUME NEW p \in Processes, BeginActivation(p) PROVE KeysInv'
  BY <1>3 DEF BeginActivation
<1>4. ASSUME NEW p \in Processes, InstallAndLaunch(p) PROVE KeysInv'
  BY <1>4 DEF InstallAndLaunch, Launch
<1>5. ASSUME NEW p \in Processes, MigrateAndLaunch(p) PROVE KeysInv'
  BY <1>5 DEF MigrateAndLaunch, Launch
<1>6. ASSUME NEW p \in Processes, LoadPending(p) PROVE KeysInv'
  BY <1>6 DEF LoadPending, SystemValues, InKeychain
<1>7. ASSUME NEW p \in Processes, GenerateSecret(p) PROVE KeysInv'
  BY <1>7 DEF GenerateSecret, Secrets
<1>8. ASSUME NEW p \in Processes, SavePending(p) PROVE KeysInv'
  BY <1>8 DEF SavePending, Saved, InKeychain
<1>9. ASSUME NEW p \in Processes, Send(p) PROVE KeysInv'
  BY <1>9 DEF Send
<1>10. ASSUME NEW p \in Processes, Issued(p) PROVE KeysInv'
  BY <1>10 DEF Issued
<1>11. ASSUME NEW p \in Processes, Refused(p) PROVE KeysInv'
  BY <1>11 DEF Refused, Report, Exit
<1>12. ASSUME NEW p \in Processes, SaveKey(p) PROVE KeysInv'
  BY <1>12 DEF SaveKey, Saved, InKeychain
<1>13. ASSUME NEW p \in Processes, ClearPending(p) PROVE KeysInv'
  BY <1>13 DEF ClearPending, Removed, InKeychain
<1>14. ASSUME NEW p \in Processes, LoadKey(p) PROVE KeysInv'
  BY <1>14 DEF LoadKey, TakeKey, SystemValues, InKeychain, Preferred, Saved
<1>15. ASSUME NEW p \in Processes, KeyAccepted(p) PROVE KeysInv'
  BY <1>15 DEF KeyAccepted
<1>16. ASSUME NEW p \in Processes, KeyRejected(p) PROVE KeysInv'
  BY <1>16 DEF KeyRejected
<1>17. ASSUME NEW p \in Processes, DeleteKey(p) PROVE KeysInv'
  BY <1>17 DEF DeleteKey, Removed, InKeychain
<1>18. ASSUME NEW p \in Processes, EnableAutostart(p) PROVE KeysInv'
  BY <1>18 DEF EnableAutostart
<1>19. ASSUME NEW p \in Processes, AcquireGuard(p) PROVE KeysInv'
  BY <1>19 DEF AcquireGuard
<1>20. ASSUME NEW p \in Processes, AlreadyRunning(p) PROVE KeysInv'
  BY <1>20 DEF AlreadyRunning, Exit
<1>21. ASSUME NEW p \in Processes, OpenWindow(p) PROVE KeysInv'
  BY <1>21 DEF OpenWindow
<1>22. ASSUME NEW p \in Processes, Activated(p) PROVE KeysInv'
  BY <1>22 DEF Activated, TakeKey, SystemValues, InKeychain, Preferred, Saved
<1>23. ASSUME NEW p \in Processes, ActivationCompleted(p) PROVE KeysInv'
  BY <1>23 DEF ActivationCompleted
<1>24. ASSUME NEW p \in Processes, ActivationFailed(p) PROVE KeysInv'
  BY <1>24 DEF ActivationFailed
<1>25. ASSUME NEW p \in Processes, ActivationHandedOver(p) PROVE KeysInv'
  BY <1>25 DEF ActivationHandedOver, Exit
<1>26. ASSUME NEW p \in Processes, Fails(p) PROVE KeysInv'
  BY <1>26 DEF Fails, Report, Exit
<1>27. ASSUME NEW p \in Processes, WorkerFails(p) PROVE KeysInv'
  BY <1>27 DEF WorkerFails
<1>28. ASSUME NEW p \in Processes, WorkerStops(p) PROVE KeysInv'
  BY <1>28 DEF WorkerStops
<1>29. ASSUME NEW p \in Processes, CollectorStopped(p) PROVE KeysInv'
  BY <1>29 DEF CollectorStopped, Exit
<1>30. ASSUME NEW p \in Processes, Dies(p) PROVE KeysInv'
  BY <1>30 DEF Dies, Exit
<1>31. CASE Redeem
  BY <1>31 DEF Redeem
<1>32. CASE Revoke
  BY <1>32 DEF Revoke
<1>33. CASE UNCHANGED vars
  BY <1>33 DEF vars
<1> QED
  BY <1>1, <1>2, <1>3, <1>4, <1>5, <1>6, <1>7, <1>8, <1>9, <1>10, <1>11,
     <1>12, <1>13, <1>14, <1>15, <1>16, <1>17, <1>18, <1>19, <1>20, <1>21,
     <1>22, <1>23, <1>24, <1>25, <1>26, <1>27, <1>28, <1>29, <1>30, <1>31,
     <1>32, <1>33 DEF Next, Step

(* A start removes the key it has seen rejected, and a revocation is final. *)
LEMMA RemovalStep ==
  ProcessesInv /\ KeysInv /\ RemovalInv /\ [Next]_vars => RemovalInv'
<1> SUFFICES ASSUME ProcessesInv, KeysInv, RemovalInv, [Next]_vars PROVE RemovalInv'
  OBVIOUS
<1> USE ActivationAssumption DEF ProcessesInv, Typed, StepsInv, StepInv, KeysInv,
           RemovalInv, Activating, store, service, process, history, Advance, Goto, Key,
           Keys, Secrets, Copies, Active
<1>1. ASSUME NEW p \in Processes, StartPlain(p) PROVE RemovalInv'
  BY <1>1 DEF StartPlain
<1>2. ASSUME NEW p \in Processes, StartWithToken(p) PROVE RemovalInv'
  BY <1>2 DEF StartWithToken
<1>3. ASSUME NEW p \in Processes, BeginActivation(p) PROVE RemovalInv'
  BY <1>3 DEF BeginActivation
<1>4. ASSUME NEW p \in Processes, InstallAndLaunch(p) PROVE RemovalInv'
  BY <1>4 DEF InstallAndLaunch, Launch
<1>5. ASSUME NEW p \in Processes, MigrateAndLaunch(p) PROVE RemovalInv'
  BY <1>5 DEF MigrateAndLaunch, Launch
<1>6. ASSUME NEW p \in Processes, LoadPending(p) PROVE RemovalInv'
  BY <1>6 DEF LoadPending, SystemValues, InKeychain
<1>7. ASSUME NEW p \in Processes, GenerateSecret(p) PROVE RemovalInv'
  BY <1>7 DEF GenerateSecret, Secrets
<1>8. ASSUME NEW p \in Processes, SavePending(p) PROVE RemovalInv'
  BY <1>8 DEF SavePending, Saved, InKeychain
<1>9. ASSUME NEW p \in Processes, Send(p) PROVE RemovalInv'
  BY <1>9 DEF Send
<1>10. ASSUME NEW p \in Processes, Issued(p) PROVE RemovalInv'
  BY <1>10 DEF Issued
<1>11. ASSUME NEW p \in Processes, Refused(p) PROVE RemovalInv'
  BY <1>11 DEF Refused, Report, Exit
<1>12. ASSUME NEW p \in Processes, SaveKey(p) PROVE RemovalInv'
  BY <1>12 DEF SaveKey, Saved, InKeychain
<1>13. ASSUME NEW p \in Processes, ClearPending(p) PROVE RemovalInv'
  BY <1>13 DEF ClearPending, Removed, InKeychain
<1>14. ASSUME NEW p \in Processes, LoadKey(p) PROVE RemovalInv'
  BY <1>14 DEF LoadKey, TakeKey, SystemValues, InKeychain, Preferred, Saved
<1>15. ASSUME NEW p \in Processes, KeyAccepted(p) PROVE RemovalInv'
  BY <1>15 DEF KeyAccepted
<1>16. ASSUME NEW p \in Processes, KeyRejected(p) PROVE RemovalInv'
  BY <1>16 DEF KeyRejected
<1>17. ASSUME NEW p \in Processes, DeleteKey(p) PROVE RemovalInv'
  BY <1>17 DEF DeleteKey, Removed, InKeychain
<1>18. ASSUME NEW p \in Processes, EnableAutostart(p) PROVE RemovalInv'
  BY <1>18 DEF EnableAutostart
<1>19. ASSUME NEW p \in Processes, AcquireGuard(p) PROVE RemovalInv'
  BY <1>19 DEF AcquireGuard
<1>20. ASSUME NEW p \in Processes, AlreadyRunning(p) PROVE RemovalInv'
  BY <1>20 DEF AlreadyRunning, Exit
<1>21. ASSUME NEW p \in Processes, OpenWindow(p) PROVE RemovalInv'
  BY <1>21 DEF OpenWindow
<1>22. ASSUME NEW p \in Processes, Activated(p) PROVE RemovalInv'
  BY <1>22 DEF Activated, TakeKey, SystemValues, InKeychain, Preferred, Saved
<1>23. ASSUME NEW p \in Processes, ActivationCompleted(p) PROVE RemovalInv'
  BY <1>23 DEF ActivationCompleted
<1>24. ASSUME NEW p \in Processes, ActivationFailed(p) PROVE RemovalInv'
  BY <1>24 DEF ActivationFailed
<1>25. ASSUME NEW p \in Processes, ActivationHandedOver(p) PROVE RemovalInv'
  BY <1>25 DEF ActivationHandedOver, Exit
<1>26. ASSUME NEW p \in Processes, Fails(p) PROVE RemovalInv'
  BY <1>26 DEF Fails, Report, Exit
<1>27. ASSUME NEW p \in Processes, WorkerFails(p) PROVE RemovalInv'
  BY <1>27 DEF WorkerFails
<1>28. ASSUME NEW p \in Processes, WorkerStops(p) PROVE RemovalInv'
  BY <1>28 DEF WorkerStops
<1>29. ASSUME NEW p \in Processes, CollectorStopped(p) PROVE RemovalInv'
  BY <1>29 DEF CollectorStopped, Exit
<1>30. ASSUME NEW p \in Processes, Dies(p) PROVE RemovalInv'
  BY <1>30 DEF Dies, Exit
<1>31. CASE Redeem
  BY <1>31 DEF Redeem
<1>32. CASE Revoke
  BY <1>32 DEF Revoke
<1>33. CASE UNCHANGED vars
  BY <1>33 DEF vars
<1> QED
  BY <1>1, <1>2, <1>3, <1>4, <1>5, <1>6, <1>7, <1>8, <1>9, <1>10, <1>11,
     <1>12, <1>13, <1>14, <1>15, <1>16, <1>17, <1>18, <1>19, <1>20, <1>21,
     <1>22, <1>23, <1>24, <1>25, <1>26, <1>27, <1>28, <1>29, <1>30, <1>31,
     <1>32, <1>33 DEF Next, Step

(* The user gives a token only while no other is being activated, and a     *)
(* launch hands it over.                                                    *)
LEMMA OneActivatesStep == ProcessesInv /\ OneActivates /\ [Next]_vars => OneActivates'
<1> SUFFICES ASSUME ProcessesInv, OneActivates, [Next]_vars PROVE OneActivates'
  OBVIOUS
<1> USE ActivationAssumption DEF ProcessesInv, Typed, StepsInv, StepInv, OneActivates,
           NobodyActivates, Starting, Activating, InWindow, store, service, process,
           history, Advance, Goto
<1>1. ASSUME NEW p \in Processes, StartPlain(p) PROVE OneActivates'
  BY <1>1 DEF StartPlain
<1>2. ASSUME NEW p \in Processes, StartWithToken(p) PROVE OneActivates'
  BY <1>2 DEF StartWithToken
<1>3. ASSUME NEW p \in Processes, BeginActivation(p) PROVE OneActivates'
  BY <1>3 DEF BeginActivation
<1>4. ASSUME NEW p \in Processes, InstallAndLaunch(p) PROVE OneActivates'
  BY <1>4 DEF InstallAndLaunch, Launch
<1>5. ASSUME NEW p \in Processes, MigrateAndLaunch(p) PROVE OneActivates'
  BY <1>5 DEF MigrateAndLaunch, Launch
<1>6. ASSUME NEW p \in Processes, LoadPending(p) PROVE OneActivates'
  BY <1>6 DEF LoadPending, SystemValues, InKeychain
<1>7. ASSUME NEW p \in Processes, GenerateSecret(p) PROVE OneActivates'
  BY <1>7 DEF GenerateSecret, Secrets
<1>8. ASSUME NEW p \in Processes, SavePending(p) PROVE OneActivates'
  BY <1>8 DEF SavePending, Saved, InKeychain
<1>9. ASSUME NEW p \in Processes, Send(p) PROVE OneActivates'
  BY <1>9 DEF Send
<1>10. ASSUME NEW p \in Processes, Issued(p) PROVE OneActivates'
  BY <1>10 DEF Issued
<1>11. ASSUME NEW p \in Processes, Refused(p) PROVE OneActivates'
  BY <1>11 DEF Refused, Report, Exit
<1>12. ASSUME NEW p \in Processes, SaveKey(p) PROVE OneActivates'
  BY <1>12 DEF SaveKey, Saved, InKeychain
<1>13. ASSUME NEW p \in Processes, ClearPending(p) PROVE OneActivates'
  BY <1>13 DEF ClearPending, Removed, InKeychain
<1>14. ASSUME NEW p \in Processes, LoadKey(p) PROVE OneActivates'
  BY <1>14 DEF LoadKey, TakeKey, SystemValues, InKeychain, Preferred, Saved
<1>15. ASSUME NEW p \in Processes, KeyAccepted(p) PROVE OneActivates'
  BY <1>15 DEF KeyAccepted
<1>16. ASSUME NEW p \in Processes, KeyRejected(p) PROVE OneActivates'
  BY <1>16 DEF KeyRejected
<1>17. ASSUME NEW p \in Processes, DeleteKey(p) PROVE OneActivates'
  BY <1>17 DEF DeleteKey, Removed, InKeychain
<1>18. ASSUME NEW p \in Processes, EnableAutostart(p) PROVE OneActivates'
  BY <1>18 DEF EnableAutostart
<1>19. ASSUME NEW p \in Processes, AcquireGuard(p) PROVE OneActivates'
  BY <1>19 DEF AcquireGuard
<1>20. ASSUME NEW p \in Processes, AlreadyRunning(p) PROVE OneActivates'
  BY <1>20 DEF AlreadyRunning, Exit
<1>21. ASSUME NEW p \in Processes, OpenWindow(p) PROVE OneActivates'
  BY <1>21 DEF OpenWindow
<1>22. ASSUME NEW p \in Processes, Activated(p) PROVE OneActivates'
  BY <1>22 DEF Activated, TakeKey, SystemValues, InKeychain, Preferred, Saved
<1>23. ASSUME NEW p \in Processes, ActivationCompleted(p) PROVE OneActivates'
  BY <1>23 DEF ActivationCompleted
<1>24. ASSUME NEW p \in Processes, ActivationFailed(p) PROVE OneActivates'
  BY <1>24 DEF ActivationFailed
<1>25. ASSUME NEW p \in Processes, ActivationHandedOver(p) PROVE OneActivates'
  BY <1>25 DEF ActivationHandedOver, Exit
<1>26. ASSUME NEW p \in Processes, Fails(p) PROVE OneActivates'
  BY <1>26 DEF Fails, Report, Exit
<1>27. ASSUME NEW p \in Processes, WorkerFails(p) PROVE OneActivates'
  BY <1>27 DEF WorkerFails
<1>28. ASSUME NEW p \in Processes, WorkerStops(p) PROVE OneActivates'
  BY <1>28 DEF WorkerStops
<1>29. ASSUME NEW p \in Processes, CollectorStopped(p) PROVE OneActivates'
  BY <1>29 DEF CollectorStopped, Exit
<1>30. ASSUME NEW p \in Processes, Dies(p) PROVE OneActivates'
  BY <1>30 DEF Dies, Exit
<1>31. CASE Redeem
  BY <1>31 DEF Redeem
<1>32. CASE Revoke
  BY <1>32 DEF Revoke
<1>33. CASE UNCHANGED vars
  BY <1>33 DEF vars
<1> QED
  BY <1>1, <1>2, <1>3, <1>4, <1>5, <1>6, <1>7, <1>8, <1>9, <1>10, <1>11,
     <1>12, <1>13, <1>14, <1>15, <1>16, <1>17, <1>18, <1>19, <1>20, <1>21,
     <1>22, <1>23, <1>24, <1>25, <1>26, <1>27, <1>28, <1>29, <1>30, <1>31,
     <1>32, <1>33 DEF Next, Step

(* The secret on its way, or redeemed, of a token under way is the pending  *)
(* one.                                                                     *)
LEMMA PendingStep ==
  ProcessesInv /\ KeysInv /\ OneActivates /\ PendingInv /\ [Next]_vars => PendingInv'
<1> SUFFICES ASSUME ProcessesInv, KeysInv, OneActivates, PendingInv, [Next]_vars PROVE
             PendingInv'
  OBVIOUS
<1> USE ActivationAssumption DEF ProcessesInv, Typed, StepsInv, StepInv, KeysInv,
           OneActivates, PendingInv, Activating, store, service, process, history,
           Advance, Goto, Key, Keys, Secrets, Copies
<1>1. ASSUME NEW p \in Processes, StartPlain(p) PROVE PendingInv'
  BY <1>1 DEF StartPlain
<1>2. ASSUME NEW p \in Processes, StartWithToken(p) PROVE PendingInv'
  BY <1>2 DEF StartWithToken
<1>3. ASSUME NEW p \in Processes, BeginActivation(p) PROVE PendingInv'
  BY <1>3 DEF BeginActivation
<1>4. ASSUME NEW p \in Processes, InstallAndLaunch(p) PROVE PendingInv'
  BY <1>4 DEF InstallAndLaunch, Launch
<1>5. ASSUME NEW p \in Processes, MigrateAndLaunch(p) PROVE PendingInv'
  BY <1>5 DEF MigrateAndLaunch, Launch
<1>6. ASSUME NEW p \in Processes, LoadPending(p) PROVE PendingInv'
  BY <1>6 DEF LoadPending, SystemValues, InKeychain
<1>7. ASSUME NEW p \in Processes, GenerateSecret(p) PROVE PendingInv'
  BY <1>7 DEF GenerateSecret, Secrets
<1>8. ASSUME NEW p \in Processes, SavePending(p) PROVE PendingInv'
  BY <1>8 DEF SavePending, Saved, InKeychain
<1>9. ASSUME NEW p \in Processes, Send(p) PROVE PendingInv'
  BY <1>9 DEF Send
<1>10. ASSUME NEW p \in Processes, Issued(p) PROVE PendingInv'
  BY <1>10 DEF Issued
<1>11. ASSUME NEW p \in Processes, Refused(p) PROVE PendingInv'
  BY <1>11 DEF Refused, Report, Exit
<1>12. ASSUME NEW p \in Processes, SaveKey(p) PROVE PendingInv'
  BY <1>12 DEF SaveKey, Saved, InKeychain
<1>13. ASSUME NEW p \in Processes, ClearPending(p) PROVE PendingInv'
  BY <1>13 DEF ClearPending, Removed, InKeychain
<1>14. ASSUME NEW p \in Processes, LoadKey(p) PROVE PendingInv'
  BY <1>14 DEF LoadKey, TakeKey, SystemValues, InKeychain, Preferred, Saved
<1>15. ASSUME NEW p \in Processes, KeyAccepted(p) PROVE PendingInv'
  BY <1>15 DEF KeyAccepted
<1>16. ASSUME NEW p \in Processes, KeyRejected(p) PROVE PendingInv'
  BY <1>16 DEF KeyRejected
<1>17. ASSUME NEW p \in Processes, DeleteKey(p) PROVE PendingInv'
  BY <1>17 DEF DeleteKey, Removed, InKeychain
<1>18. ASSUME NEW p \in Processes, EnableAutostart(p) PROVE PendingInv'
  BY <1>18 DEF EnableAutostart
<1>19. ASSUME NEW p \in Processes, AcquireGuard(p) PROVE PendingInv'
  BY <1>19 DEF AcquireGuard
<1>20. ASSUME NEW p \in Processes, AlreadyRunning(p) PROVE PendingInv'
  BY <1>20 DEF AlreadyRunning, Exit
<1>21. ASSUME NEW p \in Processes, OpenWindow(p) PROVE PendingInv'
  BY <1>21 DEF OpenWindow
<1>22. ASSUME NEW p \in Processes, Activated(p) PROVE PendingInv'
  BY <1>22 DEF Activated, TakeKey, SystemValues, InKeychain, Preferred, Saved
<1>23. ASSUME NEW p \in Processes, ActivationCompleted(p) PROVE PendingInv'
  BY <1>23 DEF ActivationCompleted
<1>24. ASSUME NEW p \in Processes, ActivationFailed(p) PROVE PendingInv'
  BY <1>24 DEF ActivationFailed
<1>25. ASSUME NEW p \in Processes, ActivationHandedOver(p) PROVE PendingInv'
  BY <1>25 DEF ActivationHandedOver, Exit
<1>26. ASSUME NEW p \in Processes, Fails(p) PROVE PendingInv'
  BY <1>26 DEF Fails, Report, Exit
<1>27. ASSUME NEW p \in Processes, WorkerFails(p) PROVE PendingInv'
  BY <1>27 DEF WorkerFails
<1>28. ASSUME NEW p \in Processes, WorkerStops(p) PROVE PendingInv'
  BY <1>28 DEF WorkerStops
<1>29. ASSUME NEW p \in Processes, CollectorStopped(p) PROVE PendingInv'
  BY <1>29 DEF CollectorStopped, Exit
<1>30. ASSUME NEW p \in Processes, Dies(p) PROVE PendingInv'
  BY <1>30 DEF Dies, Exit
<1>31. CASE Redeem
  BY <1>31 DEF Redeem
<1>32. CASE Revoke
  BY <1>32 DEF Revoke
<1>33. CASE UNCHANGED vars
  BY <1>33 DEF vars
<1> QED
  BY <1>1, <1>2, <1>3, <1>4, <1>5, <1>6, <1>7, <1>8, <1>9, <1>10, <1>11,
     <1>12, <1>13, <1>14, <1>15, <1>16, <1>17, <1>18, <1>19, <1>20, <1>21,
     <1>22, <1>23, <1>24, <1>25, <1>26, <1>27, <1>28, <1>29, <1>30, <1>31,
     <1>32, <1>33 DEF Next, Step

(* Only a token whose secret is no longer the pending one is refused.       *)
LEMMA RetryStep ==
  ProcessesInv /\ KeysInv /\ PendingInv /\ RetrySafe /\ [Next]_vars => RetrySafe'
<1> SUFFICES ASSUME ProcessesInv, KeysInv, PendingInv, RetrySafe, [Next]_vars
             PROVE RetrySafe'
  OBVIOUS
<1> USE DEF RetrySafe
<1>1. ASSUME NEW p \in Processes, Refused(p) PROVE RetrySafe'
  <2>1. /\ rejected' = rejected \union {token[p]}
        /\ saved' = saved /\ replaced' = replaced
        /\ pc[p] = "await" /\ redeemed[token[p]] \notin {0, secret[p]}
    BY <1>1 DEF Refused, history
  <2>2. token[p] \in Tokens /\ pending.file = Key(token[p], secret[p])
    BY <2>1 DEF ProcessesInv, StepsInv, StepInv, Activating, PendingInv
  <2>3. ASSUME token[p] \notin saved \union replaced PROVE FALSE
    <3>1. pending.file = Key(token[p], redeemed[token[p]])
      BY <2>1, <2>2, <2>3 DEF PendingInv
    <3> QED
      BY <3>1, <2>1, <2>2 DEF Key
  <2> QED
    BY <2>1, <2>3
<1>2. ASSUME NEW p \in Processes, SavePending(p) \/ SaveKey(p) PROVE RetrySafe'
  BY <1>2 DEF SavePending, SaveKey
<1>3. CASE UNCHANGED history
  BY <1>3 DEF history
<1>4. UNCHANGED history \/ \E p \in Processes : Refused(p) \/ SavePending(p) \/ SaveKey(p)
  BY ZenonT(40)
     DEF Next, Step, vars, StartPlain, StartWithToken, BeginActivation, InstallAndLaunch,
         MigrateAndLaunch, LoadPending, GenerateSecret, Send, Issued, ClearPending, LoadKey,
         KeyAccepted, KeyRejected, DeleteKey, EnableAutostart, AcquireGuard, AlreadyRunning,
         OpenWindow, Activated, ActivationCompleted, ActivationFailed, ActivationHandedOver,
         Fails, WorkerFails, WorkerStops, CollectorStopped, Dies, Redeem, Revoke, history
<1> QED
  BY <1>1, <1>2, <1>3, <1>4

LEMMA ActivationInit == Init => ActivationInv
  BY ActivationAssumption DEF Init, Nothing, ActivationInv, ProcessesInv, Typed, StepsInv,
     StepInv, KeysInv, RemovalInv, OneActivates, PendingInv, RetrySafe, Copies, Locations, Starting, Activating,
     InWindow, Secrets

LEMMA ActivationStep == ActivationInv /\ [Next]_vars => ActivationInv'
  BY StepsStep, KeysStep, RemovalStep, OneActivatesStep, PendingStep, RetryStep
     DEF ActivationInv

LEMMA ActivationInvariant == Spec => []ActivationInv
  BY ActivationInit, ActivationStep, PTL DEF Spec

-----------------------------------------------------------------------------
(* The stores hold keys, and a process in a step has what the step uses.    *)
THEOREM ActivationTypes == Spec => []TypeOK
<1>1. ActivationInv => TypeOK
  <2> SUFFICES ASSUME ActivationInv PROVE TypeOK
    OBVIOUS
  <2>1. {pending.file, pending.keychain, key.file, key.keychain} \subseteq Keys \union {None}
    BY DEF ActivationInv, ProcessesInv, Typed, Copies
  <2>2. redeemed \in [Tokens -> 0 .. MaxSecrets]
    <3>1. Secrets \union {0} = 0 .. MaxSecrets
      BY ActivationAssumption DEF Secrets
    <3> QED
      BY <3>1 DEF ActivationInv, KeysInv
  <2>3. requests \subseteq Keys /\ guard \in Processes \union {None}
    BY DEF ActivationInv, ProcessesInv, Typed, KeysInv
  <2>4. ASSUME NEW p \in Processes
        PROVE  /\ pc[p] \in Activating => token[p] \in Tokens
               /\ pc[p] \in {"send", "await", "save_key"} => secret[p] \in Secrets
               /\ pc[p] \in {"validate", "delete"} => loaded[p] # None
               /\ pc[p] = "desktop" \/ ui[p] => guard = p
    BY DEF ActivationInv, ProcessesInv, StepsInv, StepInv
  <2> QED
    BY <2>1, <2>2, <2>3, <2>4 DEF TypeOK, Activating
<1> QED
  BY <1>1, ActivationInvariant, PTL

(* A redeemed token is not refused before its key was saved, unless another *)
(* token's secret has taken the place of its own: whatever answers are lost *)
(* or late and wherever a process dies, for any number of tokens.           *)
THEOREM ActivationRetrySafe == Spec => []RetrySafe
<1>1. ActivationInv => RetrySafe
  BY DEF ActivationInv
<1> QED
  BY <1>1, ActivationInvariant, PTL

(* One worker runs at most, in the stable installation and with a key that  *)
(* the service has issued: the guard has one holder, and it is held by      *)
(* every process with a worker.                                             *)
THEOREM ActivationOneWorker == Spec => []OneWorker
<1>1. ActivationInv => OneWorker
  BY ActivationAssumption
     DEF ActivationInv, ProcessesInv, OneWorker, Typed, StepsInv, StepInv, KeysInv
<1> QED
  BY <1>1, ActivationInvariant, PTL

(* No step removes a key that is neither revoked nor rejected: a start that *)
(* deletes has seen its key rejected, which cannot be undone.               *)
THEOREM ActivationActiveKeyKept == Spec => ActiveKeyKept
<1> DEFINE Kept ==
      StoredKey # None /\ Active(StoredKey)
        /\ (\A p \in Processes : pc[p] = "delete" => loaded[p] = StoredKey)
        => StoredKey' # None
<1>1. ActivationInv /\ [Next]_vars => Kept
  <2> SUFFICES ASSUME ActivationInv, [Next]_vars, StoredKey # None, Active(StoredKey),
                      \A p \in Processes : pc[p] = "delete" => loaded[p] = StoredKey
               PROVE StoredKey' # None
    OBVIOUS
  <2>1. key \in Copies /\ key' \in Copies
    BY ActivationStep DEF ActivationInv, ProcessesInv, Typed
  <2>2. StoredKey' # None <=> key'.file # None \/ key'.keychain # None
    BY DEF StoredKey, Preferred
  <2>3. key.file # None \/ key.keychain # None
    BY DEF StoredKey, Preferred
  <2>4. ASSUME NEW p \in Processes PROVE ~DeleteKey(p)
    BY DEF ActivationInv, RemovalInv, Active, DeleteKey, Advance
  <2>5. ASSUME NEW p \in Processes, SaveKey(p) PROVE key'.file # None
    <3>1. key'.file = Key(token[p], secret[p])
      BY <2>5 DEF SaveKey, Saved
    <3>2. Key(token[p], secret[p]) \in Keys
      BY <2>5 DEF SaveKey, Advance, Goto, ActivationInv, ProcessesInv, StepsInv, StepInv,
                  Activating, Key, Keys
    <3> QED
      BY <3>1, <3>2, ActivationAssumption DEF Keys, Secrets
  <2>6. ASSUME NEW p \in Processes, TakeKey(p), key' # key PROVE key'.file # None
    BY <2>6 DEF TakeKey, Saved
  <2>7. key' = key \/ \E p \in Processes : DeleteKey(p) \/ SaveKey(p) \/ TakeKey(p)
    BY DEF Next, Step, vars, StartPlain, StartWithToken, BeginActivation, InstallAndLaunch,
           MigrateAndLaunch, LoadPending, GenerateSecret, SavePending, Send, Issued, Refused,
           ClearPending, LoadKey, KeyAccepted, KeyRejected, EnableAutostart, AcquireGuard,
           AlreadyRunning, OpenWindow, Activated, ActivationCompleted, ActivationFailed,
           ActivationHandedOver, Fails, WorkerFails, WorkerStops, CollectorStopped, Dies,
           Redeem, Revoke, store
  <2> QED
    BY <2>2, <2>3, <2>4, <2>5, <2>6, <2>7
<1> QED
  BY <1>1, ActivationInvariant, PTL DEF Spec, ActiveKeyKept
=============================================================================
