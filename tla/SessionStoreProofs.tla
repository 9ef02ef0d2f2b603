------------------------- MODULE SessionStoreProofs --------------------------
(***************************************************************************)
(* Proofs about the sessions, for any tokens, passwords, TTL, number of    *)
(* starts and steps of the clock.                                          *)
(***************************************************************************)
EXTENDS SessionStore, TLAPS

Eighth == ttl \div 8

(* Types, and what the histories are made of. *)
Types ==
    /\ credential \in Creds \cup {AuthOff}
    /\ deadline \in [Tokens -> Nat]
    /\ file \in [cred : Creds \cup {AuthOff}, deadline : [Tokens -> Nat]]
    /\ pc \in [Threads -> {"run", "save", "write"}] /\ snap \in [Threads -> [Tokens -> Nat]]
    /\ mono \in Nat /\ clock \in Nat
    /\ checked \in [Tokens -> [at : Nat, back : Nat]]
    /\ used \in [Tokens -> [at : Nat, fwd : Nat]]
    /\ \A t \in Tokens : used[t].at <= mono
    /\ minted \in [Tokens -> Creds \cup {AuthOff}]
    /\ over \in SUBSET Tokens /\ dropped \in SUBSET Tokens
Flags == up \in BOOLEAN /\ back \in BOOLEAN /\ fwd \in BOOLEAN /\ lossy \in BOOLEAN

(* A process that is down has no table and no save. *)
Down == ~up => deadline = Empty /\ AllSaved

(* The clock is at its first reading or past it, less the one step back. *)
ClockSteps == ~back => clock >= Epoch

(* save_mtx_: one save at a time. *)
OneSave == \A g, h \in Threads : pc[g] = "write" /\ pc[h] = "write" => g = h

(* Only logins put a token in the table, in what is being saved, in the file. *)
OfLogins ==
    \A t \in Tokens : minted[t] = AuthOff =>
        deadline[t] = None /\ file.deadline[t] = None /\ \A h \in Threads : snap[h][t] = None

(* A session whose end is in the file is in nothing that could bring it back. *)
Ended ==
    \A t \in over : /\ minted[t] # AuthOff
                    /\ deadline[t] = None /\ file.deadline[t] = None
                    /\ \A h \in Threads : pc[h] = "write" => snap[h][t] = None

(* What the clock shows to be left of a session bounds what real time leaves. *)
Ends ==
    \A t \in Tokens :
        deadline[t] # None => deadline[t] + mono <= clock + ttl + checked[t].back + checked[t].at

(* Without a lost save, what is in the file, or about to be, lasts no shorter *)
(* than the table's own: verify()'s cut is the only change not saved.         *)
Only(h) == pc[h] = "write" /\ \A g \in Threads \ {h} : pc[g] = "run"
SavedLasts ==
    up /\ ~lossy =>
        /\ AllSaved => \A t \in Tokens : deadline[t] <= file.deadline[t]
        /\ \A h \in Threads : Only(h) => \A t \in Tokens : deadline[t] <= snap[h][t]

(* Used within seven eighths of the TTL, a session is good for what is left. *)
Lasting(d, t) ==
    Unused(t) + Eighth <= ttl => d[t] + Eighth + Unused(t) > clock + ttl

(* A session taken from the table on purpose, the save of it still to come. *)
Leaving(t) ==
    /\ deadline[t] = None
    /\ \E h \in Threads : pc[h] = "save" \/ (pc[h] = "write" /\ snap[h][t] = None)

Lasts ==
    ~lossy =>
        \A t \in Tokens : minted[t] # AuthOff /\ t \notin dropped /\ t \notin over =>
            /\ up => Lasting(deadline, t) \/ Leaving(t)
            /\ ~up => Lasting(file.deadline, t)

(* While the clock has not stepped back, no deadline is further off than a    *)
(* whole TTL, and table and file agree on the sessions that either accepts.   *)
Near(d) == \A t \in Tokens : d[t] <= clock + ttl
Agree(d, e) == \A t \in Tokens : Live(d, t) \/ Live(e, t) => d[t] = e[t]
Unnoticed ==
    ~back =>
        /\ Near(deadline) /\ Near(file.deadline) /\ \A h \in Threads : Near(snap[h])
        /\ up /\ ~lossy =>
              /\ AllSaved /\ file.cred = credential => Agree(deadline, file.deadline)
              /\ \A h \in Threads : Only(h) => Agree(deadline, snap[h])

SessionInv ==
    /\ Types /\ Flags /\ Down /\ ClockSteps /\ OneSave /\ OfLogins
    /\ Ended /\ Ends /\ SavedLasts /\ Lasts /\ Unnoticed

(* Every action keeps the types. *)
LEMMA TypesStep ==
    ASSUME SessionAssumption, Types, ClockSteps, [Next]_vars
    PROVE  Types'
<1>. USE DEF SessionAssumption, Types, ClockSteps, Threads, None
<1>1. ASSUME NEW c \in Creds \cup {AuthOff}, Start(c)
      PROVE  Types'
    BY <1>1 DEF Start, Loaded, Live, fresh, Min2, Empty, Checked, saving
<1>2. ASSUME NEW t \in Tokens, create(t)
      PROVE  Types'
    BY <1>2 DEF create, Checked, Used, autosave, fresh, time
<1>3. ASSUME NEW t \in Tokens, verify(t)
      PROVE  Types'
    BY <1>3 DEF verify, fresh, Min2, Checked, NoSave, saving, time
<1>4. ASSUME NEW t \in Tokens, touch(t)
      PROVE  Types'
    <2>1. fresh \in Nat
        BY DEF fresh
    <2>2. /\ deadline' \in [Tokens -> Nat]
          /\ pc' \in [Threads -> {"run", "save", "write"}] /\ snap' \in [Threads -> [Tokens -> Nat]]
        BY <1>4, <2>1 DEF touch, autosave, NoSave, saving
    <2>3. checked' \in [Tokens -> [at : Nat, back : Nat]]
        BY <1>4, Zenon DEF touch, Checked
    <2>4. used' \in [Tokens -> [at : Nat, fwd : Nat]] /\ \A s \in Tokens : used'[s].at <= mono
        BY <1>4 DEF touch, Used
    <2>5. UNCHANGED <<credential, file, clock, mono, minted, over, dropped>>
        BY <1>4, Zenon DEF touch, time
    <2>. QED
        BY <2>2, <2>3, <2>4, <2>5, Zenon
<1>5. ASSUME NEW t \in Tokens, revoke(t)
      PROVE  Types'
    BY <1>5, Zenon DEF revoke, autosave, time, history
<1>6. ASSUME NEW h \in Threads, NEW t \in Tokens, Evict(h, t)
      PROVE  Types'
    BY <1>6, Zenon DEF Evict, autosave, time, history
<1>7. ASSUME purge_expired
      PROVE  Types'
    BY <1>7, Zenon DEF purge_expired, saving, time, history
<1>8. ASSUME NEW h \in Threads, SaveBegin(h)
      PROVE  Types'
    BY <1>8, Zenon DEF SaveBegin, process, time, history
<1>9. ASSUME NEW h \in Threads, SaveEnd(h)
      PROVE  Types'
    BY <1>9, Zenon DEF SaveEnd, process, time, Empty
<1>10. ASSUME NEW h \in Threads, SaveFails(h)
      PROVE  Types'
    BY <1>10, Zenon DEF SaveFails, process, time, Empty
<1>11. ASSUME Stop
      PROVE  Types'
    BY <1>11, Zenon DEF Stop, time, Empty
<1>12. ASSUME TimePasses
      PROVE  Types'
    BY <1>12 DEF TimePasses, process, saving, history
<1>13. ASSUME ClockStepsBack
      PROVE  Types'
    <2>1. PICK d \in BackSteps :
              /\ clock' = clock - d
              /\ checked' = [t \in Tokens |-> [checked[t] EXCEPT !.back = @ + d]]
        BY <1>13, Zenon DEF ClockStepsBack
    <2>2. clock >= Epoch
        BY <1>13, Zenon DEF ClockStepsBack
    <2>3. d \in Nat /\ d <= Epoch
        BY DEF Epoch
    <2>4. clock' \in Nat
        BY <2>1, <2>2, <2>3 DEF Epoch
    <2>5. ASSUME NEW t \in Tokens PROVE [checked[t] EXCEPT !.back = @ + d] \in [at : Nat, back : Nat]
        BY <2>3
    <2>6. checked' \in [Tokens -> [at : Nat, back : Nat]]
        BY <2>1, <2>5, Zenon
    <2>. QED
        BY <1>13, <2>4, <2>6, Zenon DEF ClockStepsBack, process, saving
<1>14. ASSUME ClockStepsForward
      PROVE  Types'
    <2>1. PICK d \in FwdSteps :
              /\ clock' = clock + d
              /\ used' = [t \in Tokens |-> [used[t] EXCEPT !.fwd = @ + d]]
        BY <1>14, Zenon DEF ClockStepsForward
    <2>2. d \in Nat /\ clock' \in Nat
        BY <2>1
    <2>3. ASSUME NEW t \in Tokens
          PROVE  /\ [used[t] EXCEPT !.fwd = @ + d] \in [at : Nat, fwd : Nat]
                 /\ [used[t] EXCEPT !.fwd = @ + d].at = used[t].at
        BY <2>2
    <2>4. used' \in [Tokens -> [at : Nat, fwd : Nat]] /\ \A t \in Tokens : used'[t].at = used[t].at
        BY <2>1, <2>3, Zenon
    <2>. QED
        BY <1>14, <2>2, <2>4, Zenon DEF ClockStepsForward, process, saving
<1>15. ASSUME UNCHANGED vars
      PROVE  Types'
    BY <1>15, Zenon DEF vars, process, saving, time, history
<1>. QED
    BY <1>1, <1>2, <1>3, <1>4, <1>5, <1>6, <1>7, <1>8, <1>9, <1>10, <1>11, <1>12, <1>13, <1>14, <1>15, Zenon DEF Next

(* Every action keeps the flags Boolean. *)
LEMMA FlagsStep ==
    ASSUME Flags, [Next]_vars
    PROVE  Flags'
<1>. USE DEF Flags
<1>1. ASSUME NEW c \in Creds \cup {AuthOff}, Start(c)
      PROVE  Flags'
    BY <1>1, Zenon DEF Start
<1>2. ASSUME NEW t \in Tokens, create(t)
      PROVE  Flags'
    BY <1>2, Zenon DEF create, time
<1>3. ASSUME NEW t \in Tokens, verify(t)
      PROVE  Flags'
    BY <1>3, Zenon DEF verify, time
<1>4. ASSUME NEW t \in Tokens, touch(t)
      PROVE  Flags'
    BY <1>4, Zenon DEF touch, time
<1>5. ASSUME NEW t \in Tokens, revoke(t)
      PROVE  Flags'
    BY <1>5, Zenon DEF revoke, time, history
<1>6. ASSUME NEW h \in Threads, NEW t \in Tokens, Evict(h, t)
      PROVE  Flags'
    BY <1>6, Zenon DEF Evict, time, history
<1>7. ASSUME purge_expired
      PROVE  Flags'
    BY <1>7, Zenon DEF purge_expired, time, history
<1>8. ASSUME NEW h \in Threads, SaveBegin(h)
      PROVE  Flags'
    BY <1>8, Zenon DEF SaveBegin, process, time, history
<1>9. ASSUME NEW h \in Threads, SaveEnd(h)
      PROVE  Flags'
    BY <1>9, Zenon DEF SaveEnd, process, time
<1>10. ASSUME NEW h \in Threads, SaveFails(h)
      PROVE  Flags'
    BY <1>10, Zenon DEF SaveFails, process, time
<1>11. ASSUME Stop
      PROVE  Flags'
    BY <1>11, Zenon DEF Stop, time
<1>12. ASSUME TimePasses
      PROVE  Flags'
    BY <1>12, Zenon DEF TimePasses, process, history
<1>13. ASSUME ClockStepsBack
      PROVE  Flags'
    BY <1>13, Zenon DEF ClockStepsBack, process
<1>14. ASSUME ClockStepsForward
      PROVE  Flags'
    BY <1>14, Zenon DEF ClockStepsForward, process
<1>15. ASSUME UNCHANGED vars
      PROVE  Flags'
    BY <1>15, Zenon DEF vars, process, time, history
<1>. QED
    BY <1>1, <1>2, <1>3, <1>4, <1>5, <1>6, <1>7, <1>8, <1>9, <1>10, <1>11, <1>12, <1>13, <1>14, <1>15, Zenon DEF Next

(* Only a start brings up a table; only a running daemon saves. *)
LEMMA DownStep ==
    ASSUME Types, Flags, Down, [Next]_vars
    PROVE  Down'
<1>. USE DEF Types, Flags, Down, AllSaved
<1>1. ASSUME NEW c \in Creds \cup {AuthOff}, Start(c)
      PROVE  Down'
    BY <1>1, Zenon DEF Start, Empty, saving
<1>2. ASSUME NEW t \in Tokens, create(t)
      PROVE  Down'
    BY <1>2, Zenon DEF create, Idle, autosave, time
<1>3. ASSUME NEW t \in Tokens, verify(t)
      PROVE  Down'
    BY <1>3, Zenon DEF verify, Idle, NoSave, saving, time
<1>4. ASSUME NEW t \in Tokens, touch(t)
      PROVE  Down'
    BY <1>4, Zenon DEF touch, Idle, autosave, NoSave, saving, time
<1>5. ASSUME NEW t \in Tokens, revoke(t)
      PROVE  Down'
    BY <1>5, Zenon DEF revoke, Idle, autosave, time, history
<1>6. ASSUME NEW h \in Threads, NEW t \in Tokens, Evict(h, t)
      PROVE  Down'
    BY <1>6, Zenon DEF Evict, Idle, autosave, time, history
<1>7. ASSUME purge_expired
      PROVE  Down'
    BY <1>7, Zenon DEF purge_expired, Idle, saving, time, history
<1>8. ASSUME NEW h \in Threads, SaveBegin(h)
      PROVE  Down'
    BY <1>8, Zenon DEF SaveBegin, process, time, history
<1>9. ASSUME NEW h \in Threads, SaveEnd(h)
      PROVE  Down'
    BY <1>9, Zenon DEF SaveEnd, process, time, Empty
<1>10. ASSUME NEW h \in Threads, SaveFails(h)
      PROVE  Down'
    BY <1>10, Zenon DEF SaveFails, process, time, Empty
<1>11. ASSUME Stop
      PROVE  Down'
    BY <1>11, Zenon DEF Stop, time, Empty
<1>12. ASSUME TimePasses
      PROVE  Down'
    BY <1>12, Zenon DEF TimePasses, process, saving, history
<1>13. ASSUME ClockStepsBack
      PROVE  Down'
    BY <1>13, Zenon DEF ClockStepsBack, process, saving
<1>14. ASSUME ClockStepsForward
      PROVE  Down'
    BY <1>14, Zenon DEF ClockStepsForward, process, saving
<1>15. ASSUME UNCHANGED vars
      PROVE  Down'
    BY <1>15, Zenon DEF vars, process, saving, time, history
<1>. QED
    BY <1>1, <1>2, <1>3, <1>4, <1>5, <1>6, <1>7, <1>8, <1>9, <1>10, <1>11, <1>12, <1>13, <1>14, <1>15, Zenon DEF Next

(* One step back, and time goes on. *)
LEMMA ClockStep ==
    ASSUME SessionAssumption, Types, Flags, ClockSteps, [Next]_vars
    PROVE  ClockSteps'
<1>. USE DEF SessionAssumption, Types, Flags, ClockSteps, Epoch
<1>1. ASSUME NEW c \in Creds \cup {AuthOff}, Start(c)
      PROVE  ClockSteps'
    BY <1>1, Zenon DEF Start
<1>2. ASSUME NEW t \in Tokens, create(t)
      PROVE  ClockSteps'
    BY <1>2, Zenon DEF create, time
<1>3. ASSUME NEW t \in Tokens, verify(t)
      PROVE  ClockSteps'
    BY <1>3, Zenon DEF verify, time
<1>4. ASSUME NEW t \in Tokens, touch(t)
      PROVE  ClockSteps'
    BY <1>4, Zenon DEF touch, time
<1>5. ASSUME NEW t \in Tokens, revoke(t)
      PROVE  ClockSteps'
    BY <1>5, Zenon DEF revoke, time, history
<1>6. ASSUME NEW h \in Threads, NEW t \in Tokens, Evict(h, t)
      PROVE  ClockSteps'
    BY <1>6, Zenon DEF Evict, time, history
<1>7. ASSUME purge_expired
      PROVE  ClockSteps'
    BY <1>7, Zenon DEF purge_expired, time, history
<1>8. ASSUME NEW h \in Threads, SaveBegin(h)
      PROVE  ClockSteps'
    BY <1>8, Zenon DEF SaveBegin, process, time, history
<1>9. ASSUME NEW h \in Threads, SaveEnd(h)
      PROVE  ClockSteps'
    BY <1>9, Zenon DEF SaveEnd, process, time
<1>10. ASSUME NEW h \in Threads, SaveFails(h)
      PROVE  ClockSteps'
    BY <1>10, Zenon DEF SaveFails, process, time
<1>11. ASSUME Stop
      PROVE  ClockSteps'
    BY <1>11, Zenon DEF Stop, time
<1>12. ASSUME TimePasses
      PROVE  ClockSteps'
    BY <1>12 DEF TimePasses, process, history
<1>13. ASSUME ClockStepsBack
      PROVE  ClockSteps'
    BY <1>13, Zenon DEF ClockStepsBack, process
<1>14. ASSUME ClockStepsForward
      PROVE  ClockSteps'
    BY <1>14 DEF ClockStepsForward, process
<1>15. ASSUME UNCHANGED vars
      PROVE  ClockSteps'
    BY <1>15, Zenon DEF vars, process, time, history
<1>. QED
    BY <1>1, <1>2, <1>3, <1>4, <1>5, <1>6, <1>7, <1>8, <1>9, <1>10, <1>11, <1>12, <1>13, <1>14, <1>15, Zenon DEF Next

(* A save begins only when no other is under way. *)
LEMMA OneSaveStep ==
    ASSUME Types, OneSave, [Next]_vars
    PROVE  OneSave'
<1>. USE DEF Types, OneSave, Threads
<1>1. ASSUME NEW c \in Creds \cup {AuthOff}, Start(c)
      PROVE  OneSave'
    BY <1>1, Zenon DEF Start, saving
<1>2. ASSUME NEW t \in Tokens, create(t)
      PROVE  OneSave'
    BY <1>2, Zenon DEF create, Idle, autosave
<1>3. ASSUME NEW t \in Tokens, verify(t)
      PROVE  OneSave'
    BY <1>3, Zenon DEF verify, Idle, NoSave, saving
<1>4. ASSUME NEW t \in Tokens, touch(t)
      PROVE  OneSave'
    BY <1>4, Zenon DEF touch, Idle, autosave, NoSave, saving
<1>5. ASSUME NEW t \in Tokens, revoke(t)
      PROVE  OneSave'
    BY <1>5, Zenon DEF revoke, Idle, autosave
<1>6. ASSUME NEW h \in Threads, NEW t \in Tokens, Evict(h, t)
      PROVE  OneSave'
    BY <1>6, Zenon DEF Evict, Idle, autosave
<1>7. ASSUME purge_expired
      PROVE  OneSave'
    BY <1>7, Zenon DEF purge_expired, Idle, saving
<1>8. ASSUME NEW h \in Threads, SaveBegin(h)
      PROVE  OneSave'
    BY <1>8, Zenon DEF SaveBegin
<1>9. ASSUME NEW h \in Threads, SaveEnd(h)
      PROVE  OneSave'
    BY <1>9, Zenon DEF SaveEnd
<1>10. ASSUME NEW h \in Threads, SaveFails(h)
      PROVE  OneSave'
    BY <1>10, Zenon DEF SaveFails
<1>11. ASSUME Stop
      PROVE  OneSave'
    BY <1>11, Zenon DEF Stop
<1>12. ASSUME TimePasses
      PROVE  OneSave'
    BY <1>12, Zenon DEF TimePasses, saving
<1>13. ASSUME ClockStepsBack
      PROVE  OneSave'
    BY <1>13, Zenon DEF ClockStepsBack, saving
<1>14. ASSUME ClockStepsForward
      PROVE  OneSave'
    BY <1>14, Zenon DEF ClockStepsForward, saving
<1>15. ASSUME UNCHANGED vars
      PROVE  OneSave'
    BY <1>15, SMTT(90) DEF vars, saving
<1>. QED
    BY <1>1, <1>2, <1>3, <1>4, <1>5, <1>6, <1>7, <1>8, <1>9, <1>10, <1>11, <1>12, <1>13, <1>14, <1>15, Zenon DEF Next

(* Tokens go from the table to the save, to the file, and back at a start. *)
LEMMA OfLoginsStep ==
    ASSUME SessionAssumption, Types, OfLogins, [Next]_vars
    PROVE  OfLogins'
<1>. USE DEF SessionAssumption, Types, OfLogins, Threads, None
<1>1. ASSUME NEW c \in Creds \cup {AuthOff}, Start(c)
      PROVE  OfLogins'
    BY <1>1 DEF Start, Loaded, Live, fresh, Min2, Empty, saving
<1>2. ASSUME NEW t \in Tokens, create(t)
      PROVE  OfLogins'
    BY <1>2, Zenon DEF create, Idle, autosave, fresh
<1>3. ASSUME NEW t \in Tokens, verify(t)
      PROVE  OfLogins'
    BY <1>3 DEF verify, Idle, Live, fresh, Min2, NoSave, saving
<1>4. ASSUME NEW t \in Tokens, touch(t)
      PROVE  OfLogins'
    BY <1>4 DEF touch, Idle, Live, fresh, autosave, NoSave, saving
<1>5. ASSUME NEW t \in Tokens, revoke(t)
      PROVE  OfLogins'
    BY <1>5, Zenon DEF revoke, Idle, autosave, history
<1>6. ASSUME NEW h \in Threads, NEW t \in Tokens, Evict(h, t)
      PROVE  OfLogins'
    BY <1>6, Zenon DEF Evict, Idle, Live, autosave, history
<1>7. ASSUME purge_expired
      PROVE  OfLogins'
    BY <1>7, Zenon DEF purge_expired, Idle, Live, saving, history
<1>8. ASSUME NEW h \in Threads, SaveBegin(h)
      PROVE  OfLogins'
    BY <1>8, Zenon DEF SaveBegin, process, history
<1>9. ASSUME NEW h \in Threads, SaveEnd(h)
      PROVE  OfLogins'
    BY <1>9, Zenon DEF SaveEnd, process, Empty
<1>10. ASSUME NEW h \in Threads, SaveFails(h)
      PROVE  OfLogins'
    BY <1>10, Zenon DEF SaveFails, process, Empty
<1>11. ASSUME Stop
      PROVE  OfLogins'
    BY <1>11, Zenon DEF Stop, Empty
<1>12. ASSUME TimePasses
      PROVE  OfLogins'
    BY <1>12, Zenon DEF TimePasses, process, saving, history
<1>13. ASSUME ClockStepsBack
      PROVE  OfLogins'
    BY <1>13, Zenon DEF ClockStepsBack, process, saving
<1>14. ASSUME ClockStepsForward
      PROVE  OfLogins'
    BY <1>14, Zenon DEF ClockStepsForward, process, saving
<1>15. ASSUME UNCHANGED vars
      PROVE  OfLogins'
    BY <1>15, SMTT(90) DEF vars, process, saving, history
<1>. QED
    BY <1>1, <1>2, <1>3, <1>4, <1>5, <1>6, <1>7, <1>8, <1>9, <1>10, <1>11, <1>12, <1>13, <1>14, <1>15, Zenon DEF Next

(* The end of a session stays in the table, the saves and the file. *)
LEMMA EndedStep ==
    ASSUME SessionAssumption, Types, OneSave, OfLogins, Ended, [Next]_vars
    PROVE  Ended'
<1>. USE DEF SessionAssumption, Types, OneSave, OfLogins, Ended, Threads, None
<1>1. ASSUME NEW c \in Creds \cup {AuthOff}, Start(c)
      PROVE  Ended'
    BY <1>1 DEF Start, Loaded, Live, fresh, Min2, Empty, saving
<1>2. ASSUME NEW t \in Tokens, create(t)
      PROVE  Ended'
    BY <1>2 DEF create, Idle, autosave, fresh
<1>3. ASSUME NEW t \in Tokens, verify(t)
      PROVE  Ended'
    BY <1>3 DEF verify, Idle, Live, fresh, Min2, NoSave, saving
<1>4. ASSUME NEW t \in Tokens, touch(t)
      PROVE  Ended'
    BY <1>4 DEF touch, Idle, Live, fresh, autosave, NoSave, saving
<1>5. ASSUME NEW t \in Tokens, revoke(t)
      PROVE  Ended'
    BY <1>5, Zenon DEF revoke, Idle, autosave, history
<1>6. ASSUME NEW h \in Threads, NEW t \in Tokens, Evict(h, t)
      PROVE  Ended'
    BY <1>6 DEF Evict, Idle, Live, autosave, history
<1>7. ASSUME purge_expired
      PROVE  Ended'
    BY <1>7, Zenon DEF purge_expired, Idle, Live, saving, history
<1>8. ASSUME NEW h \in Threads, SaveBegin(h)
      PROVE  Ended'
    BY <1>8, Zenon DEF SaveBegin, process, history
<1>9. ASSUME NEW h \in Threads, SaveEnd(h)
      PROVE  Ended'
    BY <1>9 DEF SaveEnd, process, Empty
<1>10. ASSUME NEW h \in Threads, SaveFails(h)
      PROVE  Ended'
    BY <1>10 DEF SaveFails, process, Empty
<1>11. ASSUME Stop
      PROVE  Ended'
    BY <1>11, Zenon DEF Stop, Empty
<1>12. ASSUME TimePasses
      PROVE  Ended'
    BY <1>12, Zenon DEF TimePasses, process, saving, history
<1>13. ASSUME ClockStepsBack
      PROVE  Ended'
    BY <1>13 DEF ClockStepsBack, process, saving
<1>14. ASSUME ClockStepsForward
      PROVE  Ended'
    BY <1>14, Zenon DEF ClockStepsForward, process, saving
<1>15. ASSUME UNCHANGED vars
      PROVE  Ended'
    BY <1>15, SMTT(90) DEF vars, process, saving, history
<1>. QED
    BY <1>1, <1>2, <1>3, <1>4, <1>5, <1>6, <1>7, <1>8, <1>9, <1>10, <1>11, <1>12, <1>13, <1>14, <1>15, ZenonT(60) DEF Next

(* Whatever sets a deadline sets at most now + TTL. *)
LEMMA EndsStep ==
    ASSUME SessionAssumption, Types, Down, Ends, [Next]_vars
    PROVE  Ends'
<1>. USE DEF SessionAssumption, Types, Down, Ends, Threads, None
<1>1. ASSUME NEW c \in Creds \cup {AuthOff}, Start(c)
      PROVE  Ends'
    BY <1>1 DEF Start, Loaded, Live, fresh, Min2, Empty, Checked, saving
<1>2. ASSUME NEW t \in Tokens, create(t)
      PROVE  Ends'
    BY <1>2 DEF create, Idle, Checked, autosave, fresh, time
<1>3. ASSUME NEW t \in Tokens, verify(t)
      PROVE  Ends'
    BY <1>3 DEF verify, Idle, Live, fresh, Min2, Checked, NoSave, saving, time
<1>4. ASSUME NEW t \in Tokens, touch(t)
      PROVE  Ends'
    BY <1>4 DEF touch, Idle, Live, fresh, Checked, autosave, NoSave, saving, time
<1>5. ASSUME NEW t \in Tokens, revoke(t)
      PROVE  Ends'
    BY <1>5, Zenon DEF revoke, Idle, autosave, time, history
<1>6. ASSUME NEW h \in Threads, NEW t \in Tokens, Evict(h, t)
      PROVE  Ends'
    BY <1>6, Zenon DEF Evict, Idle, Live, autosave, time, history
<1>7. ASSUME purge_expired
      PROVE  Ends'
    BY <1>7, Zenon DEF purge_expired, Idle, Live, saving, time, history
<1>8. ASSUME NEW h \in Threads, SaveBegin(h)
      PROVE  Ends'
    BY <1>8, Zenon DEF SaveBegin, process, time, history
<1>9. ASSUME NEW h \in Threads, SaveEnd(h)
      PROVE  Ends'
    BY <1>9, Zenon DEF SaveEnd, process, time, Empty
<1>10. ASSUME NEW h \in Threads, SaveFails(h)
      PROVE  Ends'
    BY <1>10, Zenon DEF SaveFails, process, time, Empty
<1>11. ASSUME Stop
      PROVE  Ends'
    BY <1>11, Zenon DEF Stop, time, Empty
<1>12. ASSUME TimePasses
      PROVE  Ends'
    BY <1>12 DEF TimePasses, process, saving, history
<1>13. ASSUME ClockStepsBack
      PROVE  Ends'
    BY <1>13 DEF ClockStepsBack, process, saving
<1>14. ASSUME ClockStepsForward
      PROVE  Ends'
    BY <1>14 DEF ClockStepsForward, process, saving
<1>15. ASSUME UNCHANGED vars
      PROVE  Ends'
    BY <1>15, SMTT(90) DEF vars, process, saving, time, history
<1>. QED
    BY <1>1, <1>2, <1>3, <1>4, <1>5, <1>6, <1>7, <1>8, <1>9, <1>10, <1>11, <1>12, <1>13, <1>14, <1>15, ZenonT(60) DEF Next

(* A change that makes a deadline later, or a session's end, waits to be saved. *)
LEMMA SavedLastsStep ==
    ASSUME SessionAssumption, Types, Flags, Down, OneSave, SavedLasts, [Next]_vars
    PROVE  SavedLasts'
<1>. USE DEF SessionAssumption, Types, Flags, Down, OneSave, SavedLasts, Only, AllSaved, Threads, None
<1>1. ASSUME NEW c \in Creds \cup {AuthOff}, Start(c)
      PROVE  SavedLasts'
    BY <1>1 DEF Start, Loaded, Live, fresh, Min2, Empty, saving
<1>2. ASSUME NEW t \in Tokens, create(t)
      PROVE  SavedLasts'
    BY <1>2, Zenon DEF create, Idle, autosave, fresh, time
<1>3. ASSUME NEW t \in Tokens, verify(t)
      PROVE  SavedLasts'
    BY <1>3 DEF verify, Idle, Live, fresh, Min2, NoSave, saving, time
<1>4. ASSUME NEW t \in Tokens, touch(t)
      PROVE  SavedLasts'
    BY <1>4 DEF touch, Idle, Live, fresh, autosave, NoSave, saving, time
<1>5. ASSUME NEW t \in Tokens, revoke(t)
      PROVE  SavedLasts'
    BY <1>5, Zenon DEF revoke, Idle, autosave, time, history
<1>6. ASSUME NEW h \in Threads, NEW t \in Tokens, Evict(h, t)
      PROVE  SavedLasts'
    BY <1>6, Zenon DEF Evict, Idle, Live, autosave, time, history
<1>7. ASSUME purge_expired
      PROVE  SavedLasts'
    BY <1>7 DEF purge_expired, Idle, Live, saving, time, history
<1>8. ASSUME NEW h \in Threads, SaveBegin(h)
      PROVE  SavedLasts'
    BY <1>8 DEF SaveBegin, process, time, history
<1>9. ASSUME NEW h \in Threads, SaveEnd(h)
      PROVE  SavedLasts'
    BY <1>9, Zenon DEF SaveEnd, process, time, Empty
<1>10. ASSUME NEW h \in Threads, SaveFails(h)
      PROVE  SavedLasts'
    BY <1>10, Zenon DEF SaveFails, process, time, Empty
<1>11. ASSUME Stop
      PROVE  SavedLasts'
    BY <1>11, Zenon DEF Stop, time, Empty
<1>12. ASSUME TimePasses
      PROVE  SavedLasts'
    BY <1>12, Zenon DEF TimePasses, process, saving, history
<1>13. ASSUME ClockStepsBack
      PROVE  SavedLasts'
    BY <1>13, Zenon DEF ClockStepsBack, process, saving
<1>14. ASSUME ClockStepsForward
      PROVE  SavedLasts'
    BY <1>14, Zenon DEF ClockStepsForward, process, saving
<1>15. ASSUME UNCHANGED vars
      PROVE  SavedLasts'
    BY <1>15, Zenon DEF vars, process, saving, time, history
<1>. QED
    BY <1>1, <1>2, <1>3, <1>4, <1>5, <1>6, <1>7, <1>8, <1>9, <1>10, <1>11, <1>12, <1>13, <1>14, <1>15, ZenonT(60) DEF Next

(* Cutting a deadline to one that is not earlier changes nothing. *)
LEMMA MinBelow == \A a, b \in Nat : a <= b => Min2(a, b) = a
    BY SMTT(90) DEF Min2

(* Without a step back only an expired session leaves the table unsaved. *)
LEMMA UnnoticedStep ==
    ASSUME SessionAssumption, Types, Flags, Down, OneSave, Unnoticed, [Next]_vars
    PROVE  Unnoticed'
<1>. USE DEF SessionAssumption, Types, Flags, Down, OneSave, Unnoticed, Near, Agree, Live, Only, AllSaved, Threads, None
<1>1. ASSUME NEW c \in Creds \cup {AuthOff}, Start(c)
      PROVE  Unnoticed'
    <2>1. CASE back
        BY <1>1, <2>1, ZenonT(60) DEF Start
    <2>2. CASE ~back
        <3>1. Near(file.deadline)
            BY <2>2, Zenon
        <3>2. Near(Loaded(c))
            BY <2>2 DEF Loaded, Min2, fresh, Empty
        <3>3. file.cred = c => Agree(Loaded(c), file.deadline)
            <4>. HIDE DEF Unnoticed, Flags, Down, OneSave
            <4>1. SUFFICES ASSUME file.cred = c, NEW t \in Tokens,
                                  Loaded(c)[t] > clock \/ file.deadline[t] > clock
                           PROVE  Loaded(c)[t] = file.deadline[t]
                BY Zenon
            <4>2. Loaded(c)[t] = IF Live(file.deadline, t) THEN Min2(file.deadline[t], fresh) ELSE None
                BY <4>1, Zenon DEF Loaded
            <4>3. /\ file.deadline[t] \in Nat /\ fresh \in Nat
                  /\ file.deadline[t] <= fresh
                BY <3>1 DEF fresh
            <4>4. Min2(file.deadline[t], fresh) = file.deadline[t]
                BY ONLY <4>3, MinBelow, SMTT(30)
            <4>. QED
                BY <4>1, <4>2, <4>4
        <3>4. AllSaved
            BY <1>1, Zenon DEF Start
        <3>. HIDE DEF Loaded
        <3>. QED
            BY <1>1, <2>2, <3>2, <3>3, <3>4, Zenon DEF Start, saving
    <2>. QED
        BY <2>1, <2>2, SMTT(90)
<1>2. ASSUME NEW t \in Tokens, create(t)
      PROVE  Unnoticed'
    BY <1>2, SMTT(90) DEF create, Idle, autosave, fresh, time
<1>3. ASSUME NEW t \in Tokens, verify(t)
      PROVE  Unnoticed'
    <2>1. CASE back
        BY <1>3, <2>1, SMTT(30) DEF verify, time
    <2>2. CASE ~back
        <3>1. Min2(deadline[t], fresh) = deadline[t]
            <4>1. deadline[t] \in Nat /\ fresh \in Nat /\ deadline[t] <= fresh
                BY <2>2, SMTT(30) DEF fresh
            <4>. QED
                BY ONLY <4>1, MinBelow, Zenon
        <3>2. deadline' = deadline
            BY <1>3, <3>1, SMTT(90) DEF verify
        <3>. QED
            BY <1>3, <2>2, <3>2 DEF verify, NoSave, saving, time
    <2>. QED
        BY <2>1, <2>2, SMTT(90)
<1>4. ASSUME NEW t \in Tokens, touch(t)
      PROVE  Unnoticed'
    <2>1. CASE back
        BY <1>4, <2>1, SMTT(30) DEF touch, time
    <2>2. CASE ~back
        <3>1. Near(deadline') /\ clock' = clock
            BY <1>4, <2>2, SMTT(30) DEF touch, fresh, time
        <3>2. (deadline' = deadline /\ UNCHANGED saving) \/ (pc'["http"] = "save" /\ UNCHANGED snap)
            BY <1>4, SMTT(30) DEF touch, autosave, NoSave
        <3>3. pc["http"] = "run" /\ UNCHANGED <<up, credential, file, lossy, back>>
            BY <1>4, SMTT(30) DEF touch, Idle, time
        <3>. QED
            BY <2>2, <3>1, <3>2, <3>3, SMTT(30) DEF saving
    <2>. QED
        BY <2>1, <2>2, Zenon
<1>5. ASSUME NEW t \in Tokens, revoke(t)
      PROVE  Unnoticed'
    BY <1>5, SMTT(30) DEF revoke, Idle, autosave, time, history
<1>6. ASSUME NEW h \in Threads, NEW t \in Tokens, Evict(h, t)
      PROVE  Unnoticed'
    BY <1>6, SMTT(30) DEF Evict, Idle, autosave, time, history
<1>7. ASSUME purge_expired
      PROVE  Unnoticed'
    BY <1>7, SMTT(30) DEF purge_expired, Idle, saving, time, history
<1>8. ASSUME NEW h \in Threads, SaveBegin(h)
      PROVE  Unnoticed'
    BY <1>8, SMTT(30) DEF SaveBegin, process, time, history
<1>9. ASSUME NEW h \in Threads, SaveEnd(h)
      PROVE  Unnoticed'
    BY <1>9, SMTT(30) DEF SaveEnd, process, time, Empty
<1>10. ASSUME NEW h \in Threads, SaveFails(h)
      PROVE  Unnoticed'
    BY <1>10, SMTT(30) DEF SaveFails, process, time, Empty
<1>11. ASSUME Stop
      PROVE  Unnoticed'
    BY <1>11, SMTT(30) DEF Stop, time, Empty
<1>12. ASSUME TimePasses
      PROVE  Unnoticed'
    BY <1>12 DEF TimePasses, process, saving, history
<1>13. ASSUME ClockStepsBack
      PROVE  Unnoticed'
    BY <1>13, Zenon DEF ClockStepsBack, process, saving
<1>14. ASSUME ClockStepsForward
      PROVE  Unnoticed'
    BY <1>14, SMTT(30) DEF ClockStepsForward, process, saving
<1>15. ASSUME UNCHANGED vars
      PROVE  Unnoticed'
    BY <1>15 DEF vars, process, saving, time, history
<1>. QED
    BY <1>1, <1>2, <1>3, <1>4, <1>5, <1>6, <1>7, <1>8, <1>9, <1>10, <1>11, <1>12, <1>13, <1>14, <1>15, ZenonT(60) DEF Next

(* The eighth of a TTL is no more than the TTL, and at least one. *)
LEMMA EighthOfTTL == SessionAssumption => Eighth \in Nat /\ Eighth >= 1 /\ Eighth <= ttl
    BY SMTT(90) DEF SessionAssumption, Eighth

(* A session in use is kept from use to use, over the saves and the restarts. *)
LEMMA LastsStep ==
    ASSUME SessionAssumption, Eighth \in Nat, Eighth >= 1, Types, Flags, Down, OneSave, SavedLasts, Lasts, [Next]_vars
    PROVE  Lasts'
<1>. USE DEF SessionAssumption, Types, Flags, Down, OneSave, SavedLasts, Lasts, Lasting, Leaving, Unused, Only, AllSaved, Threads, None
<1>1. ASSUME NEW c \in Creds \cup {AuthOff}, Start(c)
      PROVE  Lasts'
    BY <1>1, SMTT(90) DEF Start, Loaded, Live, fresh, Min2, Empty, saving
<1>2. ASSUME NEW t \in Tokens, create(t)
      PROVE  Lasts'
    BY <1>2 DEF create, Idle, Used, autosave, fresh, time
<1>3. ASSUME NEW t \in Tokens, verify(t)
      PROVE  Lasts'
    BY <1>3, SMTT(90) DEF verify, Idle, Live, fresh, Min2, NoSave, saving, time
<1>4. ASSUME NEW t \in Tokens, touch(t)
      PROVE  Lasts'
    BY <1>4, SMTT(30) DEF touch, Idle, Live, fresh, Used, autosave, NoSave, saving, time, Eighth
<1>5. ASSUME NEW t \in Tokens, revoke(t)
      PROVE  Lasts'
    BY <1>5, SMTT(30) DEF revoke, Idle, autosave, time, history
<1>6. ASSUME NEW h \in Threads, NEW t \in Tokens, Evict(h, t)
      PROVE  Lasts'
    BY <1>6, Zenon DEF Evict, Idle, Live, autosave, time, history
<1>7. ASSUME purge_expired
      PROVE  Lasts'
    BY <1>7, SMTT(90) DEF purge_expired, Idle, Live, saving, time, history
<1>8. ASSUME NEW h \in Threads, SaveBegin(h)
      PROVE  Lasts'
    BY <1>8, SMTT(30) DEF SaveBegin, process, time, history
<1>9. ASSUME NEW h \in Threads, SaveEnd(h)
      PROVE  Lasts'
    BY <1>9, SMTT(30) DEF SaveEnd, process, time, Empty
<1>10. ASSUME NEW h \in Threads, SaveFails(h)
      PROVE  Lasts'
    BY <1>10, SMTT(30) DEF SaveFails, process, time, Empty
<1>11. ASSUME Stop
      PROVE  Lasts'
    <2>. SUFFICES ASSUME ~lossy', NEW t \in Tokens, minted[t] # AuthOff, t \notin dropped, t \notin over
                  PROVE  Lasting(file.deadline, t)
        BY <1>11, SMTT(30) DEF Stop, time
    <2>1. up /\ ~lossy /\ AllSaved
        BY <1>11, Zenon DEF Stop
    <2>2. Lasting(deadline, t) /\ deadline[t] <= file.deadline[t]
        BY <2>1, Zenon
    <2>. QED
        BY <2>2, SMTT(30)
<1>12. ASSUME TimePasses
      PROVE  Lasts'
    BY <1>12 DEF TimePasses, process, saving, history
<1>13. ASSUME ClockStepsBack
      PROVE  Lasts'
    BY <1>13 DEF ClockStepsBack, process, saving
<1>14. ASSUME ClockStepsForward
      PROVE  Lasts'
    <2>1. PICK d \in FwdSteps :
              /\ clock' = clock + d
              /\ used' = [t \in Tokens |-> [used[t] EXCEPT !.fwd = @ + d]]
        BY <1>14, Zenon DEF ClockStepsForward
    <2>2. ASSUME NEW t \in Tokens
          PROVE  Unused(t)' = Unused(t) + d /\ Unused(t) \in Int /\ d \in Nat
        <3>1. used'[t].at = used[t].at /\ used'[t].fwd = used[t].fwd + d
            BY <2>1
        <3>. QED
            BY <1>14, <3>1 DEF ClockStepsForward
    <2>. HIDE DEF Unused
    <2>3. ASSUME NEW t \in Tokens, NEW e \in [Tokens -> Nat] PROVE Lasting(e, t) => Lasting(e, t)'
        BY <1>14, <2>1, <2>2, SMTT(30)
    <2>. QED
        BY <1>14, <2>3, Zenon DEF ClockStepsForward, process, saving
<1>15. ASSUME UNCHANGED vars
      PROVE  Lasts'
    BY <1>15 DEF vars, process, saving, time, history
<1>. QED
    BY <1>1, <1>2, <1>3, <1>4, <1>5, <1>6, <1>7, <1>8, <1>9, <1>10, <1>11, <1>12, <1>13, <1>14, <1>15, ZenonT(60) DEF Next

(* The invariant holds at the start: no table, no file, no token given out. *)
LEMMA SessionStart == ASSUME SessionAssumption, Init PROVE SessionInv
<1>1. Types
    BY DEF SessionAssumption, Init, Types, Empty, NoFile, Threads, None, Epoch
<1>2. Flags
    BY ZenonT(60) DEF Init, Flags
<1>3. Down /\ OneSave /\ ClockSteps
    BY DEF Init, Down, AllSaved, OneSave, ClockSteps, Epoch
<1>4. OfLogins /\ Ended /\ Lasts
    BY Zenon DEF Init, OfLogins, Ended, Lasts, Empty, NoFile, None
<1>5. Ends /\ SavedLasts
    BY Zenon DEF Init, Ends, SavedLasts, Empty, None
<1>6. Unnoticed
    <2>1. clock = 10 /\ ttl \in Nat
        BY Zenon DEF SessionAssumption, Init, Epoch
    <2>2. Near(Empty)
        BY <2>1 DEF Near, Empty, None
    <2>. QED
        BY <2>2, Zenon DEF Init, Unnoticed, NoFile
<1>. QED
    BY <1>1, <1>2, <1>3, <1>4, <1>5, <1>6, Zenon DEF SessionInv

(* Whatever the threads, the clock and the kills do, the invariant stays. *)
THEOREM SessionInvariant == SessionAssumption => (Spec => []SessionInv)
<1>. SUFFICES ASSUME SessionAssumption PROVE Spec => []SessionInv
    BY Zenon
<1>1. Init => SessionInv
    BY SessionStart, Zenon
<1>2. SessionInv /\ [Next]_vars => SessionInv'
    BY TypesStep, FlagsStep, DownStep, ClockStep, OneSaveStep, OfLoginsStep, EndedStep,
       EndsStep, SavedLastsStep, UnnoticedStep, LastsStep, EighthOfTTL, Zenon DEF SessionInv
<1>. QED
    BY <1>1, <1>2, PTL DEF Spec

(* An ended session whose end a save has put into sessions.tsv never comes *)
(* back: not by the save of the other thread, which took its copy of the   *)
(* table earlier, not by load() at a restart, not by a step of the clock.  *)
THEOREM SessionsStayEnded == SessionAssumption => (Spec => []EndIsFinal)
<1>. SUFFICES ASSUME SessionAssumption PROVE Spec => []EndIsFinal
    BY Zenon
<1>1. SessionInv => EndIsFinal
    BY Zenon DEF SessionInv, Ended, EndIsFinal
<1>. QED
    BY <1>1, SessionInvariant, PTL

(* The table is well formed; a session left alone is refused after its TTL *)
(* of real time and what the clock stepped back; one in use is good for    *)
(* seven eighths of the TTL after its last use, over restarts too; and the *)
(* sessions that load() would take from the file are the ones accepted.    *)
THEOREM SessionsKeepTime == SessionAssumption => (Spec => []SessionTimes)
<1>. SUFFICES ASSUME SessionAssumption PROVE Spec => []SessionTimes
    BY Zenon
<1>1. SessionInv => TypeOK
    BY Zenon DEF SessionInv, Types, Flags, Down, AllSaved, OfLogins, TypeOK
<1>2. SessionInv => SessionEnds
    BY DEF SessionInv, Types, Ends, SessionEnds, Live, SessionAssumption, None
<1>3. SessionInv => SessionLasts
    <2>1. SUFFICES ASSUME SessionInv, NEW t \in Tokens, up, ~lossy, AllSaved,
                          minted[t] = credential, credential # AuthOff, t \notin over, t \notin dropped,
                          Unused(t) <= ttl - ttl \div 8
                   PROVE  Live(deadline, t)
        BY Zenon DEF SessionLasts
    <2>2. Eighth \in Nat /\ Unused(t) \in Int /\ ttl \in Nat /\ clock \in Nat /\ deadline[t] \in Nat
        BY <2>1, EighthOfTTL, SMTT(30) DEF SessionInv, Types, Unused, SessionAssumption
    <2>3. ~Leaving(t)
        BY <2>1, Zenon DEF AllSaved, Leaving, Threads
    <2>4. Lasting(deadline, t)
        BY <2>1, <2>3, Zenon DEF SessionInv, Lasts
    <2>5. Unused(t) <= ttl - Eighth
        BY <2>1, Zenon DEF Eighth
    <2>. QED
        BY ONLY <2>2, <2>4, <2>5 DEF Lasting, Live
<1>4. SessionInv => RestartKeepsSessions
    BY Zenon DEF SessionInv, Unnoticed, Agree, Live, RestartKeepsSessions
<1>. QED
    BY <1>1, <1>2, <1>3, <1>4, SessionInvariant, PTL DEF SessionTimes
=============================================================================
