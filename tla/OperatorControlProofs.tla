------------------------ MODULE OperatorControlProofs ------------------------
(***************************************************************************)
(* Proofs about OperatorControl, for every number of positions, keys,      *)
(* requests, buttons, crashes and outages.                                 *)
(***************************************************************************)
EXTENDS OperatorControl, TLAPS

LEMMA Constants ==
    /\ Req \subseteq Nat /\ 0 \notin Req /\ None \notin Key /\ Postures \subseteq {"no", "fresh"}
    /\ CloseMax \in Nat /\ CloseMax > 0 /\ MaxCrash \in Nat /\ MaxButtons \in Nat
    /\ MaxOutages \in Nat
BY OperatorControlAssumption DEF OperatorControlAssumption

-----------------------------------------------------------------------------
(* The inductive invariant. *)

(* What the tick has in hand fits the step it is at; an entry is being decided
   only between its admission and its submission. *)
Phase ==
    /\ pc \in {"orders", "exits", "closeall", "delclose", "close"} => batch \subseteq Pos
    /\ pc \in {"delentry", "entries", "gate", "submit"} => batch \subseteq Req
    /\ pc \in {"top", "popall", "selclose", "pausecheck", "selentry", "windows"} => batch = {}
    /\ pc \notin {"gate", "submit"} => fire = NoFire
    /\ pc \in {"gate", "submit"} => fire.key \in Key /\ (fire.req = 0 => batch = {})

(* A row is deleted before it is acted on, and the tick lets go of it before it
   is submitted: what is still in the table or in hand was never submitted. *)
Rows ==
    /\ \A r \in Req : /\ entry[r].st # "unsent" => entry[r].key \in Key
                      /\ entry[r].st # "gone" => fired[r] = 0
                      /\ fired[r] <= 1
    /\ pc = "delentry" => \A r \in batch : entry[r].st = "queued"
    /\ pc \in {"entries", "gate", "submit"} =>
          \A r \in batch : entry[r].st = "gone" /\ fired[r] = 0
    /\ fire.req # 0 => /\ fire.req \notin batch
                       /\ entry[fire.req].st = "gone" /\ fired[fire.req] = 0

(* The cooldown is consumed before the submission. *)
Cooldowns ==
    /\ \A k \in Key : sent[k] <= 1 /\ (k \notin cooling => sent[k] = 0)
    /\ pc = "submit" => fire.key \in cooling /\ sent[fire.key] = 0

(* What is held is in force, once the exits of the tick are done. *)
InForce ==
    /\ "paused" \in held => paused
    /\ "lockdown" \in held => lockdown = "fresh"
    /\ pc \notin {"top", "orders", "exits"} => ("halt" \in held => halt # "no")
    /\ pc \in {"selentry", "delentry", "entries", "gate", "submit", "windows"} => "paused" \notin held
    /\ pc = "submit" => held = {}
    /\ fire.req \notin late

Inv == TypeOK /\ Phase /\ Rows /\ Cooldowns /\ InForce

LEMMA InitInv == Init => Inv
<1> SUFFICES ASSUME Init PROVE Inv
  OBVIOUS
<1> USE Constants
<1>1. TypeOK
  <2>1. /\ entry \in [Req -> [st : {"unsent", "queued", "gone"}, key : Key \cup {None}, old : BOOLEAN]]
        /\ fire \in [key : Key \cup {None}, req : Req \cup {0}]
    BY DEF Init, NoFire
  <2>2. /\ attempts \in [Pos -> 0..CloseMax] /\ book \in [Pos -> {"open", "closing", "closed"}]
        /\ owed \in [Pos -> {"nothing", "owed", "dropped"}]
        /\ fired \in [Req -> Nat] /\ sent \in [Key -> Nat]
    BY DEF Init
  <2>3. crashes \in 0..MaxCrash /\ buttons \in 0..MaxButtons /\ outages \in 0..MaxOutages
    BY DEF Init
  <2> QED
    BY <2>1, <2>2, <2>3 DEF Init, TypeOK
<1>2. Phase /\ Cooldowns
  BY DEF Init, Phase, Cooldowns, NoFire
<1>3. Rows
  BY DEF Init, Rows, NoFire
<1>4. InForce
  BY DEF Init, InForce, NoFire
<1> QED
  BY <1>1, <1>2, <1>3, <1>4 DEF Inv

-----------------------------------------------------------------------------
(* A close that is requested: its effect on the book and the halt. *)

LEMMA Closed ==
    ASSUME TypeOK, NEW p \in Pos, NEW manual \in BOOLEAN, RequestClose(p, manual)
    PROVE  /\ book' \in [Pos -> {"open", "closing", "closed"}]
           /\ attempts' \in [Pos -> 0..CloseMax]
           /\ halt' \in {"no", "reconcile", "manual"}
           /\ halt' = halt \/ halt' = "manual"
<1> USE Constants
<1>1. book' = book \/ \E s \in {"open", "closing", "closed"} : book' = [book EXCEPT ![p] = s]
  BY DEF RequestClose
<1>2. attempts' = attempts \/ CountAttempt(p)
  BY DEF RequestClose
<1>3. CountAttempt(p) => attempts' \in [Pos -> 0..CloseMax]
  <2>1. attempts[p] \in 0..CloseMax
    BY DEF TypeOK
  <2>2. (IF attempts[p] < CloseMax THEN attempts[p] + 1 ELSE attempts[p]) \in 0..CloseMax
    BY <2>1
  <2> QED
    BY <2>2 DEF TypeOK, CountAttempt
<1>4. halt' = halt \/ halt' = "manual"
  BY DEF RequestClose, set_exec_halt, HaltFor
<1> QED
  BY <1>1, <1>2, <1>3, <1>4 DEF TypeOK

-----------------------------------------------------------------------------
(* Every step keeps the invariant, part by part. *)

LEMMA PhaseKeeps == ASSUME Inv, Next PROVE Phase'
<1> USE Constants DEF Inv, Phase, Rows, TypeOK, control, account, volatile, history, bounds, At, To
<1>1. CASE BeginTick
  BY <1>1 DEF BeginTick
<1>2. ASSUME NEW p \in Pos, AdvanceOrder(p) PROVE Phase'
  BY <1>2 DEF AdvanceOrder
<1>3. CASE Reconcile
  BY <1>3 DEF Reconcile, HaltFor, set_exec_halt
<1>4. ASSUME NEW p \in Pos, Exit(p) PROVE Phase'
  BY Closed, <1>4 DEF Exit
<1>5. CASE EndExits
  BY <1>5 DEF EndExits, Controls, get_exec_halt
<1>6. CASE PopCloseAll
  BY <1>6 DEF PopCloseAll, CloseAllFlagged
<1>7. ASSUME NEW p \in Pos, CloseAllNow(p) PROVE Phase'
  BY Closed, <1>7 DEF CloseAllNow
<1>8. CASE EndCloseAll
  BY <1>8 DEF EndCloseAll
<1>9. CASE SelectCloses
  BY <1>9 DEF SelectCloses, RowsRead
<1>10. CASE DeleteCloses
  BY <1>10 DEF DeleteCloses
<1>11. ASSUME NEW p \in Pos, ClosePositionNow(p) PROVE Phase'
  BY Closed, <1>11 DEF ClosePositionNow
<1>12. CASE EndCloses
  BY <1>12 DEF EndCloses
<1>13. CASE PauseCheck
  BY <1>13 DEF PauseCheck, EntriesAllowed
<1>14. CASE SelectEntries
  BY <1>14 DEF SelectEntries, Queued
<1>15. CASE DeleteEntries
  BY <1>15 DEF DeleteEntries, WithoutRows, Queued
<1>16. CASE Admit
  <2>1. PICK r \in batch :
           /\ batch' = batch \ {r}
           /\ \/ UNCHANGED <<pc, fire>>
              \/ /\ pc' = "gate"
                 /\ fire' = [key |-> entry[r].key, req |-> r]
    BY <1>16 DEF Admit
  <2>2. r \in Req /\ r # 0 /\ entry[r].key \in Key /\ pc = "entries"
    BY <1>16, <2>1 DEF Admit
  <2> QED
    BY <1>16, <2>1, <2>2 DEF Admit
<1>17. CASE EndEntries
  BY <1>17 DEF EndEntries
<1>18. ASSUME NEW k \in Key, WindowFires(k) PROVE Phase'
  BY <1>18 DEF WindowFires
<1>19. CASE EndTick
  BY <1>19 DEF EndTick
<1>20. CASE Gate
  BY <1>20 DEF Gate, Return, Consumed, NoFire, get_exec_halt
<1>21. CASE Submit
  BY <1>21 DEF Submit, Return, NoFire
<1>22. CASE Crash
  BY <1>22 DEF Crash, NoFire
<1>23. ASSUME NEW b \in BOOLEAN, SetPaused(b) PROVE Phase'
  BY <1>23 DEF SetPaused, Press
<1>24. CASE RequestCloseAll
  BY <1>24 DEF RequestCloseAll, Press
<1>25. ASSUME NEW p \in Pos, RequestClosePosition(p) PROVE Phase'
  BY <1>25 DEF RequestClosePosition, Press, WithRequest
<1>26. CASE Unhalt
  BY <1>26 DEF Unhalt, Press, set_exec_halt
<1>27. CASE ResetCloseAttempts
  BY <1>27 DEF ResetCloseAttempts
<1>28. ASSUME NEW s \in Postures, SetPosture(s) PROVE Phase'
  BY <1>28 DEF SetPosture, Press
<1>29. ASSUME NEW r \in Req, NEW k \in Key, RequestEntry(r, k) PROVE Phase'
  BY <1>29 DEF RequestEntry
<1>30. CASE LockdownGoesStale
  BY <1>30 DEF LockdownGoesStale
<1>31. ASSUME NEW r \in Req, PassTTL(r) PROVE Phase'
  BY <1>31 DEF PassTTL
<1>32. ASSUME NEW k \in Key, CooldownEnds(k) PROVE Phase'
  BY <1>32 DEF CooldownEnds
<1>33. ASSUME NEW p \in Pos, LoseQuote(p) PROVE Phase'
  BY <1>33 DEF LoseQuote
<1>34. ASSUME NEW p \in Pos, FindQuote(p) PROVE Phase'
  BY <1>34 DEF FindQuote
<1> QED
  BY <1>1, <1>2, <1>3, <1>4, <1>5, <1>6, <1>7, <1>8, <1>9, <1>10, <1>11, <1>12, <1>13, <1>14, <1>15, <1>16, <1>17, <1>18, <1>19, <1>20, <1>21, <1>22, <1>23, <1>24, <1>25, <1>26, <1>27, <1>28, <1>29, <1>30, <1>31, <1>32, <1>33, <1>34 DEF Next, Loop, Advance, Others, Outside

LEMMA RowsKeep == ASSUME Inv, Next PROVE Rows'
<1> USE Constants DEF Inv, Rows, Phase, NoFire, TypeOK, control, account, volatile, history, bounds, At, To
<1>1. CASE BeginTick
  BY <1>1 DEF BeginTick
<1>2. ASSUME NEW p \in Pos, AdvanceOrder(p) PROVE Rows'
  BY <1>2 DEF AdvanceOrder
<1>3. CASE Reconcile
  BY <1>3 DEF Reconcile, HaltFor, set_exec_halt
<1>4. ASSUME NEW p \in Pos, Exit(p) PROVE Rows'
  BY Closed, <1>4 DEF Exit
<1>5. CASE EndExits
  BY <1>5 DEF EndExits, Controls, get_exec_halt
<1>6. CASE PopCloseAll
  BY <1>6 DEF PopCloseAll, CloseAllFlagged
<1>7. ASSUME NEW p \in Pos, CloseAllNow(p) PROVE Rows'
  BY Closed, <1>7 DEF CloseAllNow
<1>8. CASE EndCloseAll
  BY <1>8 DEF EndCloseAll
<1>9. CASE SelectCloses
  BY <1>9 DEF SelectCloses, RowsRead
<1>10. CASE DeleteCloses
  BY <1>10 DEF DeleteCloses
<1>11. ASSUME NEW p \in Pos, ClosePositionNow(p) PROVE Rows'
  BY Closed, <1>11 DEF ClosePositionNow
<1>12. CASE EndCloses
  BY <1>12 DEF EndCloses
<1>13. CASE PauseCheck
  BY <1>13 DEF PauseCheck, EntriesAllowed
<1>14. CASE SelectEntries
  BY <1>14 DEF SelectEntries, Queued
<1>15. CASE DeleteEntries
  BY <1>15 DEF DeleteEntries, WithoutRows, Queued
<1>16. CASE Admit
  BY <1>16 DEF Admit
<1>17. CASE EndEntries
  BY <1>17 DEF EndEntries
<1>18. ASSUME NEW k \in Key, WindowFires(k) PROVE Rows'
  BY <1>18 DEF WindowFires
<1>19. CASE EndTick
  BY <1>19 DEF EndTick
<1>20. CASE Gate
  BY <1>20 DEF Gate, Return, Consumed, NoFire, get_exec_halt
<1>21. CASE Submit
  <2>1. /\ UNCHANGED <<entry, batch>> /\ pc' \in {"windows", "entries"} /\ pc = "submit"
        /\ fire' = NoFire /\ fire'.req = 0
    BY <1>21 DEF Submit, Return
  <2>2. \A r \in Req : fired'[r] = fired[r] \/ (r = fire.req /\ fired'[r] = fired[r] + 1)
    BY <1>21 DEF Submit
  <2>3. \A r \in Req : r = fire.req => entry[r].st = "gone" /\ fired[r] = 0 /\ r \notin batch
    OBVIOUS
  <2>4. \A r \in Req : fired'[r] <= 1 /\ (r # fire.req => fired'[r] = fired[r])
    BY <2>2, <2>3
  <2> QED
    BY <2>1, <2>3, <2>4
<1>22. CASE Crash
  BY <1>22 DEF Crash, NoFire
<1>23. ASSUME NEW b \in BOOLEAN, SetPaused(b) PROVE Rows'
  BY <1>23 DEF SetPaused, Press
<1>24. CASE RequestCloseAll
  BY <1>24 DEF RequestCloseAll, Press
<1>25. ASSUME NEW p \in Pos, RequestClosePosition(p) PROVE Rows'
  BY <1>25 DEF RequestClosePosition, Press, WithRequest
<1>26. CASE Unhalt
  BY <1>26 DEF Unhalt, Press, set_exec_halt
<1>27. CASE ResetCloseAttempts
  BY <1>27 DEF ResetCloseAttempts
<1>28. ASSUME NEW s \in Postures, SetPosture(s) PROVE Rows'
  BY <1>28 DEF SetPosture, Press
<1>29. ASSUME NEW r \in Req, NEW k \in Key, RequestEntry(r, k) PROVE Rows'
  BY <1>29 DEF RequestEntry
<1>30. CASE LockdownGoesStale
  BY <1>30 DEF LockdownGoesStale
<1>31. ASSUME NEW r \in Req, PassTTL(r) PROVE Rows'
  BY <1>31 DEF PassTTL
<1>32. ASSUME NEW k \in Key, CooldownEnds(k) PROVE Rows'
  BY <1>32 DEF CooldownEnds
<1>33. ASSUME NEW p \in Pos, LoseQuote(p) PROVE Rows'
  BY <1>33 DEF LoseQuote
<1>34. ASSUME NEW p \in Pos, FindQuote(p) PROVE Rows'
  BY <1>34 DEF FindQuote
<1> QED
  BY <1>1, <1>2, <1>3, <1>4, <1>5, <1>6, <1>7, <1>8, <1>9, <1>10, <1>11, <1>12, <1>13, <1>14, <1>15, <1>16, <1>17, <1>18, <1>19, <1>20, <1>21, <1>22, <1>23, <1>24, <1>25, <1>26, <1>27, <1>28, <1>29, <1>30, <1>31, <1>32, <1>33, <1>34, ZenonT(60) DEF Next, Loop, Advance, Others, Outside

LEMMA CooldownsKeep == ASSUME Inv, Next PROVE Cooldowns'
<1> USE Constants DEF Inv, Cooldowns, Phase, TypeOK, control, account, volatile, history, bounds, At, To
<1>1. CASE BeginTick
  BY <1>1 DEF BeginTick
<1>2. ASSUME NEW p \in Pos, AdvanceOrder(p) PROVE Cooldowns'
  BY <1>2 DEF AdvanceOrder
<1>3. CASE Reconcile
  BY <1>3 DEF Reconcile, HaltFor, set_exec_halt
<1>4. ASSUME NEW p \in Pos, Exit(p) PROVE Cooldowns'
  BY Closed, <1>4 DEF Exit
<1>5. CASE EndExits
  BY <1>5 DEF EndExits, Controls, get_exec_halt
<1>6. CASE PopCloseAll
  BY <1>6 DEF PopCloseAll, CloseAllFlagged
<1>7. ASSUME NEW p \in Pos, CloseAllNow(p) PROVE Cooldowns'
  BY Closed, <1>7 DEF CloseAllNow
<1>8. CASE EndCloseAll
  BY <1>8 DEF EndCloseAll
<1>9. CASE SelectCloses
  BY <1>9 DEF SelectCloses, RowsRead
<1>10. CASE DeleteCloses
  BY <1>10 DEF DeleteCloses
<1>11. ASSUME NEW p \in Pos, ClosePositionNow(p) PROVE Cooldowns'
  BY Closed, <1>11 DEF ClosePositionNow
<1>12. CASE EndCloses
  BY <1>12 DEF EndCloses
<1>13. CASE PauseCheck
  BY <1>13 DEF PauseCheck, EntriesAllowed
<1>14. CASE SelectEntries
  BY <1>14 DEF SelectEntries, Queued
<1>15. CASE DeleteEntries
  BY <1>15 DEF DeleteEntries, WithoutRows, Queued
<1>16. CASE Admit
  BY <1>16 DEF Admit
<1>17. CASE EndEntries
  BY <1>17 DEF EndEntries
<1>18. ASSUME NEW k \in Key, WindowFires(k) PROVE Cooldowns'
  BY <1>18 DEF WindowFires
<1>19. CASE EndTick
  BY <1>19 DEF EndTick
<1>20. CASE Gate
  BY <1>20 DEF Gate, Return, Consumed, NoFire, get_exec_halt
<1>21. CASE Submit
  BY <1>21 DEF Submit, Return, NoFire
<1>22. CASE Crash
  BY <1>22 DEF Crash, NoFire
<1>23. ASSUME NEW b \in BOOLEAN, SetPaused(b) PROVE Cooldowns'
  BY <1>23 DEF SetPaused, Press
<1>24. CASE RequestCloseAll
  BY <1>24 DEF RequestCloseAll, Press
<1>25. ASSUME NEW p \in Pos, RequestClosePosition(p) PROVE Cooldowns'
  BY <1>25 DEF RequestClosePosition, Press, WithRequest
<1>26. CASE Unhalt
  BY <1>26 DEF Unhalt, Press, set_exec_halt
<1>27. CASE ResetCloseAttempts
  BY <1>27 DEF ResetCloseAttempts
<1>28. ASSUME NEW s \in Postures, SetPosture(s) PROVE Cooldowns'
  BY <1>28 DEF SetPosture, Press
<1>29. ASSUME NEW r \in Req, NEW k \in Key, RequestEntry(r, k) PROVE Cooldowns'
  BY <1>29 DEF RequestEntry
<1>30. CASE LockdownGoesStale
  BY <1>30 DEF LockdownGoesStale
<1>31. ASSUME NEW r \in Req, PassTTL(r) PROVE Cooldowns'
  BY <1>31 DEF PassTTL
<1>32. ASSUME NEW k \in Key, CooldownEnds(k) PROVE Cooldowns'
  BY <1>32 DEF CooldownEnds
<1>33. ASSUME NEW p \in Pos, LoseQuote(p) PROVE Cooldowns'
  BY <1>33 DEF LoseQuote
<1>34. ASSUME NEW p \in Pos, FindQuote(p) PROVE Cooldowns'
  BY <1>34 DEF FindQuote
<1> QED
  BY <1>1, <1>2, <1>3, <1>4, <1>5, <1>6, <1>7, <1>8, <1>9, <1>10, <1>11, <1>12, <1>13, <1>14, <1>15, <1>16, <1>17, <1>18, <1>19, <1>20, <1>21, <1>22, <1>23, <1>24, <1>25, <1>26, <1>27, <1>28, <1>29, <1>30, <1>31, <1>32, <1>33, <1>34 DEF Next, Loop, Advance, Others, Outside

LEMMA InForceKeeps == ASSUME Inv, Next PROVE InForce'
<1> USE Constants DEF Inv, InForce, Phase, NoFire, TypeOK, control, account, volatile, history, bounds, At, To
<1>1. CASE BeginTick
  BY <1>1 DEF BeginTick
<1>2. ASSUME NEW p \in Pos, AdvanceOrder(p) PROVE InForce'
  BY <1>2 DEF AdvanceOrder
<1>3. CASE Reconcile
  BY <1>3 DEF Reconcile, HaltFor, set_exec_halt
<1>4. ASSUME NEW p \in Pos, Exit(p) PROVE InForce'
  BY Closed, <1>4 DEF Exit
<1>5. CASE EndExits
  BY <1>5 DEF EndExits, Controls, get_exec_halt
<1>6. CASE PopCloseAll
  BY <1>6 DEF PopCloseAll, CloseAllFlagged
<1>7. ASSUME NEW p \in Pos, CloseAllNow(p) PROVE InForce'
  BY Closed, <1>7 DEF CloseAllNow
<1>8. CASE EndCloseAll
  BY <1>8 DEF EndCloseAll
<1>9. CASE SelectCloses
  BY <1>9 DEF SelectCloses, RowsRead
<1>10. CASE DeleteCloses
  BY <1>10 DEF DeleteCloses
<1>11. ASSUME NEW p \in Pos, ClosePositionNow(p) PROVE InForce'
  BY Closed, <1>11 DEF ClosePositionNow
<1>12. CASE EndCloses
  BY <1>12 DEF EndCloses
<1>13. CASE PauseCheck
  BY <1>13 DEF PauseCheck, EntriesAllowed
<1>14. CASE SelectEntries
  BY <1>14 DEF SelectEntries, Queued
<1>15. CASE DeleteEntries
  BY <1>15 DEF DeleteEntries, WithoutRows, Queued
<1>16. CASE Admit
  BY <1>16 DEF Admit
<1>17. CASE EndEntries
  BY <1>17 DEF EndEntries
<1>18. ASSUME NEW k \in Key, WindowFires(k) PROVE InForce'
  BY <1>18 DEF WindowFires
<1>19. CASE EndTick
  BY <1>19 DEF EndTick
<1>20. CASE Gate
  BY <1>20 DEF Gate, Return, Consumed, NoFire, get_exec_halt
<1>21. CASE Submit
  BY <1>21 DEF Submit, Return, NoFire
<1>22. CASE Crash
  BY <1>22 DEF Crash, NoFire
<1>23. ASSUME NEW b \in BOOLEAN, SetPaused(b) PROVE InForce'
  BY <1>23 DEF SetPaused, Press
<1>24. CASE RequestCloseAll
  BY <1>24 DEF RequestCloseAll, Press
<1>25. ASSUME NEW p \in Pos, RequestClosePosition(p) PROVE InForce'
  BY <1>25 DEF RequestClosePosition, Press, WithRequest
<1>26. CASE Unhalt
  BY <1>26 DEF Unhalt, Press, set_exec_halt
<1>27. CASE ResetCloseAttempts
  BY <1>27 DEF ResetCloseAttempts
<1>28. ASSUME NEW s \in Postures, SetPosture(s) PROVE InForce'
  BY <1>28 DEF SetPosture, Press
<1>29. ASSUME NEW r \in Req, NEW k \in Key, RequestEntry(r, k) PROVE InForce'
  BY <1>29 DEF RequestEntry
<1>30. CASE LockdownGoesStale
  BY <1>30 DEF LockdownGoesStale
<1>31. ASSUME NEW r \in Req, PassTTL(r) PROVE InForce'
  BY <1>31 DEF PassTTL
<1>32. ASSUME NEW k \in Key, CooldownEnds(k) PROVE InForce'
  BY <1>32 DEF CooldownEnds
<1>33. ASSUME NEW p \in Pos, LoseQuote(p) PROVE InForce'
  BY <1>33 DEF LoseQuote
<1>34. ASSUME NEW p \in Pos, FindQuote(p) PROVE InForce'
  BY <1>34 DEF FindQuote
<1> QED
  BY <1>1, <1>2, <1>3, <1>4, <1>5, <1>6, <1>7, <1>8, <1>9, <1>10, <1>11, <1>12, <1>13, <1>14, <1>15, <1>16, <1>17, <1>18, <1>19, <1>20, <1>21, <1>22, <1>23, <1>24, <1>25, <1>26, <1>27, <1>28, <1>29, <1>30, <1>31, <1>32, <1>33, <1>34 DEF Next, Loop, Advance, Others, Outside

LEMMA TypeKeeps == ASSUME Inv, Next PROVE TypeOK'
<1> USE Constants DEF Inv, TypeOK, Phase, control, account, volatile, history, bounds, At, To
<1>1. CASE BeginTick
  BY <1>1 DEF BeginTick
<1>2. ASSUME NEW p \in Pos, AdvanceOrder(p) PROVE TypeOK'
  BY <1>2 DEF AdvanceOrder
<1>3. CASE Reconcile
  BY <1>3 DEF Reconcile, HaltFor, set_exec_halt
<1>4. ASSUME NEW p \in Pos, Exit(p) PROVE TypeOK'
  BY Closed, <1>4, ZenonT(60) DEF Exit
<1>5. CASE EndExits
  BY <1>5 DEF EndExits, Controls, get_exec_halt
<1>6. CASE PopCloseAll
  BY <1>6, ZenonT(60) DEF PopCloseAll, CloseAllFlagged
<1>7. ASSUME NEW p \in Pos, CloseAllNow(p) PROVE TypeOK'
  <2>1. /\ book' \in [Pos -> {"open", "closing", "closed"}] /\ attempts' \in [Pos -> 0..CloseMax]
        /\ halt' \in {"no", "reconcile", "manual"}
    BY Closed, <1>7 DEF CloseAllNow
  <2>2. owed' \in [Pos -> {"nothing", "owed", "dropped"}] /\ batch' \subseteq Pos
    BY <1>7 DEF CloseAllNow
  <2>3. UNCHANGED <<paused, closeAll, lockdown, closeReqs, entry, cooling, pc, fire, late,
                    unhalting, quoted, asked, fired, sent, held, bounds>>
    BY <1>7 DEF CloseAllNow
  <2> QED
    BY <2>1, <2>2, <2>3
<1>8. CASE EndCloseAll
  BY <1>8 DEF EndCloseAll
<1>9. CASE SelectCloses
  BY <1>9 DEF SelectCloses, RowsRead
<1>10. CASE DeleteCloses
  BY <1>10 DEF DeleteCloses
<1>11. ASSUME NEW p \in Pos, ClosePositionNow(p) PROVE TypeOK'
  BY Closed, <1>11, ZenonT(60) DEF ClosePositionNow
<1>12. CASE EndCloses
  BY <1>12 DEF EndCloses
<1>13. CASE PauseCheck
  BY <1>13 DEF PauseCheck, EntriesAllowed
<1>14. CASE SelectEntries
  BY <1>14 DEF SelectEntries, Queued
<1>15. CASE DeleteEntries
  BY <1>15 DEF DeleteEntries, WithoutRows, Queued
<1>16. CASE Admit
  <2>1. PICK r \in batch :
           /\ batch' = batch \ {r}
           /\ \/ UNCHANGED <<pc, fire>>
              \/ /\ pc' = "gate"
                 /\ fire' = [key |-> entry[r].key, req |-> r]
    BY <1>16 DEF Admit
  <2>2. /\ r \in Req /\ entry[r].key \in Key \cup {None} /\ batch' \subseteq Req
        /\ pc' \in {"entries", "gate"} /\ UNCHANGED <<control, account, late, unhalting, quoted, history, bounds>>
    BY <1>16, <2>1 DEF Admit
  <2>3. fire' \in [key : Key \cup {None}, req : Req \cup {0}]
    BY <2>1, <2>2
  <2> QED
    BY <2>2, <2>3
<1>17. CASE EndEntries
  BY <1>17 DEF EndEntries
<1>18. ASSUME NEW k \in Key, WindowFires(k) PROVE TypeOK'
  BY <1>18 DEF WindowFires
<1>19. CASE EndTick
  BY <1>19 DEF EndTick
<1>20. CASE Gate
  BY <1>20 DEF Gate, Return, Consumed, NoFire, get_exec_halt
<1>21. CASE Submit
  BY <1>21 DEF Submit, Return, NoFire
<1>22. CASE Crash
  BY <1>22 DEF Crash, NoFire
<1>23. ASSUME NEW b \in BOOLEAN, SetPaused(b) PROVE TypeOK'
  BY <1>23 DEF SetPaused, Press
<1>24. CASE RequestCloseAll
  BY <1>24 DEF RequestCloseAll, Press
<1>25. ASSUME NEW p \in Pos, RequestClosePosition(p) PROVE TypeOK'
  BY <1>25 DEF RequestClosePosition, Press, WithRequest
<1>26. CASE Unhalt
  BY <1>26 DEF Unhalt, Press, set_exec_halt
<1>27. CASE ResetCloseAttempts
  <2>1. attempts' \in [Pos -> 0..CloseMax]
    BY <1>27 DEF ResetCloseAttempts
  <2>2. unhalting' = FALSE /\ UNCHANGED <<control, book, cooling, volatile, quoted, history, bounds>>
    BY <1>27 DEF ResetCloseAttempts
  <2>3. UNCHANGED <<paused, closeAll, lockdown, halt, closeReqs, entry, book, cooling, pc, batch,
                    fire, late, quoted, asked, owed, fired, sent, held, crashes, buttons, outages>>
    BY <2>2
  <2>4. unhalting' \in BOOLEAN
    BY <2>2
  <2> QED
    BY <2>1, <2>3, <2>4
<1>28. ASSUME NEW s \in Postures, SetPosture(s) PROVE TypeOK'
  BY <1>28 DEF SetPosture, Press
<1>29. ASSUME NEW r \in Req, NEW k \in Key, RequestEntry(r, k) PROVE TypeOK'
  BY <1>29 DEF RequestEntry
<1>30. CASE LockdownGoesStale
  BY <1>30 DEF LockdownGoesStale
<1>31. ASSUME NEW r \in Req, PassTTL(r) PROVE TypeOK'
  <2>1. entry' \in [Req -> [st : {"unsent", "queued", "gone"}, key : Key \cup {None}, old : BOOLEAN]]
    <3>1. entry[r] \in [st : {"unsent", "queued", "gone"}, key : Key \cup {None}, old : BOOLEAN]
      OBVIOUS
    <3>2. [entry[r] EXCEPT !.old = TRUE]
             \in [st : {"unsent", "queued", "gone"}, key : Key \cup {None}, old : BOOLEAN]
      BY <3>1
    <3>3. entry' = [entry EXCEPT ![r] = [entry[r] EXCEPT !.old = TRUE]]
      BY <1>31 DEF PassTTL
    <3> QED
      BY <3>2, <3>3
  <2> QED
    BY <1>31, <2>1 DEF PassTTL
<1>32. ASSUME NEW k \in Key, CooldownEnds(k) PROVE TypeOK'
  BY <1>32 DEF CooldownEnds
<1>33. ASSUME NEW p \in Pos, LoseQuote(p) PROVE TypeOK'
  BY <1>33 DEF LoseQuote
<1>34. ASSUME NEW p \in Pos, FindQuote(p) PROVE TypeOK'
  BY <1>34 DEF FindQuote
<1> QED
  BY <1>1, <1>2, <1>3, <1>4, <1>5, <1>6, <1>7, <1>8, <1>9, <1>10, <1>11, <1>12, <1>13, <1>14, <1>15, <1>16, <1>17, <1>18, <1>19, <1>20, <1>21, <1>22, <1>23, <1>24, <1>25, <1>26, <1>27, <1>28, <1>29, <1>30, <1>31, <1>32, <1>33, <1>34 DEF Next, Loop, Advance, Others, Outside

LEMMA Unmoved == ASSUME Inv, UNCHANGED vars PROVE Inv'
BY DEF vars, control, account, volatile, history, bounds, Inv, TypeOK, Phase, Rows, Cooldowns, InForce

LEMMA NextKeeps == Inv /\ [Next]_vars => Inv'
<1> SUFFICES ASSUME Inv, [Next]_vars PROVE Inv'
  OBVIOUS
<1>1. CASE Next
  <2>1. TypeOK' /\ Phase' /\ Rows' /\ Cooldowns' /\ InForce'
    BY <1>1, TypeKeeps, PhaseKeeps, RowsKeep, CooldownsKeep, InForceKeeps
  <2> QED
    BY <2>1 DEF Inv
<1>2. CASE UNCHANGED vars
  BY <1>2, Unmoved
<1> QED
  BY <1>1, <1>2

(***************************************************************************)
(* The inductive invariant holds in every reachable state of the loop, the *)
(* API and the advisor.                                                    *)
(***************************************************************************)
THEOREM Invariance == Spec => []Inv
<1> QED
  BY InitInv, NextKeeps, PTL DEF Spec

(***************************************************************************)
(* Every state is of its type; in hand is a set of positions or one of     *)
(* requests, whatever the others write meanwhile.                          *)
(***************************************************************************)
THEOREM TypeCorrect == Spec => []TypeOK
<1>1. Inv => TypeOK
  BY DEF Inv
<1> QED
  BY <1>1, Invariance, PTL

(***************************************************************************)
(* However often the loop dies, and wherever, an entry request of the      *)
(* advisor is submitted at most once (repo.pop_entry_requests).            *)
(***************************************************************************)
THEOREM RequestsFireOnce == Spec => []EntryOnce
<1>1. Inv => EntryOnce
  BY DEF Inv, Rows, EntryOnce
<1> QED
  BY <1>1, Invariance, PTL

(***************************************************************************)
(* On one key at most one entry is submitted in a cooldown, of the advisor *)
(* or of a window, restarts included (loop.try_fire).                      *)
(***************************************************************************)
THEOREM CooldownHolds == Spec => []OncePerCooldown
<1>1. Inv => OncePerCooldown
  BY DEF Inv, Cooldowns, OncePerCooldown
<1> QED
  BY <1>1, Invariance, PTL

(***************************************************************************)
(* A pause, a fresh lockdown or a halt in force since the exits of a tick  *)
(* keeps that tick from submitting anything, although each of them is read *)
(* at a step of its own, and a request over its TTL is not submitted.      *)
(***************************************************************************)
THEOREM ControlsBind == Spec => NoEntryAgainstControl
<1>1. Inv /\ [Next]_vars => [sent' # sent /\ At("submit") => held = {} /\ fire.req \notin late]_vars
  BY DEF Inv, InForce, At
<1> QED
  BY <1>1, Invariance, PTL DEF Spec, NoEntryAgainstControl
=============================================================================
