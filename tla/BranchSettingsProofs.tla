------------------------ MODULE BranchSettingsProofs ------------------------
(***************************************************************************)
(* Proofs about BranchSettings for any number of requests, any modes, any  *)
(* list of default templates and any bounds.                               *)
(***************************************************************************)
EXTENDS BranchSettings, FiniteSetTheorems, TLAPS

-----------------------------------------------------------------------------
(* Typing.                                                                 *)

Pending(h) == job[h].at \in {"find", "create"}

\* What the step of a handler says about its data.
LEMMA JobShapes ==
    ASSUME TypeOK, NEW h \in Requests
    PROVE  /\ Pending(h) =>
                \/ job[h].then \in {"read", "seed"} /\ job[h].seen \in 0..MaxShifts
                \/ job[h].then = "write" /\ job[h].mode \in Modes \cup {Keep}
           /\ job[h].at = "write" =>
                /\ job[h].row \in DOMAIN branches /\ job[h].read \in Modes
                /\ job[h].mode \in Modes \cup {Keep}
           /\ job[h].at = "wipe" => job[h].auto \in BOOLEAN /\ job[h].seen \in 0..MaxShifts
           /\ job[h].at = "seed" => job[h].k \in DOMAIN DefaultCodes
<1>1. job[h] \in Job \cup {Idle} /\ (job[h].at = "write" => job[h].row \in DOMAIN branches)
  BY DEF TypeOK
<1>2. CASE job[h] = Idle
  BY <1>2 DEF Idle, Pending
<1>3. CASE job[h] \in [at: {"find", "create"}, then: {"read", "seed"}, seen: 0..MaxShifts]
  BY <1>3 DEF Pending
<1>4. CASE job[h] \in [at: {"find", "create"}, then: {"write"}, mode: Modes \cup {Keep}]
  BY <1>4 DEF Pending
<1>5. CASE job[h] \in [at: {"write"}, row: Nat, read: Modes, mode: Modes \cup {Keep}]
  BY <1>1, <1>5 DEF Pending
<1>6. CASE job[h] \in [at: {"wipe"}, auto: BOOLEAN, seen: 0..MaxShifts]
  BY <1>6 DEF Pending
<1>7. CASE job[h] \in [at: {"seed"}, k: DOMAIN DefaultCodes]
  BY <1>7 DEF Pending
<1> QED
  BY <1>1, <1>2, <1>3, <1>4, <1>5, <1>6, <1>7 DEF Job

\* A handler that goes on with a row has a typed next step.
LEMMA Resumed ==
    ASSUME TypeOK, NEW h \in Requests, Pending(h), NEW row \in Nat, NEW mode \in Modes
    PROVE  /\ Resume(job[h], row, mode) \in Job \cup {Idle}
           /\ job[h].then = "read" => Resume(job[h], row, mode) = Idle
           /\ job[h].then = "write" =>
                Resume(job[h], row, mode) = [at |-> "write", row |-> row, read |-> mode,
                                             mode |-> job[h].mode]
           /\ job[h].then = "seed" =>
                Resume(job[h], row, mode) = [at |-> "wipe", auto |-> TRUE,
                                             seen |-> job[h].seen]
           /\ Resume(job[h], row, mode).at = "write" => Resume(job[h], row, mode).row = row
<1>1. \/ job[h].then \in {"read", "seed"} /\ job[h].seen \in 0..MaxShifts
      \/ job[h].then = "write" /\ job[h].mode \in Modes \cup {Keep}
  BY JobShapes
<1>2. CASE job[h].then = "read"
  BY <1>2 DEF Resume, Idle
<1>3. CASE job[h].then = "write"
  BY <1>1, <1>3 DEF Resume, Job
<1>4. CASE job[h].then = "seed"
  BY <1>1, <1>4 DEF Resume, Job
<1> QED
  BY <1>1, <1>2, <1>3, <1>4

\* The rows of the settings are typed, and one that is there stays there.
LEMMA RowsTyped ==
    ASSUME TypeOK
    PROVE  /\ Len(branches) \in Nat
           /\ \A row \in DOMAIN branches : row \in Nat /\ branches[row] \in Modes
           /\ Append(branches, SeedMode) \in Seq(Modes)
           /\ DOMAIN branches \subseteq DOMAIN Append(branches, SeedMode)
           /\ Len(branches) + 1 \in DOMAIN Append(branches, SeedMode)
BY SettingsAssumption DEF TypeOK

\* A template that is made is typed.
LEMMA AddTyped ==
    ASSUME TypeOK, NEW code \in Codes, NEW active \in BOOLEAN, AddShift(code, active)
    PROVE  shifts' \subseteq Shift /\ made' \in 0..MaxShifts
<1>1. made + 1 \in 1..MaxShifts
  BY SettingsAssumption DEF TypeOK, AddShift
<1>2. [id |-> made + 1, code |-> code, active |-> active] \in Shift
  BY <1>1 DEF Shift
<1> QED
  BY <1>1, <1>2 DEF AddShift, TypeOK

LEMMA StepsTyped == TypeOK /\ [Next]_vars => TypeOK'
<1> SUFFICES ASSUME TypeOK, [Next]_vars PROVE TypeOK'
  OBVIOUS
<1> USE SettingsAssumption
<1>1. ASSUME NEW h \in Requests, ReadSettings(h) PROVE TypeOK'
  <2>1. [at |-> "find", then |-> "read", seen |-> 0] \in Job
    BY DEF Job
  <2> QED
    BY <1>1, <2>1 DEF ReadSettings, Start, TypeOK
<1>2. ASSUME NEW h \in Requests, NEW mode \in Modes \cup {Keep}, UpdateSettings(h, mode)
      PROVE TypeOK'
  <2>1. [at |-> "find", then |-> "write", mode |-> mode] \in Job
    BY DEF Job
  <2> QED
    BY <1>2, <2>1 DEF UpdateSettings, Start, TypeOK
<1>3. ASSUME NEW h \in Requests, FindSettings(h) PROVE TypeOK'
  <2>1. CASE NoSettings /\ job' = [job EXCEPT ![h].at = "create"]
    <3>1. [job[h] EXCEPT !.at = "create"] \in Job /\ [job[h] EXCEPT !.at = "create"].at = "create"
      <4>1. \/ job[h] \in [at: {"find", "create"}, then: {"read", "seed"}, seen: 0..MaxShifts]
            \/ job[h] \in [at: {"find", "create"}, then: {"write"}, mode: Modes \cup {Keep}]
        BY <1>3 DEF FindSettings, TypeOK, Idle, Job
      <4>2. ASSUME NEW j \in [at: {"find", "create"}, then: {"read", "seed"}, seen: 0..MaxShifts]
            PROVE  /\ [j EXCEPT !.at = "create"].at = "create"
                   /\ [j EXCEPT !.at = "create"]
                        \in [at: {"find", "create"}, then: {"read", "seed"}, seen: 0..MaxShifts]
        OBVIOUS
      <4>3. ASSUME NEW j \in [at: {"find", "create"}, then: {"write"}, mode: Modes \cup {Keep}]
            PROVE  /\ [j EXCEPT !.at = "create"].at = "create"
                   /\ [j EXCEPT !.at = "create"]
                        \in [at: {"find", "create"}, then: {"write"}, mode: Modes \cup {Keep}]
        OBVIOUS
      <4> QED
        BY <4>1, <4>2, <4>3 DEF Job
    <3> QED
      BY <1>3, <2>1, <3>1 DEF FindSettings, TypeOK
  <2>2. ASSUME NEW row \in DOMAIN branches,
               job' = [job EXCEPT ![h] = Resume(@, row, branches[row])]
        PROVE  TypeOK'
    <3>1. PICK j : j = Resume(job[h], row, branches[row])
      OBVIOUS
    <3>2. Pending(h) /\ row \in Nat /\ branches[row] \in Modes
      BY <1>3, RowsTyped DEF FindSettings, Pending
    <3>3. j \in Job \cup {Idle} /\ (j.at = "write" => j.row \in DOMAIN branches)
      BY <3>1, <3>2, Resumed
    <3> QED
      BY <1>3, <2>2, <3>1, <3>3 DEF FindSettings, TypeOK
  <2>3. \/ NoSettings /\ job' = [job EXCEPT ![h].at = "create"]
        \/ \E row \in DOMAIN branches :
             job' = [job EXCEPT ![h] = Resume(@, row, branches[row])]
    BY <1>3 DEF FindSettings
  <2> QED
    BY <2>1, <2>2, <2>3
<1>4. ASSUME NEW h \in Requests, CreateSettings(h) PROVE TypeOK'
  <2>1. PICK j : j = Resume(job[h], Len(branches) + 1, SeedMode)
    OBVIOUS
  <2>2. j \in Job \cup {Idle} /\ (j.at = "write" => j.row = Len(branches) + 1)
    <3>1. Pending(h) /\ Len(branches) + 1 \in Nat /\ SeedMode \in Modes
      BY <1>4, RowsTyped DEF CreateSettings, Pending
    <3> QED
      BY <2>1, <3>1, Resumed
  <2>3. branches' = Append(branches, SeedMode) /\ job' = [job EXCEPT ![h] = j]
    BY <1>4, <2>1 DEF CreateSettings
  <2>4. \A g \in Requests : job'[g].at = "write" => job'[g].row \in DOMAIN branches'
    BY <2>2, <2>3, RowsTyped DEF TypeOK
  <2> QED
    BY <1>4, <2>2, <2>3, <2>4, RowsTyped DEF CreateSettings, TypeOK
<1>5. ASSUME NEW h \in Requests, WriteSettings(h) PROVE TypeOK'
  <2>1. /\ job[h].row \in DOMAIN branches /\ job[h].read \in Modes
        /\ job[h].mode \in Modes \cup {Keep}
    BY <1>5, JobShapes DEF WriteSettings
  <2>2. Stored(job[h].mode, job[h].read) \in Modes
    BY <2>1 DEF Stored
  <2> PICK m \in Modes : m = Stored(job[h].mode, job[h].read)
    BY <2>2
  <2>3. branches' = [branches EXCEPT ![job[h].row] = m]
    BY <1>5 DEF WriteSettings
  <2>4. branches' \in Seq(Modes) /\ DOMAIN branches' = DOMAIN branches
    BY <2>1, <2>3 DEF TypeOK
  <2>5. chosen' \in Modes /\ old' \subseteq Requests /\ undone' \in BOOLEAN
    BY <1>5, <2>1 DEF WriteSettings, TypeOK
  <2>6. job' \in [Requests -> Job \cup {Idle}]
    BY <1>5 DEF WriteSettings, TypeOK
  <2>7. \A g \in Requests : job'[g].at = "write" => job'[g].row \in DOMAIN branches'
    BY <1>5, <2>4 DEF WriteSettings, TypeOK, Idle
  <2> QED
    BY <1>5, <2>4, <2>5, <2>6, <2>7 DEF WriteSettings, TypeOK
<1>6. ASSUME NEW h \in Requests, ListShifts(h) PROVE TypeOK'
  <2>1. [at |-> "find", then |-> "seed", seen |-> made] \in Job
    BY DEF Job, TypeOK
  <2> QED
    BY <1>6, <2>1 DEF ListShifts, Start, TypeOK
<1>7. ASSUME NEW h \in Requests, SeedShifts(h) PROVE TypeOK'
  <2>1. [at |-> "wipe", auto |-> FALSE, seen |-> 0] \in Job
    BY DEF Job
  <2> QED
    BY <1>7, <2>1 DEF SeedShifts, Start, TypeOK
<1>8. ASSUME NEW h \in Requests, WipeShifts(h) PROVE TypeOK'
  <2>1. [at |-> "seed", k |-> 1] \in Job
    BY DEF Job
  <2> QED
    BY <1>8, <2>1 DEF WipeShifts, TypeOK
<1>9. ASSUME NEW h \in Requests, SeedShift(h) PROVE TypeOK'
  <2>1. job[h].k \in DOMAIN DefaultCodes
    BY <1>9, JobShapes DEF SeedShift
  <2>2. shifts' \subseteq Shift /\ made' \in 0..MaxShifts
    BY <1>9, <2>1, AddTyped DEF SeedShift, Codes
  <2>3. PICK j : j = NextDefault(job[h].k)
    OBVIOUS
  <2>4. j \in Job \cup {Idle} /\ j.at # "write"
    <3>1. CASE job[h].k < Len(DefaultCodes)
      <4>1. job[h].k + 1 \in DOMAIN DefaultCodes
        BY <2>1, <3>1
      <4> QED
        BY <2>3, <3>1, <4>1 DEF NextDefault, Job
    <3>2. CASE ~ (job[h].k < Len(DefaultCodes))
      BY <2>3, <3>2 DEF NextDefault, Idle
    <3> QED
      BY <3>1, <3>2
  <2>5. job' = [job EXCEPT ![h] = j]
    BY <1>9, <2>3 DEF SeedShift
  <2> QED
    BY <1>9, <2>2, <2>4, <2>5 DEF SeedShift, TypeOK
<1>10. ASSUME NEW code \in AdminCodes, NEW active \in BOOLEAN, CreateShift(code, active)
       PROVE TypeOK'
  <2>1. shifts' \subseteq Shift /\ made' \in 0..MaxShifts
    BY <1>10, AddTyped DEF CreateShift, Codes
  <2> QED
    BY <1>10, <2>1 DEF CreateShift, TypeOK
<1>11. ASSUME NEW t \in shifts, NEW active \in BOOLEAN, NEW code \in AdminCodes \cup {t.code},
              UpdateShift(t, code, active)
       PROVE TypeOK'
  <2>1. t \in Shift /\ code \in Codes
    BY DEF TypeOK, Shift, Codes
  <2>2. [t EXCEPT !.code = code, !.active = active] \in Shift
    BY <2>1 DEF Shift
  <2>3. whole' \in BOOLEAN
    BY <1>11 DEF UpdateShift, TypeOK
  <2> QED
    BY <1>11, <2>2, <2>3 DEF UpdateShift, TypeOK
<1>12. ASSUME NEW t \in shifts, DeleteShift(t) PROVE TypeOK'
  BY <1>12 DEF DeleteShift, TypeOK
<1>13. ASSUME NEW h \in Requests, CutOff(h) PROVE TypeOK'
  <2>1. whole' \in BOOLEAN /\ old' \subseteq Requests
    BY <1>13 DEF CutOff, TypeOK
  <2> QED
    BY <1>13, <2>1 DEF CutOff, TypeOK, Idle
<1>14. CASE UNCHANGED vars
  BY <1>14 DEF vars, TypeOK
<1> QED
  BY <1>1, <1>2, <1>3, <1>4, <1>5, <1>6, <1>7, <1>8, <1>9, <1>10, <1>11, <1>12, <1>13, <1>14
     DEF Next

\* Every reachable state has typed rows, templates and handlers.
THEOREM Typing == Spec => []TypeOK
<1>1. Init => TypeOK
  <2>1. <<>> \in Seq(Modes) /\ 0 \in 0..MaxShifts /\ SeedMode \in Modes
    BY SettingsAssumption
  <2>2. Idle.at # "write"
    BY DEF Idle
  <2> QED
    BY <2>1, <2>2 DEF Init, TypeOK
<1> QED
  BY <1>1, StepsTyped, PTL DEF Spec

-----------------------------------------------------------------------------
(* Rows of settings. A read that found none makes one later, so the rows   *)
(* and the reads about to make one are counted together.                   *)

Creating == {h \in Requests : job[h].at = "create"}

RowsInv == Len(branches) + Cardinality(Creating) <= Cardinality(Requests)

\* A step keeps the rows, or there is none yet, or a reader turns into a row.
LEMMA RowSteps ==
    ASSUME TypeOK, [Next]_vars
    PROVE  \/ Len(branches') = Len(branches) /\ Creating' \subseteq Creating
           \/ branches' = <<>>
           \/ \E h \in Creating : /\ Len(branches') = Len(branches) + 1
                                  /\ Creating' \subseteq Creating \ {h}
<1>1. ASSUME NEW h \in Requests, NEW row \in Nat, NEW mode \in Modes, Pending(h)
      PROVE  Resume(job[h], row, mode).at # "create"
  BY <1>1, JobShapes DEF Resume, Idle
<1>2. ASSUME NEW h \in Requests, ReadSettings(h) PROVE Creating' \subseteq Creating
  BY <1>2 DEF ReadSettings, Start, Creating, TypeOK
<1>3. ASSUME NEW h \in Requests, NEW mode \in Modes \cup {Keep}, UpdateSettings(h, mode)
      PROVE  Creating' \subseteq Creating
  BY <1>3 DEF UpdateSettings, Start, Creating, TypeOK
<1>4. ASSUME NEW h \in Requests, FindSettings(h), branches # <<>>
      PROVE  Creating' \subseteq Creating
  <2>1. PICK row \in DOMAIN branches : job' = [job EXCEPT ![h] = Resume(@, row, branches[row])]
    BY <1>4 DEF FindSettings, NoSettings
  <2>2. Resume(job[h], row, branches[row]).at # "create"
    BY <1>1, <1>4, RowsTyped DEF FindSettings, Pending
  <2> QED
    BY <2>1, <2>2 DEF Creating, TypeOK
<1>5. ASSUME NEW h \in Requests, CreateSettings(h)
      PROVE  /\ h \in Creating /\ Len(branches') = Len(branches) + 1
             /\ Creating' \subseteq Creating \ {h}
  <2>1. Resume(job[h], Len(branches) + 1, SeedMode).at # "create"
    BY <1>1, <1>5, RowsTyped, SettingsAssumption DEF CreateSettings, Pending
  <2> QED
    BY <1>5, <2>1 DEF CreateSettings, Creating, TypeOK
<1>6. ASSUME NEW h \in Requests, WriteSettings(h)
      PROVE  Len(branches') = Len(branches) /\ Creating' \subseteq Creating
  <2>1. job[h].row \in DOMAIN branches /\ Stored(job[h].mode, job[h].read) \in Modes
    BY <1>6, JobShapes DEF WriteSettings, Stored
  <2>2. Len(branches') = Len(branches)
    BY <1>6, <2>1 DEF WriteSettings, TypeOK
  <2> QED
    BY <1>6, <2>2 DEF WriteSettings, Creating, TypeOK, Idle
<1>7. ASSUME NEW h \in Requests, ListShifts(h) PROVE Creating' \subseteq Creating
  <2>1. CASE job' = job
    BY <2>1 DEF Creating
  <2>2. CASE Start(h, [at |-> "find", then |-> "seed", seen |-> made])
    BY <2>2 DEF Start, Creating, TypeOK
  <2> QED
    BY <1>7, <2>1, <2>2 DEF ListShifts
<1>8. ASSUME NEW h \in Requests, SeedShifts(h) PROVE Creating' \subseteq Creating
  BY <1>8 DEF SeedShifts, Start, Creating, TypeOK
<1>9. ASSUME NEW h \in Requests, WipeShifts(h) PROVE Creating' \subseteq Creating
  BY <1>9 DEF WipeShifts, Creating, TypeOK
<1>10. ASSUME NEW h \in Requests, SeedShift(h) PROVE Creating' \subseteq Creating
  <2> PICK j : j = NextDefault(job[h].k)
    OBVIOUS
  <2>1. j.at # "create"
    BY DEF NextDefault, Idle
  <2> QED
    BY <1>10, <2>1 DEF SeedShift, Creating, TypeOK
<1>11. ASSUME NEW h \in Requests, CutOff(h) PROVE Creating' \subseteq Creating
  BY <1>11 DEF CutOff, Creating, TypeOK, Idle
<1>12. ASSUME UNCHANGED <<branches, job>> PROVE Creating' \subseteq Creating
  BY <1>12 DEF Creating
<1> QED
  BY <1>2, <1>3, <1>4, <1>5, <1>6, <1>7, <1>8, <1>9, <1>10, <1>11, <1>12
     DEF Next, vars, ReadSettings, UpdateSettings, FindSettings, ListShifts, SeedShifts,
         WipeShifts, SeedShift, CreateShift, UpdateShift, DeleteShift, CutOff

\* Rows and readers together never outgrow the requests.
LEMMA RowsKept == TypeOK /\ RowsInv /\ [Next]_vars => RowsInv'
<1> SUFFICES ASSUME TypeOK, RowsInv, [Next]_vars PROVE RowsInv'
  OBVIOUS
<1>1. /\ IsFiniteSet(Requests) /\ Cardinality(Requests) \in Nat
      /\ Creating \subseteq Requests /\ Creating' \subseteq Requests
  BY SettingsAssumption, FS_CardinalityType DEF Creating
<1>2. /\ IsFiniteSet(Creating) /\ Cardinality(Creating) \in Nat
      /\ Cardinality(Creating') \in Nat /\ Cardinality(Creating') <= Cardinality(Requests)
  BY <1>1, FS_Subset, FS_CardinalityType
<1>3. Len(branches) \in Nat
  BY DEF TypeOK
<1>4. CASE Len(branches') = Len(branches) /\ Creating' \subseteq Creating
  <2>1. Cardinality(Creating') <= Cardinality(Creating)
    BY <1>2, <1>4, FS_Subset
  <2> QED
    BY <1>1, <1>2, <1>3, <1>4, <2>1 DEF RowsInv
<1>5. CASE branches' = <<>>
  <2>1. Len(branches') = 0
    BY <1>5
  <2> QED
    BY <1>1, <1>2, <2>1 DEF RowsInv
<1>6. ASSUME NEW h \in Creating, Len(branches') = Len(branches) + 1,
             Creating' \subseteq Creating \ {h}
      PROVE  RowsInv'
  <2>1. IsFiniteSet(Creating \ {h}) /\ Cardinality(Creating \ {h}) = Cardinality(Creating) - 1
    BY <1>2, FS_RemoveElement
  <2>2. Cardinality(Creating') <= Cardinality(Creating) - 1
    BY <1>6, <2>1, FS_Subset
  <2> QED
    BY <1>1, <1>2, <1>3, <1>6, <2>2 DEF RowsInv
<1> QED
  BY <1>4, <1>5, <1>6, RowSteps

\* First reads that overlap make at most one row each: RowsPerReader holds.
THEOREM RowsTheorem == Spec => []RowsPerReader
<1>1. Init => RowsInv
  <2> SUFFICES ASSUME Init PROVE RowsInv
    OBVIOUS
  <2>1. Creating = {} /\ Len(branches) = 0
    BY DEF Init, Creating, Idle
  <2> QED
    BY <2>1, SettingsAssumption, FS_EmptySet, FS_CardinalityType DEF RowsInv
<1>2. TypeOK /\ RowsInv => RowsPerReader
  <2> SUFFICES ASSUME TypeOK, RowsInv PROVE RowsPerReader
    OBVIOUS
  <2>1. Cardinality(Creating) \in Nat /\ Cardinality(Requests) \in Nat
    BY SettingsAssumption, FS_Subset, FS_CardinalityType DEF Creating
  <2> QED
    BY <2>1 DEF RowsInv, RowsPerReader, TypeOK
<1> QED
  BY <1>1, <1>2, RowsKept, Typing, PTL DEF Spec

-----------------------------------------------------------------------------
(* Default templates.                                                      *)

\* A step keeps the promise of each default when it loses no code of a template,
\* and no handler of the loop moves.
LEMMA PromiseKept ==
    ASSUME DefaultsArrive, whole' => whole,
           \A t \in shifts : \E u \in shifts' : u.code = t.code,
           \A h \in Requests : job[h].at = "seed" => job'[h] = job[h]
    PROVE  DefaultsArrive'
<1> SUFFICES ASSUME whole', NEW k \in DOMAIN DefaultCodes
             PROVE  \/ \E t \in shifts' : t.code = DefaultCodes[k]
                    \/ \E h \in Requests : job'[h].at = "seed" /\ job'[h].k <= k
  BY DEF DefaultsArrive
<1>1. CASE \E t \in shifts : t.code = DefaultCodes[k]
  BY <1>1
<1>2. CASE \E h \in Requests : job[h].at = "seed" /\ job[h].k <= k
  BY <1>2
<1> QED
  BY <1>1, <1>2 DEF DefaultsArrive

\* The step of a handler outside the loop over the defaults moves none in it.
LEMMA OthersMoveNoSeed ==
    ASSUME TypeOK, NEW h \in Requests, job[h].at # "seed", NEW j, job' = [job EXCEPT ![h] = j]
    PROVE  \A g \in Requests : job[g].at = "seed" => job'[g] = job[g]
BY DEF TypeOK

LEMMA DefaultsKept == TypeOK /\ DefaultsArrive /\ [Next]_vars => DefaultsArrive'
<1> SUFFICES ASSUME TypeOK, DefaultsArrive, [Next]_vars PROVE DefaultsArrive'
  OBVIOUS
<1>1. ASSUME NEW h \in Requests, NEW j, job[h].at # "seed", job' = [job EXCEPT ![h] = j],
             UNCHANGED <<shifts, whole>>
      PROVE  DefaultsArrive'
  BY <1>1, PromiseKept, OthersMoveNoSeed
<1>0. ASSUME NEW h \in Requests, NEW j, Start(h, j), UNCHANGED <<shifts, whole>>
      PROVE  DefaultsArrive'
  <2>1. job[h].at # "seed" /\ job' = [job EXCEPT ![h] = j]
    BY <1>0 DEF Start, Idle
  <2> QED
    BY <1>0, <1>1, <2>1
<1>2. ASSUME NEW h \in Requests, ReadSettings(h) PROVE DefaultsArrive'
  BY <1>0, <1>2 DEF ReadSettings
<1>3. ASSUME NEW h \in Requests, NEW mode \in Modes \cup {Keep}, UpdateSettings(h, mode)
      PROVE  DefaultsArrive'
  BY <1>0, <1>3 DEF UpdateSettings
<1>4. ASSUME NEW h \in Requests, FindSettings(h) PROVE DefaultsArrive'
  <2>1. /\ job[h].at # "seed" /\ UNCHANGED <<shifts, whole>>
        /\ \E j : job' = [job EXCEPT ![h] = j]
    <3>1. CASE job' = [job EXCEPT ![h].at = "create"]
      <4>1. job' = [job EXCEPT ![h] = [@ EXCEPT !.at = "create"]]
        BY <3>1
      <4> QED
        BY <1>4, <4>1 DEF FindSettings
    <3>2. ASSUME NEW row \in DOMAIN branches,
                 job' = [job EXCEPT ![h] = Resume(@, row, branches[row])]
          PROVE  \E j : job' = [job EXCEPT ![h] = j]
      BY <3>2
    <3> QED
      BY <1>4, <3>1, <3>2 DEF FindSettings
  <2> QED
    BY <1>1, <2>1
<1>5. ASSUME NEW h \in Requests, CreateSettings(h) PROVE DefaultsArrive'
  BY <1>1, <1>5 DEF CreateSettings
<1>6. ASSUME NEW h \in Requests, WriteSettings(h) PROVE DefaultsArrive'
  BY <1>1, <1>6 DEF WriteSettings
<1>7. ASSUME NEW h \in Requests, ListShifts(h) PROVE DefaultsArrive'
  <2>1. CASE job' = job
    BY <1>7, <2>1, PromiseKept DEF ListShifts
  <2>2. CASE Start(h, [at |-> "find", then |-> "seed", seen |-> made])
    BY <1>0, <1>7, <2>2 DEF ListShifts
  <2> QED
    BY <1>7, <2>1, <2>2 DEF ListShifts
<1>8. ASSUME NEW h \in Requests, SeedShifts(h) PROVE DefaultsArrive'
  BY <1>0, <1>8 DEF SeedShifts
<1>9. ASSUME NEW h \in Requests, WipeShifts(h) PROVE DefaultsArrive'
  <2>1. job'[h].at = "seed" /\ job'[h].k = 1
    BY <1>9 DEF WipeShifts, TypeOK
  <2>2. \A k \in DOMAIN DefaultCodes : 1 <= k
    BY SettingsAssumption
  <2> QED
    BY <2>1, <2>2 DEF DefaultsArrive
<1>10. ASSUME NEW h \in Requests, SeedShift(h) PROVE DefaultsArrive'
  <2> SUFFICES ASSUME whole', NEW k \in DOMAIN DefaultCodes
               PROVE  \/ \E t \in shifts' : t.code = DefaultCodes[k]
                      \/ \E g \in Requests : job'[g].at = "seed" /\ job'[g].k <= k
    BY DEF DefaultsArrive
  <2>1. PICK u \in shifts' : u.code = DefaultCodes[job[h].k]
    <3>1. PICK u : u = [id |-> made + 1, code |-> DefaultCodes[job[h].k], active |-> TRUE]
      OBVIOUS
    <3>2. shifts' = shifts \cup {u}
      BY <1>10, <3>1 DEF SeedShift, AddShift
    <3> QED
      BY <3>1, <3>2
  <2>2. shifts \subseteq shifts' /\ whole
    BY <1>10 DEF SeedShift, AddShift
  <2>3. \A g \in Requests \ {h} : job'[g] = job[g]
    BY <1>10 DEF SeedShift, TypeOK
  <2>4. CASE \E t \in shifts : t.code = DefaultCodes[k]
    BY <2>2, <2>4
  <2>5. ASSUME NEW g \in Requests \ {h}, job[g].at = "seed", job[g].k <= k
        PROVE  \E f \in Requests : job'[f].at = "seed" /\ job'[f].k <= k
    BY <2>3, <2>5
  <2>6. CASE job[h].at = "seed" /\ job[h].k <= k
    <3>1. CASE job[h].k = k
      BY <2>1, <3>1
    <3>2. CASE job[h].k < k
      <4>1. job[h].k \in Nat /\ k \in Nat /\ k <= Len(DefaultCodes) /\ Len(DefaultCodes) \in Nat
        BY <2>6, JobShapes, SettingsAssumption
      <4>2. NextDefault(job[h].k) = [at |-> "seed", k |-> job[h].k + 1]
        BY <3>2, <4>1 DEF NextDefault
      <4>3. job' = [job EXCEPT ![h] = [at |-> "seed", k |-> job[h].k + 1]]
        BY <1>10, <4>2 DEF SeedShift
      <4>4. job'[h] = [at |-> "seed", k |-> job[h].k + 1]
        BY <4>3 DEF TypeOK
      <4> QED
        BY <3>2, <4>1, <4>4
    <3> QED
      BY <2>6, <3>1, <3>2, JobShapes, SettingsAssumption
  <2> QED
    BY <2>2, <2>4, <2>5, <2>6 DEF DefaultsArrive
<1>11. ASSUME NEW code \in AdminCodes, NEW active \in BOOLEAN, CreateShift(code, active)
       PROVE  DefaultsArrive'
  BY <1>11, PromiseKept DEF CreateShift, AddShift
<1>12. ASSUME NEW t \in shifts, NEW active \in BOOLEAN, NEW code \in AdminCodes \cup {t.code},
              UpdateShift(t, code, active)
       PROVE  DefaultsArrive'
  <2>1. CASE whole'
    <3>1. code = t.code /\ whole
      BY <1>12, <2>1 DEF UpdateShift
    <3>2. PICK u : u = [t EXCEPT !.code = code, !.active = active]
      OBVIOUS
    <3>3. u.code = t.code
      BY <3>1, <3>2 DEF TypeOK, Shift
    <3>4. \A v \in shifts : \E w \in shifts' : w.code = v.code
      BY <1>12, <3>2, <3>3 DEF UpdateShift
    <3> QED
      BY <1>12, <3>1, <3>4, PromiseKept DEF UpdateShift
  <2> QED
    BY <2>1 DEF DefaultsArrive
<1>13. ASSUME NEW t \in shifts, DeleteShift(t) PROVE DefaultsArrive'
  BY <1>13 DEF DeleteShift, DefaultsArrive
<1>14. ASSUME NEW h \in Requests, CutOff(h) PROVE DefaultsArrive'
  <2>1. CASE whole'
    BY <1>1, <1>14, <2>1 DEF CutOff, TypeOK
  <2> QED
    BY <2>1 DEF DefaultsArrive
<1>15. CASE UNCHANGED vars
  BY <1>15, PromiseKept DEF vars
<1> QED
  BY <1>2, <1>3, <1>4, <1>5, <1>6, <1>7, <1>8, <1>9, <1>10, <1>11, <1>12, <1>13, <1>14, <1>15
     DEF Next

\* However seedings overlap, each default is there or still to come as long as
\* no seeding is cut off and no template removed: DefaultsArrive holds.
THEOREM DefaultsTheorem == Spec => []DefaultsArrive
<1>1. Init => DefaultsArrive
  BY DEF Init, DefaultsArrive
<1> QED
  BY <1>1, DefaultsKept, Typing, PTL DEF Spec

-----------------------------------------------------------------------------
(* What the seeding of an empty list may wipe.                             *)

\* A handler on its way from the empty list to the wipe.
ToWipe(j) == (j.at \in {"find", "create"} /\ j.then = "seed") \/ (j.at = "wipe" /\ j.auto)

SeenInv ==
    \A h \in Requests : ToWipe(job[h]) =>
        job[h].seen <= made /\ \A t \in shifts : t.id > job[h].seen

\* Who is on the way has been on the way, and templates that are not new keep
\* their number.
LEMMA SeenStep ==
    ASSUME TypeOK, SeenInv, NEW h \in Requests, ToWipe(job[h]), job'[h].seen = job[h].seen,
           \/ made' = made /\ \A u \in shifts' : \E t \in shifts : u.id = t.id
           \/ made' = made + 1 /\ \A u \in shifts' : u.id = made + 1 \/ u \in shifts
    PROVE  job'[h].seen <= made' /\ \A u \in shifts' : u.id > job'[h].seen
<1>1. made \in Nat /\ job[h].seen \in Nat
  BY JobShapes, SettingsAssumption DEF TypeOK, ToWipe, Pending
<1>2. job[h].seen <= made /\ \A t \in shifts : t.id > job[h].seen
  BY DEF SeenInv
<1> QED
  BY <1>1, <1>2

\* A step after which the same handlers are on the way.
LEMMA SeenKept ==
    ASSUME TypeOK, SeenInv,
           \A h \in Requests : ToWipe(job'[h]) => ToWipe(job[h]) /\ job'[h].seen = job[h].seen,
           \/ made' = made /\ \A u \in shifts' : \E t \in shifts : u.id = t.id
           \/ made' = made + 1 /\ \A u \in shifts' : u.id = made + 1 \/ u \in shifts
    PROVE  SeenInv'
<1>1. ASSUME NEW h \in Requests, ToWipe(job'[h])
      PROVE  job'[h].seen <= made' /\ \A u \in shifts' : u.id > job'[h].seen
  BY <1>1, SeenStep
<1>2. \A h \in Requests : ToWipe(job[h])' <=> ToWipe(job'[h])
  BY DEF ToWipe
<1> QED
  BY <1>1, <1>2 DEF SeenInv

LEMMA SeenStays == TypeOK /\ SeenInv /\ [Next]_vars => SeenInv'
<1> SUFFICES ASSUME TypeOK, SeenInv, [Next]_vars PROVE SeenInv'
  OBVIOUS
<1>1. ASSUME NEW h \in Requests, NEW j, job' = [job EXCEPT ![h] = j],
             ToWipe(j) => ToWipe(job[h]) /\ j.seen = job[h].seen,
             UNCHANGED <<shifts, made>>
      PROVE  SeenInv'
  <2>1. job'[h] = j /\ \A g \in Requests \ {h} : job'[g] = job[g]
    BY <1>1 DEF TypeOK
  <2>2. \A g \in Requests : ToWipe(job'[g]) => ToWipe(job[g]) /\ job'[g].seen = job[g].seen
    BY <1>1, <2>1
  <2> QED
    BY <1>1, <2>2, SeenKept
<1>2. ASSUME NEW h \in Requests, NEW j, Start(h, j), ~ ToWipe(j), UNCHANGED <<shifts, made>>
      PROVE  SeenInv'
  BY <1>1, <1>2 DEF Start
<1>3. ASSUME NEW h \in Requests, ReadSettings(h) PROVE SeenInv'
  <2>1. PICK j : j = [at |-> "find", then |-> "read", seen |-> 0]
    OBVIOUS
  <2>2. ~ ToWipe(j)
    BY <2>1 DEF ToWipe
  <2> QED
    BY <1>2, <1>3, <2>1, <2>2 DEF ReadSettings
<1>4. ASSUME NEW h \in Requests, NEW mode \in Modes \cup {Keep}, UpdateSettings(h, mode)
      PROVE  SeenInv'
  <2>1. PICK j : j = [at |-> "find", then |-> "write", mode |-> mode]
    OBVIOUS
  <2>2. ~ ToWipe(j)
    BY <2>1 DEF ToWipe
  <2> QED
    BY <1>2, <1>4, <2>1, <2>2 DEF UpdateSettings
<1>5. ASSUME NEW h \in Requests, NEW row \in Nat, NEW mode \in Modes, Pending(h),
             ToWipe(Resume(job[h], row, mode))
      PROVE  ToWipe(job[h]) /\ Resume(job[h], row, mode).seen = job[h].seen
  <2>1. job[h].then \in {"read", "write", "seed"}
    BY <1>5, JobShapes
  <2>2. CASE job[h].then = "seed"
    <3>1. Resume(job[h], row, mode) = [at |-> "wipe", auto |-> TRUE, seen |-> job[h].seen]
      BY <2>2 DEF Resume
    <3> QED
      BY <1>5, <2>2, <3>1 DEF ToWipe, Pending
  <2>3. CASE job[h].then = "read"
    <3>1. Resume(job[h], row, mode) = Idle
      BY <2>3 DEF Resume
    <3> QED
      BY <1>5, <3>1 DEF ToWipe, Idle
  <2>4. CASE job[h].then = "write"
    <3>1. Resume(job[h], row, mode).at = "write"
      BY <2>4 DEF Resume
    <3> QED
      BY <1>5, <3>1 DEF ToWipe
  <2> QED
    BY <2>1, <2>2, <2>3, <2>4
<1>6. ASSUME NEW h \in Requests, FindSettings(h) PROVE SeenInv'
  <2>1. Pending(h) /\ UNCHANGED <<shifts, made>>
    BY <1>6 DEF FindSettings, Pending
  <2>2. CASE job' = [job EXCEPT ![h].at = "create"]
    <3>1. PICK j : j = [job[h] EXCEPT !.at = "create"]
      OBVIOUS
    <3>2. job' = [job EXCEPT ![h] = j]
      BY <2>2, <3>1
    <3>3. ToWipe(j) => ToWipe(job[h]) /\ j.seen = job[h].seen
      <4>1. \/ job[h] \in [at: {"find", "create"}, then: {"read", "seed"}, seen: 0..MaxShifts]
            \/ job[h] \in [at: {"find", "create"}, then: {"write"}, mode: Modes \cup {Keep}]
        BY <1>6 DEF FindSettings, TypeOK, Idle, Job
      <4>2. CASE job[h] \in [at: {"find", "create"}, then: {"read", "seed"}, seen: 0..MaxShifts]
        BY <3>1, <4>2 DEF ToWipe
      <4>3. CASE job[h] \in [at: {"find", "create"}, then: {"write"}, mode: Modes \cup {Keep}]
        BY <3>1, <4>3 DEF ToWipe
      <4> QED
        BY <4>1, <4>2, <4>3
    <3> QED
      BY <1>1, <2>1, <3>2, <3>3
  <2>3. ASSUME NEW row \in DOMAIN branches,
               job' = [job EXCEPT ![h] = Resume(@, row, branches[row])]
        PROVE  SeenInv'
    BY <1>1, <1>5, <2>1, <2>3, RowsTyped
  <2> QED
    BY <1>6, <2>2, <2>3 DEF FindSettings
<1>7. ASSUME NEW h \in Requests, CreateSettings(h) PROVE SeenInv'
  <2>1. Pending(h) /\ Len(branches) + 1 \in Nat /\ SeedMode \in Modes
    BY <1>7, RowsTyped, SettingsAssumption DEF CreateSettings, Pending
  <2> QED
    BY <1>1, <1>5, <1>7, <2>1 DEF CreateSettings
<1>8. ~ ToWipe(Idle)
  BY DEF ToWipe, Idle
<1>9. ASSUME NEW h \in Requests, WriteSettings(h) PROVE SeenInv'
  BY <1>1, <1>8, <1>9 DEF WriteSettings
<1>10. ASSUME NEW h \in Requests, ListShifts(h) PROVE SeenInv'
  <2>1. CASE job' = job
    BY <1>10, <2>1, SeenKept DEF ListShifts
  <2>2. CASE shifts = {} /\ Start(h, [at |-> "find", then |-> "seed", seen |-> made])
    <3>1. PICK j : j = [at |-> "find", then |-> "seed", seen |-> made]
      OBVIOUS
    <3>2. job'[h] = j /\ \A g \in Requests \ {h} : job'[g] = job[g]
      BY <2>2, <3>1 DEF Start, TypeOK
    <3>3. made' = made /\ shifts' = {} /\ j.seen <= made
      BY <1>10, <2>2, <3>1, SettingsAssumption DEF ListShifts, TypeOK
    <3> QED
      BY <3>2, <3>3 DEF SeenInv, ToWipe
  <2> QED
    BY <1>10, <2>1, <2>2 DEF ListShifts, NoShifts
<1>11. ASSUME NEW h \in Requests, SeedShifts(h) PROVE SeenInv'
  <2>1. PICK j : j = [at |-> "wipe", auto |-> FALSE, seen |-> 0]
    OBVIOUS
  <2>2. ~ ToWipe(j)
    BY <2>1 DEF ToWipe
  <2> QED
    BY <1>2, <1>11, <2>1, <2>2 DEF SeedShifts
<1>12. ASSUME NEW h \in Requests, WipeShifts(h) PROVE SeenInv'
  <2>1. PICK j : j = [at |-> "seed", k |-> 1]
    OBVIOUS
  <2>2. ~ ToWipe(j)
    BY <2>1 DEF ToWipe
  <2>3. job'[h] = j /\ \A g \in Requests \ {h} : job'[g] = job[g]
    BY <1>12, <2>1 DEF WipeShifts, TypeOK
  <2>4. made' = made /\ shifts' = {}
    BY <1>12 DEF WipeShifts
  <2>5. \A g \in Requests : ToWipe(job'[g]) => ToWipe(job[g]) /\ job'[g].seen = job[g].seen
    BY <2>2, <2>3
  <2> QED
    BY <2>4, <2>5, SeenKept
<1>13. ASSUME NEW h \in Requests, SeedShift(h) PROVE SeenInv'
  <2>1. PICK j : j = NextDefault(job[h].k)
    OBVIOUS
  <2>2. ~ ToWipe(j)
    BY <2>1 DEF NextDefault, Idle, ToWipe
  <2>3. job'[h] = j /\ \A g \in Requests \ {h} : job'[g] = job[g]
    BY <1>13, <2>1 DEF SeedShift, TypeOK
  <2>4. made' = made + 1 /\ \A u \in shifts' : u.id = made + 1 \/ u \in shifts
    BY <1>13 DEF SeedShift, AddShift
  <2>5. \A g \in Requests : ToWipe(job'[g]) => ToWipe(job[g]) /\ job'[g].seen = job[g].seen
    BY <2>2, <2>3
  <2> QED
    BY <2>4, <2>5, SeenKept
<1>14. ASSUME NEW code \in AdminCodes, NEW active \in BOOLEAN, CreateShift(code, active)
       PROVE  SeenInv'
  <2>1. made' = made + 1 /\ \A u \in shifts' : u.id = made + 1 \/ u \in shifts
    BY <1>14 DEF CreateShift, AddShift
  <2> QED
    BY <1>14, <2>1, SeenKept DEF CreateShift
<1>15. ASSUME NEW t \in shifts, NEW active \in BOOLEAN, NEW code \in AdminCodes \cup {t.code},
              UpdateShift(t, code, active)
       PROVE  SeenInv'
  <2>1. PICK u : u = [t EXCEPT !.code = code, !.active = active]
    OBVIOUS
  <2>2. u.id = t.id
    BY <2>1 DEF TypeOK, Shift
  <2>3. \A v \in shifts' : \E w \in shifts : v.id = w.id
    BY <1>15, <2>1, <2>2 DEF UpdateShift
  <2> QED
    BY <1>15, <2>3, SeenKept DEF UpdateShift
<1>16. ASSUME NEW t \in shifts, DeleteShift(t) PROVE SeenInv'
  BY <1>16, SeenKept DEF DeleteShift
<1>17. ASSUME NEW h \in Requests, CutOff(h) PROVE SeenInv'
  BY <1>1, <1>8, <1>17 DEF CutOff
<1>18. CASE UNCHANGED vars
  BY <1>18, SeenKept DEF vars
<1> QED
  BY <1>3, <1>4, <1>6, <1>7, <1>9, <1>10, <1>11, <1>12, <1>13, <1>14, <1>15, <1>16, <1>17, <1>18
     DEF Next

\* The seeding of an empty list wipes nothing that was there when it was listed:
\* AutoSeedSpares holds of every step.
THEOREM AutoSeedTheorem == Spec => AutoSeedSpares
<1>1. Init => SeenInv
  BY DEF Init, SeenInv, ToWipe, Idle
<1>2. SeenInv => [\A h \in Requests :
                    job[h].at = "wipe" /\ job[h].auto /\ job'[h].at = "seed" =>
                      \A t \in shifts \ shifts' : t.id > job[h].seen]_vars
  BY DEF SeenInv, ToWipe
<1> QED
  BY <1>1, <1>2, SeenStays, Typing, PTL DEF Spec, AutoSeedSpares

-----------------------------------------------------------------------------
(* The mode that was chosen last.                                          *)

\* While there is one row and the choice is not undone, the row says it, and so does
\* what an update has read unless it read before the choice was written.
ChoiceInv ==
    /\ branches = <<>> => chosen = SeedMode
    /\ Len(branches) = 1 /\ ~ undone =>
         /\ branches[1] = chosen
         /\ \A h \in Requests \ old : job[h].at = "write" => job[h].read = branches[1]

\* A step that touches no row and sends no update to its write.
LEMMA ChoiceKept ==
    ASSUME ChoiceInv, UNCHANGED <<branches, chosen, undone>>,
           \A h \in Requests : job'[h].at = "write" =>
             job'[h] = job[h] /\ (h \in old => h \in old')
    PROVE  ChoiceInv'
BY DEF ChoiceInv

LEMMA ChoiceStays == TypeOK /\ ChoiceInv /\ [Next]_vars => ChoiceInv'
<1> SUFFICES ASSUME TypeOK, ChoiceInv, [Next]_vars PROVE ChoiceInv'
  OBVIOUS
<1>1. ASSUME NEW h \in Requests, NEW j, job' = [job EXCEPT ![h] = j], j.at # "write",
             UNCHANGED <<branches, chosen, old, undone>>
      PROVE  ChoiceInv'
  <2>1. job'[h] = j /\ \A g \in Requests \ {h} : job'[g] = job[g]
    BY <1>1 DEF TypeOK
  <2> QED
    BY <1>1, <2>1, ChoiceKept
<1>2. ASSUME NEW h \in Requests, NEW j, Start(h, j), j.at # "write",
             UNCHANGED <<branches, chosen, old, undone>>
      PROVE  ChoiceInv'
  BY <1>1, <1>2 DEF Start
<1>3. ASSUME NEW h \in Requests, ReadSettings(h) PROVE ChoiceInv'
  BY <1>2, <1>3 DEF ReadSettings
<1>4. ASSUME NEW h \in Requests, NEW mode \in Modes \cup {Keep}, UpdateSettings(h, mode)
      PROVE  ChoiceInv'
  BY <1>2, <1>4 DEF UpdateSettings
<1>5. ASSUME NEW h \in Requests, Pending(h), NEW row \in Nat, NEW mode \in Modes, NEW j,
             j = Resume(job[h], row, mode), j.at = "write"
      PROVE  j.read = mode /\ job[h].then = "write"
  <2>1. job[h].then \in {"read", "write", "seed"}
    BY <1>5, JobShapes
  <2>2. CASE job[h].then = "seed"
    BY <1>5, <2>2 DEF Resume
  <2>3. CASE job[h].then = "read"
    BY <1>5, <2>3 DEF Resume, Idle
  <2>4. CASE job[h].then = "write"
    BY <1>5, <2>4 DEF Resume
  <2> QED
    BY <2>1, <2>2, <2>3, <2>4
<1>6. ASSUME NEW h \in Requests, FindSettings(h) PROVE ChoiceInv'
  <2>1. Pending(h) /\ UNCHANGED <<branches, chosen, old, undone>>
    BY <1>6 DEF FindSettings, Pending
  <2>2. CASE job' = [job EXCEPT ![h].at = "create"]
    <3>1. job'[h].at = "create"
      <4>1. \/ job[h] \in [at: {"find", "create"}, then: {"read", "seed"}, seen: 0..MaxShifts]
            \/ job[h] \in [at: {"find", "create"}, then: {"write"}, mode: Modes \cup {Keep}]
        BY <1>6 DEF FindSettings, TypeOK, Idle, Job
      <4>2. PICK j : j = [job[h] EXCEPT !.at = "create"]
        OBVIOUS
      <4>3. CASE job[h] \in [at: {"find", "create"}, then: {"read", "seed"}, seen: 0..MaxShifts]
        BY <4>2, <4>3, <2>2 DEF TypeOK
      <4>4. CASE job[h] \in [at: {"find", "create"}, then: {"write"}, mode: Modes \cup {Keep}]
        BY <4>2, <4>4, <2>2 DEF TypeOK
      <4> QED
        BY <4>1, <4>3, <4>4
    <3>2. \A g \in Requests \ {h} : job'[g] = job[g]
      BY <2>2 DEF TypeOK
    <3> QED
      BY <2>1, <2>2, <3>1, <3>2, ChoiceKept
  <2>3. ASSUME NEW row \in DOMAIN branches,
               job' = [job EXCEPT ![h] = Resume(@, row, branches[row])]
        PROVE  ChoiceInv'
    <3>1. PICK j : j = Resume(job[h], row, branches[row])
      OBVIOUS
    <3>2. job'[h] = j /\ \A g \in Requests \ {h} : job'[g] = job[g]
      BY <2>3, <3>1 DEF TypeOK
    <3>3. j.at = "write" => j.read = branches[row]
      BY <1>5, <2>1, <3>1, RowsTyped
    <3>4. Len(branches) = 1 => row = 1
      BY <2>3 DEF TypeOK
    <3> QED
      BY <2>1, <2>3, <3>2, <3>3, <3>4 DEF ChoiceInv
  <2> QED
    BY <1>6, <2>2, <2>3 DEF FindSettings
<1>7. ASSUME NEW h \in Requests, CreateSettings(h) PROVE ChoiceInv'
  <2>1. PICK j : j = Resume(job[h], Len(branches) + 1, SeedMode)
    OBVIOUS
  <2>2. job'[h] = j /\ \A g \in Requests \ {h} : job'[g] = job[g]
    BY <1>7, <2>1 DEF CreateSettings, TypeOK
  <2>3. Pending(h) /\ Len(branches) \in Nat /\ branches' = Append(branches, SeedMode)
        /\ chosen' = chosen /\ undone' = undone /\ old' = old /\ SeedMode \in Modes
    BY <1>7, RowsTyped, SettingsAssumption DEF CreateSettings, Pending
  <2>4. j.at = "write" => j.read = SeedMode
    BY <1>5, <2>1, <2>3
  <2>5. Len(branches') = Len(branches) + 1 /\ branches' # <<>>
    BY <2>3 DEF TypeOK
  <2>6. CASE Len(branches') = 1
    <3>1. branches = <<>> /\ branches'[1] = SeedMode
      BY <2>3, <2>5, <2>6 DEF TypeOK
    <3>2. \A g \in Requests : job[g].at # "write"
      BY <3>1 DEF TypeOK
    <3> QED
      BY <2>2, <2>3, <2>4, <2>5, <3>1, <3>2 DEF ChoiceInv
  <2> QED
    BY <2>5, <2>6 DEF ChoiceInv
<1>8. ASSUME NEW h \in Requests, WriteSettings(h) PROVE ChoiceInv'
  <2>1. /\ job[h].row \in DOMAIN branches /\ job[h].read \in Modes
        /\ job[h].mode \in Modes \cup {Keep} /\ job[h].at = "write"
    BY <1>8, JobShapes DEF WriteSettings
  <2>2. PICK m : m = Stored(job[h].mode, job[h].read)
    OBVIOUS
  <2>3. branches' = [branches EXCEPT ![job[h].row] = m] /\ job' = [job EXCEPT ![h] = Idle]
    BY <1>8, <2>2 DEF WriteSettings
  <2>4. Len(branches') = Len(branches) /\ branches # <<>> /\ branches' # <<>>
    <3>1. m \in Modes
      BY <2>1, <2>2 DEF Stored
    <3> QED
      BY <2>1, <2>3, <3>1 DEF TypeOK
  <2>5. job'[h].at # "write" /\ \A g \in Requests \ {h} : job'[g] = job[g]
    BY <2>3 DEF TypeOK, Idle
  <2>6. Len(branches) = 1 => branches'[1] = m
    BY <2>1, <2>3 DEF TypeOK
  <2>7. CASE job[h].mode = Keep
    <3>1. /\ undone' = (undone \/ h \in old) /\ old' = old \ {h}
          /\ chosen' = chosen /\ m = job[h].read
      BY <1>8, <2>2, <2>7 DEF WriteSettings, Stored
    <3>2. Len(branches) = 1 /\ ~ undone' => m = branches[1]
      BY <2>1, <3>1 DEF ChoiceInv
    <3> QED
      BY <2>4, <2>5, <2>6, <3>1, <3>2 DEF ChoiceInv
  <2>8. CASE job[h].mode # Keep
    <3>1. /\ chosen' = job[h].mode /\ m = job[h].mode
          /\ old' = {g \in Requests \ {h} : job[g].at = "write"}
      BY <1>8, <2>2, <2>8 DEF WriteSettings, Stored
    <3> QED
      BY <2>4, <2>5, <2>6, <3>1 DEF ChoiceInv
  <2> QED
    BY <2>7, <2>8
<1>9. ASSUME NEW h \in Requests, ListShifts(h) PROVE ChoiceInv'
  <2>1. CASE job' = job
    BY <1>9, <2>1, ChoiceKept DEF ListShifts
  <2>2. CASE Start(h, [at |-> "find", then |-> "seed", seen |-> made])
    BY <1>2, <1>9, <2>2 DEF ListShifts
  <2> QED
    BY <1>9, <2>1, <2>2 DEF ListShifts
<1>10. ASSUME NEW h \in Requests, SeedShifts(h) PROVE ChoiceInv'
  BY <1>2, <1>10 DEF SeedShifts
<1>11. ASSUME NEW h \in Requests, WipeShifts(h) PROVE ChoiceInv'
  <2>1. PICK j : j = [at |-> "seed", k |-> 1]
    OBVIOUS
  <2>2. j.at # "write" /\ job' = [job EXCEPT ![h] = j]
    BY <1>11, <2>1 DEF WipeShifts
  <2>3. UNCHANGED <<branches, chosen, old, undone>>
    BY <1>11 DEF WipeShifts
  <2> QED
    BY <1>1, <2>2, <2>3
<1>12. ASSUME NEW h \in Requests, SeedShift(h) PROVE ChoiceInv'
  <2>1. PICK j : j = NextDefault(job[h].k)
    OBVIOUS
  <2>2. j.at # "write"
    BY <2>1 DEF NextDefault, Idle
  <2> QED
    BY <1>1, <1>12, <2>1, <2>2 DEF SeedShift
<1>13. ASSUME UNCHANGED <<branches, job, chosen, old, undone>> PROVE ChoiceInv'
  BY <1>13, ChoiceKept
<1>14. ASSUME NEW h \in Requests, CutOff(h) PROVE ChoiceInv'
  <2>1. job'[h].at # "write" /\ \A g \in Requests \ {h} : job'[g] = job[g]
    BY <1>14 DEF CutOff, TypeOK, Idle
  <2> QED
    BY <1>14, <2>1, ChoiceKept DEF CutOff
<1> QED
  BY <1>3, <1>4, <1>6, <1>7, <1>8, <1>9, <1>10, <1>11, <1>12, <1>13, <1>14
     DEF Next, vars, CreateShift, UpdateShift, DeleteShift

\* With one row, the mode chosen last stands until an update that read the row before
\* it writes its mode back: LastChoiceStands holds.
THEOREM ChoiceTheorem == Spec => []LastChoiceStands
<1>1. Init => ChoiceInv
  BY DEF Init, ChoiceInv
<1>2. ChoiceInv => LastChoiceStands
  BY DEF ChoiceInv, LastChoiceStands
<1> QED
  BY <1>1, <1>2, ChoiceStays, Typing, PTL DEF Spec
=============================================================================
