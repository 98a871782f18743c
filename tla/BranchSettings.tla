--------------------------- MODULE BranchSettings ---------------------------
(***************************************************************************)
(* SettingsService: the row of branch settings, which the first read makes *)
(* when there is none, and the shift templates, which the first listing    *)
(* seeds.                                                                  *)
(*                                                                         *)
(* Both updates of the settings read the row and write back what the       *)
(* request leaves out. The store mode stands for the columns of which this *)
(* is so: name, address, openTime, closeTime, phone, email, schedules and  *)
(* emergencyReason besides itself. It does not stand for geofenceRadius,   *)
(* lateGracePeriod and timezone, which the DTO fills with a default before *)
(* the handler runs, nor for the coordinates and isStoreOpen, which every  *)
(* request sends. The table may hold several rows, and findFirst without   *)
(* an order answers any of them.                                           *)
(***************************************************************************)
EXTENDS Naturals, Sequences, FiniteSets

CONSTANTS
    Requests,     \* slots for requests in flight
    Modes,        \* the values of storeMode
    SeedMode,     \* the mode of a row that a read makes
    Keep,         \* a request that leaves the mode out
    DefaultCodes, \* the codes of the default templates, in the order of the loop
    AdminCodes,   \* codes that admins give to templates
    MaxShifts     \* bound on the templates ever made

ASSUME SettingsAssumption ==
    /\ IsFiniteSet(Requests)
    /\ SeedMode \in Modes
    /\ Keep \notin Modes
    /\ DefaultCodes \in Seq(STRING) /\ DefaultCodes # <<>>
    /\ MaxShifts \in Nat

VARIABLES
    branches,     \* the mode of each row of branch_settings
    shifts,       \* the shift templates
    made,         \* the templates made so far; a template's id is its number
    job,          \* handlers in flight
    chosen,       \* history: the mode that was chosen last
    old,          \* history: updates that read their row before that choice
    undone,       \* history: one of them has written its mode over the choice
    whole         \* history: since the last wipe no seeding was cut off and
                  \* no template deleted or renamed

vars == <<branches, shifts, made, job, chosen, old, undone, whole>>

Codes == {DefaultCodes[k] : k \in DOMAIN DefaultCodes} \cup AdminCodes
Shift == [id: 1..MaxShifts, code: Codes, active: BOOLEAN]

Idle == [at |-> "idle"]
Job == [at: {"find", "create"}, then: {"read", "seed"}, seen: 0..MaxShifts]
         \cup [at: {"find", "create"}, then: {"write"}, mode: Modes \cup {Keep}]
         \cup [at: {"write"}, row: Nat, read: Modes, mode: Modes \cup {Keep}]
         \cup [at: {"wipe"}, auto: BOOLEAN, seen: 0..MaxShifts]
         \cup [at: {"seed"}, k: DOMAIN DefaultCodes]

TypeOK ==
    /\ branches \in Seq(Modes)
    /\ shifts \subseteq Shift
    /\ made \in 0..MaxShifts
    /\ job \in [Requests -> Job \cup {Idle}]
    /\ \A h \in Requests : job[h].at = "write" => job[h].row \in DOMAIN branches
    /\ chosen \in Modes
    /\ old \subseteq Requests
    /\ undone \in BOOLEAN
    /\ whole \in BOOLEAN

-----------------------------------------------------------------------------
(* The settings row.                                                       *)

Start(h, j) == job[h] = Idle /\ job' = [job EXCEPT ![h] = j]

\* getBranchSetting and getPublicBranchLocation.
ReadSettings(h) ==
    /\ Start(h, [at |-> "find", then |-> "read", seen |-> 0])
    /\ UNCHANGED <<branches, shifts, made, chosen, old, undone, whole>>

\* updateBranchSetting and updateStoreStatus.
UpdateSettings(h, mode) ==
    /\ Start(h, [at |-> "find", then |-> "write", mode |-> mode])
    /\ UNCHANGED <<branches, shifts, made, chosen, old, undone, whole>>

\* What a handler does once it has the settings.
Resume(j, row, mode) ==
    CASE j.then = "read"  -> Idle
      [] j.then = "write" -> [at |-> "write", row |-> row, read |-> mode, mode |-> j.mode]
      [] j.then = "seed"  -> [at |-> "wipe", auto |-> TRUE, seen |-> j.seen]

\* A read that never finds settings.
NeverFound == TRUE

NoSettings == branches = <<>>

FindSettings(h) ==
    /\ job[h].at = "find"
    /\ \/ /\ NoSettings
          /\ job' = [job EXCEPT ![h].at = "create"]
       \/ \E row \in DOMAIN branches :
            /\ ~ NoSettings
            /\ job' = [job EXCEPT ![h] = Resume(@, row, branches[row])]
    /\ UNCHANGED <<branches, shifts, made, chosen, old, undone, whole>>

\* branchSetting.create with the defaults of the service.
CreateSettings(h) ==
    /\ job[h].at = "create"
    /\ branches' = Append(branches, SeedMode)
    /\ job' = [job EXCEPT ![h] = Resume(@, Len(branches) + 1, SeedMode)]
    /\ UNCHANGED <<shifts, made, chosen, old, undone, whole>>

\* An update that falls back on the default instead of the row.
StoredOrDefault(mode, read) == IF mode = Keep THEN SeedMode ELSE mode

\* dto.storeMode ?? current.storeMode
Stored(mode, read) == IF mode = Keep THEN read ELSE mode

WriteSettings(h) ==
    /\ job[h].at = "write"
    /\ branches' = [branches EXCEPT ![job[h].row] = Stored(job[h].mode, job[h].read)]
    /\ job' = [job EXCEPT ![h] = Idle]
    /\ IF job[h].mode = Keep
       THEN /\ undone' = (undone \/ h \in old)
            /\ old' = old \ {h}
            /\ UNCHANGED chosen
       ELSE /\ chosen' = job[h].mode
            /\ old' = {g \in Requests \ {h} : job[g].at = "write"}
            /\ undone' = FALSE
    /\ UNCHANGED <<shifts, made, whole>>

-----------------------------------------------------------------------------
(* Shift templates.                                                        *)

\* A listing that counts only active templates.
NoActiveShifts == \A t \in shifts : ~ t.active

NoShifts == shifts = {}

\* getShiftTemplates: an empty list is seeded once the settings are known.
ListShifts(h) ==
    /\ IF NoShifts
       THEN Start(h, [at |-> "find", then |-> "seed", seen |-> made])
       ELSE job[h] = Idle /\ UNCHANGED job
    /\ UNCHANGED <<branches, shifts, made, chosen, old, undone, whole>>

\* The seed-defaults request of an admin.
SeedShifts(h) ==
    /\ Start(h, [at |-> "wipe", auto |-> FALSE, seen |-> 0])
    /\ UNCHANGED <<branches, shifts, made, chosen, old, undone, whole>>

\* shiftTemplate.deleteMany
WipeShifts(h) ==
    /\ job[h].at = "wipe"
    /\ shifts' = {}
    /\ job' = [job EXCEPT ![h] = [at |-> "seed", k |-> 1]]
    /\ whole' = TRUE
    /\ UNCHANGED <<branches, made, chosen, old, undone>>

\* A loop that goes on after the last default.
NextTooFar(k) ==
    IF k <= Len(DefaultCodes) THEN [at |-> "seed", k |-> k + 1] ELSE Idle

\* A loop that stops before the last default.
NextButLast(k) ==
    IF k + 1 < Len(DefaultCodes) THEN [at |-> "seed", k |-> k + 1] ELSE Idle

NextDefault(k) ==
    IF k < Len(DefaultCodes) THEN [at |-> "seed", k |-> k + 1] ELSE Idle

AddShift(code, active) ==
    /\ made < MaxShifts
    /\ made' = made + 1
    /\ shifts' = shifts \cup {[id |-> made + 1, code |-> code, active |-> active]}

\* The loop over the defaults, one create after the other.
SeedShift(h) ==
    /\ job[h].at = "seed"
    /\ AddShift(DefaultCodes[job[h].k], TRUE)
    /\ job' = [job EXCEPT ![h] = NextDefault(@.k)]
    /\ UNCHANGED <<branches, chosen, old, undone, whole>>

CreateShift(code, active) ==
    /\ AddShift(code, active)
    /\ UNCHANGED <<branches, job, chosen, old, undone, whole>>

UpdateShift(t, code, active) ==
    /\ shifts' = (shifts \ {t}) \cup {[t EXCEPT !.code = code, !.active = active]}
    /\ whole' = (whole /\ code = t.code)
    /\ UNCHANGED <<branches, made, job, chosen, old, undone>>

DeleteShift(t) ==
    /\ shifts' = shifts \ {t}
    /\ whole' = FALSE
    /\ UNCHANGED <<branches, made, job, chosen, old, undone>>

\* A handler ends where it is, possibly in the middle of the loop over the defaults:
\* a statement fails or the server is gone.
CutOff(h) ==
    /\ job[h] # Idle
    /\ job' = [job EXCEPT ![h] = Idle]
    /\ old' = old \ {h}
    /\ whole' = (whole /\ job[h].at # "seed")
    /\ UNCHANGED <<branches, shifts, made, chosen, undone>>

-----------------------------------------------------------------------------

Init ==
    /\ branches = <<>>
    /\ shifts = {}
    /\ made = 0
    /\ job = [h \in Requests |-> Idle]
    /\ chosen = SeedMode
    /\ old = {}
    /\ undone = FALSE
    /\ whole = FALSE

Next ==
    \/ \E h \in Requests : ReadSettings(h) \/ FindSettings(h) \/ CreateSettings(h)
    \/ \E h \in Requests, mode \in Modes \cup {Keep} : UpdateSettings(h, mode)
    \/ \E h \in Requests : WriteSettings(h) \/ ListShifts(h) \/ SeedShifts(h)
    \/ \E h \in Requests : WipeShifts(h) \/ SeedShift(h)
    \/ \E code \in AdminCodes, active \in BOOLEAN : CreateShift(code, active)
    \/ \E t \in shifts, active \in BOOLEAN : \E code \in AdminCodes \cup {t.code} :
         UpdateShift(t, code, active)
    \/ \E t \in shifts : DeleteShift(t)
    \/ \E h \in Requests : CutOff(h)

Spec == Init /\ [][Next]_vars

-----------------------------------------------------------------------------
(* Properties.                                                             *)

\* First reads that overlap may each make a row of settings, but then no more:
\* there are never more rows than requests that can be in flight together.
RowsPerReader == Len(branches) <= Cardinality(Requests)

\* With one row of settings, the mode chosen last stands, whatever the requests
\* about something else that overlap with it and with each other. It is undone only
\* by an update that read the row before the choice was written and sends no mode of
\* its own, and only until the next choice.
LastChoiceStands == Len(branches) = 1 /\ ~ undone => branches[1] = chosen

\* However seedings overlap, the last one to wipe the list fills it: each
\* default is there or a seeding is still to make it.
DefaultsArrive ==
    whole => \A k \in DOMAIN DefaultCodes :
                \/ \E t \in shifts : t.code = DefaultCodes[k]
                \/ \E h \in Requests : job[h].at = "seed" /\ job[h].k <= k

\* The seeding of an empty list wipes only what was made since it was listed.
AutoSeedSpares ==
    [][\A h \in Requests :
         job[h].at = "wipe" /\ job[h].auto /\ job'[h].at = "seed" =>
           \A t \in shifts \ shifts' : t.id > job[h].seen]_vars
=============================================================================
