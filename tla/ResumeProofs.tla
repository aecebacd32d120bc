----------------------------- MODULE ResumeProofs -----------------------------
(***************************************************************************)
(* That a resumed run is the same run: when -resume may go on              *)
(* (ResumeGateProps), and what the runs of one scan keep between them      *)
(* (ResumeProps).                                                          *)
(***************************************************************************)
EXTENDS ResumeProps, ResumeGateProps, FiniteSetTheorems, SequenceTheorems, TLAPS, WellFoundedInduction

-----------------------------------------------------------------------------
(***************************************************************************)
(* The resume gate.  While the state file is saved it describes the scan   *)
(* that was interrupted, and a resumed run that has passed a check agrees  *)
(* with the state file on what was checked.                                *)
(***************************************************************************)
Contents == [Input -> Content \cup {Gone}]

GateTypes ==
  /\ stable \in BOOLEAN /\ disk \in Contents /\ read \in Contents /\ original.read \in Contents
  /\ gatePc \in {"off", "config", "env", "flags", "excludes", "inputs", "settings", "wordlist", "scan"}
  /\ resumed \in BOOLEAN /\ state.saved \in BOOLEAN
  /\ seedArg \in {Absent} \cup Seeds \cup {0} /\ seedEnv \in Seeds \cup {0} /\ seed \in Seeds \cup {0}

Agreed(a, b) == \A s \in Setting \ Unsaved : a[s] = b[s]

(* The state file and the scan it was saved for.                               *)
StateTells ==
  state.saved =>
    /\ Agreed(state.settings, original.values)
    /\ state.entries = original.read["wordlist"]
    /\ state.seedArg \in Seeds \cup {0}
    /\ state.seedArg # 0 => state.seedArg = original.seed
    /\ stable => state.inputs["excludes"] = original.read["excludes"]

(* A run with a state file is a resumed one.                                   *)
RunAndState ==
  gatePc # "off" => /\ resumed = state.saved
                    /\ resumed => seedArg = state.seedArg

Begun == {"excludes", "inputs", "settings", "wordlist", "scan"}

(* What each step of the start has established.                                *)
Passed ==
  /\ gatePc \in Begun => /\ seed \in Seeds /\ (seedArg \in Seeds => seed = seedArg)
  /\ stable /\ gatePc \in {"inputs", "settings", "wordlist", "scan"} => read["excludes"] = disk["excludes"]
  /\ gatePc \in {"settings", "wordlist", "scan"} /\ resumed /\ stable => state.inputs["excludes"] = disk["excludes"]
  /\ gatePc \in {"wordlist", "scan"} /\ resumed => Agreed(values, state.settings)
  /\ gatePc = "scan" =>
       /\ resumed => read["wordlist"] = state.entries
       /\ ~resumed => original.values = values /\ original.seed = seed /\ original.read = read

GateInv == GateTypes /\ StateTells /\ RunAndState /\ Passed

LEMMA EditKeepsGate ==
  ASSUME GateInv, Edit
  PROVE  GateInv'
<1>1. /\ UNCHANGED <<gatePc, args, seedArg, resumed, values, unfit, seed, read, state, original>>
      /\ stable' \in BOOLEAN /\ disk' \in Contents /\ seedEnv' \in Seeds \cup {0}
      /\ stable' => stable
      /\ stable' /\ gatePc # "off" => disk' = disk
  <2>1. UNCHANGED <<gatePc, args, seedArg, resumed, values, unfit, seed, read, state, original>>
    BY DEF Edit, startVars
  <2>2. CASE UNCHANGED <<disk, stable>> /\ seedEnv' \in Seeds \cup {0}
    BY <2>1, <2>2 DEF GateInv, GateTypes
  <2>3. CASE UNCHANGED seedEnv /\ stable' = (stable /\ gatePc = "off")
             /\ \E i \in Input, c \in Content \cup {Gone} : disk' = [disk EXCEPT ![i] = c]
    BY <2>1, <2>3 DEF GateInv, GateTypes, Contents
  <2>4. QED BY <2>2, <2>3 DEF Edit, GateInv, GateTypes
<1>2. GateTypes' /\ StateTells' /\ RunAndState'
  BY <1>1 DEF GateInv, GateTypes, StateTells, RunAndState
<1>3. Passed'
  BY <1>1 DEF GateInv, Passed, Begun
<1>4. QED BY <1>2, <1>3 DEF GateInv

LEMMA StartKeepsGate ==
  ASSUME GateInv, StartNew \/ StartResumed
  PROVE  GateInv'
<1>1. /\ gatePc' = "config" /\ resumed' = state.saved /\ UNCHANGED <<seedEnv, disk, state, original>>
      /\ seed' = 0 /\ read' = Unread /\ stable' \in BOOLEAN /\ (state.saved => stable' = stable)
      /\ seedArg' = IF state.saved THEN state.seedArg ELSE seedArg
  BY DEF StartNew, StartResumed, Begin, userVars, GateInv, GateTypes
<1>2. read' \in Contents
  BY <1>1 DEF Unread, Contents
<1>3. GateTypes'
  BY <1>1, <1>2 DEF GateInv, GateTypes, StateTells
<1>4. StateTells' /\ RunAndState' /\ Passed'
  BY <1>1 DEF GateInv, StateTells, RunAndState, Passed, Begun
<1>5. QED BY <1>3, <1>4 DEF GateInv

LEMMA SettingsKeepGate ==
  ASSUME GateInv, ApplyConfig \/ ApplyEnv \/ ParseFlags \/ CheckInputs \/ CheckSettings
  PROVE  GateInv'
<1>1. UNCHANGED <<stable, disk, seedEnv, read, state, original, resumed, args, seedArg>>
  BY DEF ApplyConfig, ApplyEnv, Apply, ParseFlags, CheckInputs, CheckSettings, userVars, startVars
<1>2. StateTells'
  BY <1>1 DEF GateInv, StateTells
<1>3. CASE gatePc' = "off" /\ seed' = seed
  BY <1>1, <1>2, <1>3 DEF GateInv, GateTypes, RunAndState, Passed, Begun
<1>4. CASE ApplyConfig \/ ApplyEnv
  <2>1. gatePc \in {"config", "env"} /\ gatePc' \in {"env", "flags"} /\ seed' = seed
    BY <1>4 DEF ApplyConfig, ApplyEnv, Apply
  <2>2. QED BY <1>1, <1>2, <2>1 DEF GateInv, GateTypes, RunAndState, Passed, Begun
<1>5. CASE ParseFlags /\ gatePc' # "off"
  <2>1. gatePc = "flags" /\ gatePc' = "excludes"
    BY <1>5 DEF ParseFlags, Refuse
  <2>2. PICK given : /\ given = IF seedArg # Absent THEN seedArg ELSE seedEnv
                     /\ seed' \in (IF given = 0 THEN Seeds ELSE {given})
    BY <1>5 DEF ParseFlags, Refuse
  <2>3. given \in Seeds \cup {0} /\ (seedArg \in Seeds => given = seedArg)
    BY <2>2, GateAssumption DEF GateInv, GateTypes, Seeds
  <2>4. seed' \in Seeds /\ (seedArg \in Seeds => seed' = seedArg)
    BY <2>2, <2>3 DEF Seeds
  <2>5. QED BY <1>1, <1>2, <2>1, <2>4 DEF GateInv, GateTypes, RunAndState, Passed, Begun
<1>6. CASE CheckInputs /\ gatePc' # "off"
  <2>1. /\ gatePc = "inputs" /\ gatePc' = "settings" /\ UNCHANGED <<seed, values>>
        /\ resumed => state.inputs = Digests
    BY <1>6 DEF CheckInputs, Refuse, startVars
  <2>2. Digests["excludes"] = disk["excludes"]
    BY DEF Digests, Digested, Input
  <2>3. QED BY <1>1, <1>2, <2>1, <2>2 DEF GateInv, GateTypes, RunAndState, Passed, Begun
<1>7. CASE CheckSettings /\ gatePc' # "off"
  <2>1. /\ gatePc = "settings" /\ gatePc' = "wordlist" /\ UNCHANGED <<seed, values>>
        /\ resumed => Agreed(values, state.settings)
    BY <1>7 DEF CheckSettings, Refuse, startVars, SameSetting, Agreed
  <2>2. Agreed(values, state.settings)' <=> Agreed(values, state.settings)
    BY <1>1, <2>1
  <2>3. QED BY <1>1, <1>2, <2>1, <2>2 DEF GateInv, GateTypes, RunAndState, Passed, Begun
<1>8. seed' = seed \/ ParseFlags
  BY DEF ApplyConfig, ApplyEnv, Apply, CheckInputs, CheckSettings, startVars
<1>9. ParseFlags /\ gatePc' = "off" => seed' = seed
  BY DEF ParseFlags, Refuse
<1>10. QED BY <1>3, <1>4, <1>5, <1>6, <1>7, <1>8, <1>9

LEMMA ReadsKeepGate ==
  ASSUME GateInv, LoadExcludes \/ ReadWordlist
  PROVE  GateInv'
<1>1. /\ UNCHANGED <<stable, disk, seedEnv, state, resumed, args, seedArg, values, seed>>
      /\ disk \in Contents /\ read \in Contents
  BY DEF LoadExcludes, ReadWordlist, userVars, GateInv, GateTypes
<1>2. CASE LoadExcludes
  <2>1. /\ gatePc = "excludes" /\ gatePc' \in {"off", "inputs"} /\ UNCHANGED original
        /\ read' = [read EXCEPT !["excludes"] = disk["excludes"]]
    BY <1>2 DEF LoadExcludes, Refuse
  <2>2. read' \in Contents /\ read'["excludes"] = disk["excludes"]
    BY <1>1, <2>1 DEF Contents, Input
  <2>3. QED BY <1>1, <2>1, <2>2 DEF GateInv, GateTypes, StateTells, RunAndState, Passed, Begun
<1>3. CASE ReadWordlist
  <2>1. /\ gatePc = "wordlist" /\ gatePc' \in {"off", "scan"}
        /\ read' = [read EXCEPT !["wordlist"] = disk["wordlist"]]
    BY <1>3 DEF ReadWordlist, Refuse
  <2>2. read' \in Contents /\ read'["excludes"] = read["excludes"]
    BY <1>1, <2>1 DEF Contents, Input
  <2>3. CASE gatePc' = "off"
    <3>1. UNCHANGED original
      BY <1>3, <2>3 DEF ReadWordlist
    <3>2. QED BY <1>1, <2>2, <2>3, <3>1 DEF GateInv, GateTypes, StateTells, RunAndState, Passed, Begun
  <2>4. CASE gatePc' = "scan" /\ resumed
    <3>1. UNCHANGED original /\ read'["wordlist"] = state.entries
      BY <1>3, <2>4 DEF ReadWordlist, Refuse
    <3>2. QED BY <1>1, <2>1, <2>2, <2>4, <3>1 DEF GateInv, GateTypes, StateTells, RunAndState, Passed, Begun
  <2>5. CASE gatePc' = "scan" /\ ~resumed
    <3>1. original'.values = values /\ original'.seed = seed /\ original'.read = read'
      BY <1>3, <2>5 DEF ReadWordlist, Refuse
    <3>2. ~state.saved
      BY <2>1, <2>5 DEF GateInv, RunAndState
    <3>3. QED BY <1>1, <2>1, <2>2, <2>5, <3>1, <3>2
              DEF GateInv, GateTypes, StateTells, RunAndState, Passed, Begun
  <2>6. QED BY <2>1, <2>3, <2>4, <2>5 DEF GateInv, GateTypes
<1>4. QED BY <1>2, <1>3

LEMMA EndsKeepGate ==
  ASSUME GateInv, Interrupted \/ Ends
  PROVE  GateInv'
<1>1. /\ gatePc = "scan" /\ gatePc' = "off"
      /\ UNCHANGED <<stable, disk, seedEnv, resumed, args, seedArg, values, seed, read, original>>
  BY DEF Interrupted, Ends, userVars, startVars
<1>2. /\ Agreed(values, original.values) /\ read["wordlist"] = original.read["wordlist"]
      /\ stable => disk["excludes"] = original.read["excludes"]
      /\ WithSeed \in Seeds \cup {0} /\ (WithSeed # 0 => WithSeed = original.seed)
  <2>1. CASE resumed
    <3>1. /\ state.saved /\ Agreed(values, state.settings) /\ Agreed(state.settings, original.values)
          /\ read["wordlist"] = state.entries /\ state.entries = original.read["wordlist"]
      BY <1>1, <2>1 DEF GateInv, RunAndState, Passed, StateTells
    <3>2. stable => disk["excludes"] = original.read["excludes"]
      BY <1>1, <2>1, <3>1 DEF GateInv, Passed, StateTells
    <3>3. seedArg \in Seeds \cup {0} /\ (seedArg # 0 => seedArg = original.seed)
      BY <1>1, <2>1, <3>1 DEF GateInv, RunAndState, StateTells
    <3>4. WithSeed = seedArg
      BY <3>3, GateAssumption DEF WithSeed, Seeds
    <3>5. QED BY <3>1, <3>2, <3>3, <3>4 DEF Agreed
  <2>2. CASE ~resumed
    <3>1. original.values = values /\ original.seed = seed /\ original.read = read
      BY <1>1, <2>2 DEF GateInv, Passed
    <3>2. seed \in Seeds /\ (seedArg \in Seeds => seed = seedArg) /\ (stable => read["excludes"] = disk["excludes"])
      BY <1>1 DEF GateInv, Passed, Begun
    <3>3. WithSeed \in Seeds \cup {0} /\ (WithSeed # 0 => WithSeed = seed)
      BY <3>2 DEF WithSeed, GateInv, GateTypes
    <3>4. QED BY <3>1, <3>2, <3>3 DEF Agreed
  <2>3. QED BY <2>1, <2>2 DEF GateInv, GateTypes
<1>3. CASE UNCHANGED state
  BY <1>1, <1>3 DEF GateInv, GateTypes, StateTells, RunAndState, Passed, Begun
<1>4. CASE state' = NothingSaved
  <2>1. state'.saved = FALSE
    BY <1>4 DEF NothingSaved
  <2>2. QED BY <1>1, <2>1 DEF GateInv, GateTypes, StateTells, RunAndState, Passed, Begun
<1>5. CASE /\ state'.saved = TRUE /\ state'.seedArg = WithSeed /\ state'.inputs = Digests
           /\ state'.entries = read["wordlist"]
           /\ state'.settings = [s \in Setting \ Unsaved |-> values[s]]
  <2>1. Digests["excludes"] = disk["excludes"]
    BY DEF Digests, Digested, Input
  <2>2. Agreed(state'.settings, original.values)
    BY <1>2, <1>5 DEF Agreed
  <2>3. StateTells'
    BY <1>1, <1>2, <1>5, <2>1, <2>2 DEF StateTells
  <2>4. QED BY <1>1, <1>5, <2>3 DEF GateInv, GateTypes, RunAndState, Passed, Begun
<1>6. CASE Interrupted /\ Readable
  <2>1. state' = [saved |-> TRUE, args |-> args, seedArg |-> WithSeed, inputs |-> Digests,
                  entries |-> read["wordlist"],
                  settings |-> [s \in Setting \ Unsaved |-> values[s]]]
    BY <1>6 DEF Interrupted
  <2>2. QED BY <1>5, <2>1
<1>7. CASE Ends \/ (Interrupted /\ ~Readable)
  BY <1>3, <1>4, <1>7 DEF Interrupted, Ends
<1>8. QED BY <1>6, <1>7

(* A resumed run goes on with the interrupted scan, after any number of runs   *)
(* and changes by the user: the same settings, entries and, with no input      *)
(* changed during a run, the same files (#109).                                *)
THEOREM ResumedIsSameScan == GateSpec => []ResumesSameScan
<1>1. GateInit => GateInv
  <2>1. SUFFICES ASSUME GateInit PROVE GateInv
    OBVIOUS
  <2>2. read \in Contents /\ original.read \in Contents /\ disk \in Contents
    BY <2>1 DEF GateInit, Contents, Unread
  <2>3. QED BY <2>1, <2>2 DEF GateInit, GateInv, GateTypes, StateTells, RunAndState, Passed, Begun,
               NothingSaved, Seeds
<1>2. GateInv /\ [GateNext]_gateVars => GateInv'
  <2>1. CASE UNCHANGED gateVars
    BY <2>1 DEF gateVars, userVars, startVars, GateInv, GateTypes, StateTells, RunAndState, Passed
  <2>2. QED BY <2>1, EditKeepsGate, StartKeepsGate, SettingsKeepGate, ReadsKeepGate, EndsKeepGate DEF GateNext
<1>3. GateInv => ResumesSameScan
  <2>1. SUFFICES ASSUME GateInv, gatePc = "scan", resumed
                 PROVE  /\ \A s \in Setting \ Unsaved : values[s] = original.values[s]
                        /\ read["wordlist"] = original.read["wordlist"]
                        /\ stable => read = original.read
                        /\ seedArg # 0 => seed = original.seed
    BY DEF ResumesSameScan
  <2>2. /\ state.saved /\ Agreed(values, state.settings) /\ Agreed(state.settings, original.values)
        /\ read["wordlist"] = original.read["wordlist"]
    BY <2>1 DEF GateInv, RunAndState, Passed, StateTells
  <2>3. stable => read["excludes"] = original.read["excludes"]
    BY <2>1, <2>2 DEF GateInv, Passed, StateTells
  <2>4. read \in Contents /\ original.read \in Contents
    BY <2>1 DEF GateInv, GateTypes
  <2>5. stable => read = original.read
    BY <2>2, <2>3, <2>4 DEF Contents, Input
  <2>6. seedArg # 0 => seed = original.seed
    BY <2>1, <2>2 DEF GateInv, RunAndState, StateTells, Passed, Begun
  <2>7. QED BY <2>2, <2>5, <2>6 DEF Agreed
<1>4. QED BY <1>1, <1>2, <1>3, PTL DEF GateSpec

-----------------------------------------------------------------------------
(***************************************************************************)
(* The runs of one scan.  First what kind of values the variables hold.    *)
(***************************************************************************)
AtWork == {"preflight", "main", "permute", "permPreflight", "perm", "status"}
Phases == AtWork \cup {"next", "over", "commit", "exited", "killed"}

PermFields == {"done", "rootDone", "processed", "started"}
ResultFields == {"done", "failed", "abort", "rootDone", "processed", "perm"}
PassFields == {"list", "deep", "from", "next", "cap", "seen", "kids", "flight", "heard", "marks",
               "begun", "counted", "failures", "tripped"}

HasPerm(t) == DOMAIN t.perm = PermFields

RunShape ==
  /\ world \in World /\ phase \in Phases /\ at \in Nat \ {0}
  /\ phase \in AtWork => at \in TargetIndex
  /\ DOMAIN result = TargetIndex /\ DOMAIN pass = PassFields
  /\ \A i \in TargetIndex : DOMAIN result[i] = ResultFields /\ HasPerm(result[i])
  /\ resume # NoState => \A i \in TargetIndex : HasPerm(resume[i])
  /\ file # NoState => \A i \in TargetIndex : HasPerm(file[i])

(***************************************************************************)
(* The budget.  What a pass may still hand out and what the earlier runs   *)
(* have had answered make up the cap; a lookup is counted once, when it    *)
(* leaves those in flight.                                                 *)
(***************************************************************************)
InBudget(t) ==
  /\ t.processed \in Nat /\ t.perm.processed \in Nat
  /\ world.maxQueries > 0 =>
       t.processed <= world.maxQueries /\ t.perm.processed <= world.maxQueries

PassCounts ==
  /\ pass.begun \in Nat /\ pass.counted \in Nat /\ pass.cap \in Int /\ IsFiniteSet(pass.flight)
  /\ pass.counted + Cardinality(pass.flight) <= pass.begun
  /\ pass.cap > 0 => pass.begun <= pass.cap
  /\ \A job \in pass.flight : job.name \in pass.seen

Prior == IF Resuming THEN Saved.processed ELSE 0
PermPrior == IF PermSaved THEN Saved.perm.processed ELSE 0

CapIsLeft ==
  world.maxQueries > 0 =>
    /\ phase = "preflight" => Prior < world.maxQueries
    /\ phase = "permPreflight" => PermPrior < world.maxQueries
    /\ phase = "main" => pass.cap > 0 /\ pass.cap + Prior = world.maxQueries
    /\ phase = "perm" => pass.cap > 0 /\ pass.cap + PermPrior = world.maxQueries

BudgetInv ==
  /\ RunShape /\ PassCounts /\ CapIsLeft
  /\ \A i \in TargetIndex : InBudget(result[i])
  /\ resume # NoState => \A i \in TargetIndex : InBudget(resume[i])
  /\ file # NoState => \A i \in TargetIndex : InBudget(file[i])

(* A job begun joins those in flight; one answered leaves them. *)
LEMMA FlightCounts ==
  ASSUME NEW F, IsFiniteSet(F), NEW j
  PROVE  /\ Cardinality(F) \in Nat /\ IsFiniteSet(F \cup {j}) /\ IsFiniteSet(F \ {j})
         /\ j \notin F => Cardinality(F \cup {j}) = Cardinality(F) + 1
         /\ j \in F => Cardinality(F \ {j}) = Cardinality(F) - 1
  BY FS_CardinalityType, FS_AddElement, FS_RemoveElement

LEMMA NewPassCounts ==
  ASSUME NEW list, NEW from, NEW parents, NEW deep, NEW cap,
         pass' = NewPass(list, from, parents, deep, cap)
  PROVE  /\ DOMAIN pass' = PassFields /\ pass'.cap = cap /\ pass'.begun = 0 /\ pass'.counted = 0
         /\ pass'.flight = {} /\ pass'.seen = {} /\ pass'.heard = {} /\ pass'.tripped = FALSE
  BY DEF NewPass, PassFields

LEMMA EmptyPassCounts ==
  ASSUME pass'.cap \in Int, pass'.begun = 0, pass'.counted = 0, pass'.flight = {}
  PROVE  PassCounts'
<1>1. IsFiniteSet({}) /\ Cardinality({}) = 0
  BY FS_EmptySet
<1>2. QED BY <1>1 DEF PassCounts

(* The scan. *)
LEMMA DispatchKeepsBudget ==
  ASSUME BudgetInv, Dispatch, UNCHANGED world
  PROVE  BudgetInv'
<1>1. /\ UNCHANGED <<world, phase, at, result, resume, file>> /\ Scanning /\ ~CapReached
      /\ DOMAIN pass = PassFields
  BY DEF Dispatch, diskVars, endVars, BudgetInv, RunShape
<1>2. PICK job, next, kids : Hand(job, next, kids)
  BY DEF Dispatch
<1>3. /\ pass.begun \in Nat /\ pass.counted \in Nat /\ pass.cap \in Int /\ IsFiniteSet(pass.flight)
      /\ pass.counted + Cardinality(pass.flight) <= pass.begun
      /\ pass.cap > 0 => pass.begun < pass.cap
      /\ \A j \in pass.flight : j.name \in pass.seen
  BY <1>1 DEF BudgetInv, PassCounts, CapReached
<1>4. /\ DOMAIN pass' = PassFields /\ pass'.cap = pass.cap /\ pass'.counted = pass.counted
      /\ \/ /\ pass'.begun = pass.begun /\ pass'.flight = pass.flight /\ pass'.seen = pass.seen
         \/ /\ pass'.begun = pass.begun + 1 /\ pass'.flight = pass.flight \cup {job}
            /\ pass'.seen = pass.seen \cup {job.name} /\ job.name \notin pass.seen
  <2>1. CASE job.name \in pass.seen
    BY <1>1, <1>2, <2>1 DEF Hand, PassFields
  <2>2. CASE job.name \notin pass.seen
    BY <1>1, <1>2, <2>2 DEF Hand, PassFields
  <2>3. QED BY <2>1, <2>2
<1>5. PassCounts'
  <2>1. job.name \notin pass.seen => job \notin pass.flight
    BY <1>3
  <2>2. Cardinality(pass.flight) \in Nat /\ IsFiniteSet(pass.flight \cup {job})
        /\ (job \notin pass.flight => Cardinality(pass.flight \cup {job}) = Cardinality(pass.flight) + 1)
    BY <1>3, FlightCounts
  <2>3. CASE pass'.flight = pass.flight /\ pass'.begun = pass.begun /\ pass'.seen = pass.seen
    BY <1>3, <1>4, <2>3 DEF PassCounts
  <2>4. CASE /\ pass'.begun = pass.begun + 1 /\ pass'.flight = pass.flight \cup {job}
             /\ pass'.seen = pass.seen \cup {job.name} /\ job.name \notin pass.seen
    <3>1. Cardinality(pass'.flight) = Cardinality(pass.flight) + 1 /\ IsFiniteSet(pass'.flight)
      BY <2>1, <2>2, <2>4
    <3>2. pass'.counted + Cardinality(pass'.flight) <= pass'.begun /\ (pass'.cap > 0 => pass'.begun <= pass'.cap)
      BY <1>3, <1>4, <2>2, <2>4, <3>1
    <3>3. QED BY <1>3, <1>4, <2>4, <3>1, <3>2 DEF PassCounts
  <2>5. QED BY <1>4, <2>3, <2>4
<1>6. RunShape' /\ CapIsLeft'
  BY <1>1, <1>4 DEF BudgetInv, RunShape, CapIsLeft, Prior, PermPrior, PermSaved, Resuming, Saved, TargetIndex,
     HasPerm
<1>7. QED BY <1>1, <1>5, <1>6 DEF BudgetInv, InBudget, TargetIndex

LEMMA AnswerKeepsBudget ==
  ASSUME BudgetInv, NEW job, NEW o, Answer(job, o), UNCHANGED world
  PROVE  BudgetInv'
<1>1. /\ UNCHANGED <<world, phase, at, result, resume, file>> /\ DOMAIN pass = PassFields
      /\ job \in pass.flight
  BY DEF Answer, diskVars, endVars, BudgetInv, RunShape
<1>2. /\ DOMAIN pass' = PassFields /\ pass'.cap = pass.cap /\ pass'.counted = pass.counted + 1
      /\ pass'.begun = pass.begun /\ pass'.flight = pass.flight \ {job} /\ pass'.seen = pass.seen
  BY <1>1 DEF Answer, PassFields
<1>3. PassCounts'
  <2>1. /\ Cardinality(pass.flight) \in Nat /\ IsFiniteSet(pass.flight \ {job})
        /\ Cardinality(pass.flight \ {job}) = Cardinality(pass.flight) - 1
    BY <1>1, FlightCounts DEF BudgetInv, PassCounts
  <2>2. QED BY <1>2, <2>1 DEF BudgetInv, PassCounts
<1>4. RunShape' /\ CapIsLeft'
  BY <1>1, <1>2 DEF BudgetInv, RunShape, CapIsLeft, Prior, PermPrior, PermSaved, Resuming, Saved, TargetIndex,
     HasPerm
<1>5. QED BY <1>1, <1>3, <1>4 DEF BudgetInv, InBudget, TargetIndex

LEMMA ReportKeepsBudget ==
  ASSUME BudgetInv, UNCHANGED world, Trip \/ \E job, isHit : Complete(job, isHit)
  PROVE  BudgetInv'
<1>1. /\ UNCHANGED <<world, phase, at, result, resume, file>> /\ DOMAIN pass = PassFields
  BY DEF Trip, Complete, diskVars, endVars, BudgetInv, RunShape
<1>2. /\ DOMAIN pass' = PassFields /\ pass'.cap = pass.cap /\ pass'.counted = pass.counted
      /\ pass'.begun = pass.begun /\ pass'.flight = pass.flight /\ pass'.seen = pass.seen
  BY <1>1 DEF Trip, Complete, PassFields
<1>3. PassCounts'
  BY <1>2 DEF BudgetInv, PassCounts
<1>4. RunShape' /\ CapIsLeft'
  BY <1>1, <1>2 DEF BudgetInv, RunShape, CapIsLeft, Prior, PermPrior, PermSaved, Resuming, Saved, TargetIndex,
     HasPerm
<1>5. QED BY <1>1, <1>3, <1>4 DEF BudgetInv, InBudget, TargetIndex

(* The target loop.  It changes the result of the current target only.         *)
LEMMA ResultChanges ==
  ASSUME BudgetInv, UNCHANGED <<world, resume, file>>, phase' \in Phases, at' \in Nat \ {0},
         phase' \in AtWork => at' \in TargetIndex,
         NEW r, at \in TargetIndex, result' = [result EXCEPT ![at] = r],
         DOMAIN r = ResultFields, HasPerm(r), InBudget(r),
         DOMAIN pass' = PassFields, PassCounts', CapIsLeft'
  PROVE  BudgetInv'
<1>1. /\ DOMAIN result' = TargetIndex
      /\ \A i \in TargetIndex : result'[i] = IF i = at THEN r ELSE result[i]
  BY DEF BudgetInv, RunShape
<1>2. TargetIndex' = TargetIndex
  BY DEF TargetIndex
<1>3. RunShape'
  BY <1>1, <1>2 DEF BudgetInv, RunShape, HasPerm
<1>4. \A i \in TargetIndex : InBudget(result[i])'
  BY <1>1 DEF BudgetInv, InBudget
<1>5. QED BY <1>2, <1>3, <1>4 DEF BudgetInv, InBudget

LEMMA SamePass ==
  ASSUME BudgetInv, UNCHANGED pass
  PROVE  DOMAIN pass' = PassFields /\ PassCounts'
  BY DEF BudgetInv, RunShape, PassCounts

LEMMA BeginKeepsBudget ==
  ASSUME BudgetInv, SkipFinished \/ BeginTarget, UNCHANGED world
  PROVE  BudgetInv'
<1>1. /\ UNCHANGED <<resume, file, pass>> /\ at \in TargetIndex /\ at \in Nat \ {0} /\ world \in World
  BY DEF SkipFinished, BeginTarget, diskVars, BudgetInv, RunShape, TargetIndex, World
<1>2. DOMAIN pass' = PassFields /\ PassCounts'
  BY <1>1, SamePass
<1>3. Resuming => InBudget(Saved)
  BY <1>1 DEF Resuming, Saved, BudgetInv
<1>4. /\ DOMAIN Fresh0 = ResultFields /\ HasPerm(Fresh0) /\ InBudget(Fresh0)
  BY <1>1 DEF Fresh0, NoPerm, ResultFields, PermFields, HasPerm, InBudget, World
<1>5. ASSUME Resuming
      PROVE  LET r == [Fresh0 EXCEPT !.done = TRUE, !.rootDone = Saved.rootDone, !.processed = Saved.processed]
             IN DOMAIN r = ResultFields /\ HasPerm(r) /\ InBudget(r)
  BY <1>1, <1>3, <1>5 DEF Fresh0, NoPerm, ResultFields, PermFields, HasPerm, InBudget, World
<1>6. CASE SkipFinished
  <2>1. /\ Resuming /\ phase' = phase /\ phase = "next" /\ at' = at + 1
        /\ result' = [result EXCEPT ![at] =
             [Fresh0 EXCEPT !.done = TRUE, !.rootDone = Saved.rootDone, !.processed = Saved.processed]]
    BY <1>6 DEF SkipFinished
  <2>2. at' \in Nat \ {0} /\ phase' \in Phases \ AtWork /\ CapIsLeft'
    BY <1>1, <2>1 DEF Phases, AtWork, CapIsLeft
  <2>3. QED BY <1>1, <1>2, <1>5, <2>1, <2>2, ResultChanges
<1>7. CASE BeginTarget /\ ~(Resuming /\ Spent(Saved.processed))
  <2>1. phase' = "preflight" /\ at' = at /\ result' = [result EXCEPT ![at] = Fresh0]
    BY <1>7 DEF BeginTarget
  <2>2. CapIsLeft'
    <3>1. world.maxQueries \in Nat
      BY <1>1 DEF World
    <3>2. world.maxQueries > 0 => Prior < world.maxQueries
      BY <1>3, <1>7, <3>1 DEF Prior, Spent, Left, InBudget
    <3>3. Prior' = Prior
      BY <1>1, <2>1 DEF Prior, Resuming, Saved
    <3>4. QED BY <2>1, <3>2, <3>3 DEF CapIsLeft
  <2>3. phase' \in Phases
    BY <2>1 DEF Phases, AtWork
  <2>4. QED BY <1>1, <1>2, <1>4, <2>1, <2>2, <2>3, ResultChanges
<1>8. CASE BeginTarget /\ Resuming /\ Spent(Saved.processed)
  <2>1. /\ phase' = "permute" /\ at' = at
        /\ result' = [result EXCEPT ![at] =
             [Fresh0 EXCEPT !.done = TRUE, !.rootDone = Saved.rootDone, !.processed = Saved.processed]]
    BY <1>8 DEF BeginTarget
  <2>2. phase' \in Phases /\ CapIsLeft'
    BY <2>1 DEF Phases, AtWork, CapIsLeft
  <2>3. QED BY <1>1, <1>2, <1>5, <1>8, <2>1, <2>2, ResultChanges
<1>9. QED BY <1>6, <1>7, <1>8

(* Nothing changes but what the budget does not depend on. *)
LEMMA SameCounts ==
  ASSUME BudgetInv, UNCHANGED <<world, resume, file, result>>, phase' \in Phases, at' \in Nat \ {0},
         phase' \in AtWork => at' \in TargetIndex,
         DOMAIN pass' = PassFields, PassCounts', CapIsLeft'
  PROVE  BudgetInv'
<1>1. TargetIndex' = TargetIndex
  BY DEF TargetIndex
<1>2. RunShape'
  BY <1>1 DEF BudgetInv, RunShape, HasPerm
<1>3. QED BY <1>1, <1>2 DEF BudgetInv, InBudget

(* What a pass has counted fits in what the earlier runs left of the cap. *)
LEMMA CountedFits ==
  ASSUME BudgetInv, world.maxQueries > 0, at \in TargetIndex
  PROVE  /\ phase = "main" => pass.counted + Prior <= world.maxQueries
         /\ phase = "perm" => pass.counted + PermPrior <= world.maxQueries
<1>1. /\ Prior \in Nat /\ PermPrior \in Nat /\ world.maxQueries \in Nat
  BY DEF BudgetInv, RunShape, InBudget, Prior, PermPrior, PermSaved, Resuming, Saved, World
<1>2. pass.counted <= pass.begun
  BY FS_CardinalityType DEF BudgetInv, PassCounts
<1>3. pass.cap > 0 => pass.counted <= pass.cap
  BY <1>2 DEF BudgetInv, PassCounts
<1>4. QED BY <1>1, <1>3 DEF BudgetInv, CapIsLeft, PassCounts

LEMMA StopKeepsBudget ==
  ASSUME BudgetInv, UNCHANGED <<world, resume, file, at>>, at \in TargetIndex, NEW failed, NEW next,
         Stop(failed, next), next \in {"permute", "status"}
  PROVE  BudgetInv'
<1>1. /\ phase' = next /\ result' = [result EXCEPT ![at] = [result[at] EXCEPT !.failed = @ \/ failed]]
      /\ UNCHANGED pass
  BY DEF Stop
<1>2. DOMAIN pass' = PassFields /\ PassCounts' /\ phase' \in Phases /\ CapIsLeft'
  BY <1>1, SamePass DEF Phases, AtWork, CapIsLeft
<1>3. /\ DOMAIN [result[at] EXCEPT !.failed = @ \/ failed] = ResultFields
      /\ HasPerm([result[at] EXCEPT !.failed = @ \/ failed])
      /\ InBudget([result[at] EXCEPT !.failed = @ \/ failed])
  BY DEF BudgetInv, RunShape, HasPerm, InBudget, ResultFields
<1>4. at' \in Nat \ {0}
  BY DEF BudgetInv, RunShape
<1>5. QED BY <1>1, <1>2, <1>3, <1>4, ResultChanges

LEMMA PreflightKeepsBudget ==
  ASSUME BudgetInv, Preflight, UNCHANGED world
  PROVE  BudgetInv'
<1>1. /\ UNCHANGED <<resume, file, at>> /\ at \in TargetIndex /\ at \in Nat \ {0} /\ world \in World
      /\ phase = "preflight" /\ world.maxQueries \in Nat
  BY DEF Preflight, diskVars, BudgetInv, RunShape, AtWork, World
<1>2. CASE \E failed \in BOOLEAN : Stop(failed, "permute")
  BY <1>1, <1>2, StopKeepsBudget
<1>3. CASE ~\E failed \in BOOLEAN : Stop(failed, "permute")
  <2> DEFINE left == IF world.maxQueries = 0 THEN 0 ELSE world.maxQueries - Prior
  <2>1. Prior \in Nat /\ (world.maxQueries > 0 => Prior < world.maxQueries)
    BY <1>1 DEF BudgetInv, InBudget, CapIsLeft, Prior, Resuming, Saved
  <2>2. left \in Int /\ (world.maxQueries > 0 => left > 0 /\ left + Prior = world.maxQueries)
    BY <1>1, <2>1
  <2>3. UNCHANGED result /\ phase' = "main"
    BY <1>3 DEF Preflight
  <2>4. \E from, parents : pass' = NewPass(Candidates(logs[at]), from, parents, world.recursive, left)
    <3>1. CASE Resuming
      BY <1>3, <3>1 DEF Preflight, Left, Prior
    <3>2. CASE ~Resuming
      <4>1. left = world.maxQueries
        BY <1>1, <3>2 DEF Prior
      <4>2. QED BY <1>3, <3>2, <4>1 DEF Preflight
    <3>3. QED BY <3>1, <3>2
  <2>5. /\ DOMAIN pass' = PassFields /\ pass'.cap = left /\ pass'.begun = 0 /\ pass'.counted = 0
        /\ pass'.flight = {}
    <3>1. PICK from, parents : pass' = NewPass(Candidates(logs[at]), from, parents, world.recursive, left)
      BY <2>4
    <3> HIDE DEF left
    <3>2. QED BY <2>2, <3>1, NewPassCounts
  <2>6. PassCounts'
    BY <2>2, <2>5, EmptyPassCounts
  <2>7. CapIsLeft' /\ phase' \in Phases
    BY <1>1, <2>2, <2>3, <2>5 DEF CapIsLeft, Phases, AtWork, Prior, Resuming, Saved
  <2>8. QED BY <1>1, <2>3, <2>5, <2>6, <2>7, SameCounts
<1>4. QED BY <1>2, <1>3

LEMMA NoPassCounts ==
  ASSUME pass' = NoPass
  PROVE  DOMAIN pass' = PassFields /\ PassCounts'
<1>1. 0 \in Int /\ pass' = NewPass(<<>>, 0, {}, FALSE, 0)
  BY DEF NoPass
<1>2. /\ DOMAIN pass' = PassFields /\ pass'.cap = 0 /\ pass'.begun = 0 /\ pass'.counted = 0
      /\ pass'.flight = {}
  BY <1>1, NewPassCounts
<1>3. QED BY <1>1, <1>2, EmptyPassCounts

LEMMA EndMainKeepsBudget ==
  ASSUME BudgetInv, EndMain, UNCHANGED world
  PROVE  BudgetInv'
<1>1. /\ UNCHANGED <<resume, file, at>> /\ at \in TargetIndex /\ at \in Nat \ {0} /\ world \in World
      /\ phase = "main" /\ phase' = "permute" /\ world.maxQueries \in Nat /\ pass' = NoPass
  BY DEF EndMain, diskVars, BudgetInv, RunShape, AtWork, World
<1> DEFINE r == [result[at] EXCEPT !.done = TRUE, !.abort = pass.tripped, !.failed = pass.tripped,
                   !.rootDone = Watermark,
                   !.processed = pass.counted + IF Resuming THEN Saved.processed ELSE 0]
<1>2. result' = [result EXCEPT ![at] = r]
  BY DEF EndMain
<1>3. DOMAIN pass' = PassFields /\ PassCounts' /\ phase' \in Phases /\ CapIsLeft'
  BY <1>1, NoPassCounts DEF Phases, AtWork, CapIsLeft
<1>4. DOMAIN result[at] = ResultFields /\ HasPerm(result[at]) /\ InBudget(result[at])
  BY <1>1 DEF BudgetInv, RunShape
<1>5. /\ DOMAIN r = ResultFields /\ r.perm = result[at].perm /\ r.processed = pass.counted + Prior
  BY <1>4 DEF ResultFields, Prior
<1>6. pass.counted + Prior \in Nat /\ (world.maxQueries > 0 => pass.counted + Prior <= world.maxQueries)
  <2>1. pass.counted \in Nat /\ Prior \in Nat
    BY <1>1 DEF BudgetInv, PassCounts, InBudget, Prior, Resuming, Saved
  <2>2. QED BY <1>1, <2>1, CountedFits
<1>7. HasPerm(r) /\ InBudget(r)
  BY <1>4, <1>5, <1>6 DEF HasPerm, InBudget
<1> HIDE DEF r
<1>8. QED BY <1>1, <1>2, <1>3, <1>5, <1>7, ResultChanges

LEMMA DecideKeepsBudget ==
  ASSUME BudgetInv, DecidePermute, UNCHANGED world
  PROVE  BudgetInv'
<1>1. /\ UNCHANGED <<resume, file, at, pass>> /\ at \in TargetIndex /\ at \in Nat \ {0} /\ world \in World
      /\ phase = "permute" /\ world.maxQueries \in Nat
      /\ phase' \in {"status", "permPreflight"}
  BY DEF DecidePermute, diskVars, BudgetInv, RunShape, AtWork, World
<1>2. DOMAIN pass' = PassFields /\ PassCounts' /\ phase' \in Phases
  BY <1>1, SamePass DEF Phases, AtWork
<1>3. DOMAIN result[at] = ResultFields /\ HasPerm(result[at]) /\ InBudget(result[at])
  BY <1>1 DEF BudgetInv, RunShape
<1>4. CASE UNCHANGED result /\ phase' = "status"
  BY <1>1, <1>2, <1>4, SameCounts DEF CapIsLeft
<1>5. CASE /\ PermSaved /\ phase' = "status"
           /\ result' = [result EXCEPT ![at].perm = [Saved.perm EXCEPT !.done = TRUE]]
  <2> DEFINE r == [result[at] EXCEPT !.perm = [Saved.perm EXCEPT !.done = TRUE]]
  <2>1. HasPerm(Saved) /\ InBudget(Saved)
    BY <1>1, <1>5 DEF BudgetInv, RunShape, PermSaved, Resuming, Saved
  <2>2. DOMAIN r = ResultFields /\ HasPerm(r) /\ InBudget(r)
    BY <1>3, <2>1 DEF HasPerm, InBudget, ResultFields, PermFields
  <2>3. CapIsLeft'
    BY <1>5 DEF CapIsLeft
  <2>4. QED BY <1>1, <1>2, <1>5, <2>2, <2>3, ResultChanges
<1>6. CASE /\ ~(PermSaved /\ Spent(Saved.perm.processed)) /\ phase' = "permPreflight"
           /\ result' = [result EXCEPT ![at].perm = [NoPerm EXCEPT !.started = TRUE]]
  <2> DEFINE r == [result[at] EXCEPT !.perm = [NoPerm EXCEPT !.started = TRUE]]
  <2>1. DOMAIN r = ResultFields /\ HasPerm(r) /\ InBudget(r)
    BY <1>1, <1>3 DEF HasPerm, InBudget, ResultFields, PermFields, NoPerm
  <2>2. world.maxQueries > 0 => PermPrior < world.maxQueries
    BY <1>1, <1>6 DEF PermPrior, Spent, Left, BudgetInv, InBudget, PermSaved, Resuming, Saved
  <2>3. CapIsLeft'
    BY <1>1, <1>6, <2>2 DEF CapIsLeft, PermPrior, PermSaved, Resuming, Saved
  <2>4. QED BY <1>1, <1>2, <1>6, <2>1, <2>3, ResultChanges
<1>7. QED BY <1>4, <1>5, <1>6 DEF DecidePermute

LEMMA PermPreflightKeepsBudget ==
  ASSUME BudgetInv, PermPreflight, UNCHANGED world
  PROVE  BudgetInv'
<1>1. /\ UNCHANGED <<resume, file, at>> /\ at \in TargetIndex /\ at \in Nat \ {0} /\ world \in World
      /\ phase = "permPreflight" /\ world.maxQueries \in Nat
  BY DEF PermPreflight, diskVars, BudgetInv, RunShape, AtWork, World
<1>2. CASE \E failed \in BOOLEAN : Stop(failed, "status")
  BY <1>1, <1>2, StopKeepsBudget
<1>3. CASE ~\E failed \in BOOLEAN : Stop(failed, "status")
  <2> DEFINE left == IF world.maxQueries = 0 THEN 0 ELSE world.maxQueries - PermPrior
  <2>1. PermPrior \in Nat /\ (world.maxQueries > 0 => PermPrior < world.maxQueries)
    BY <1>1 DEF BudgetInv, InBudget, CapIsLeft, PermPrior, PermSaved, Resuming, Saved
  <2>2. left \in Int /\ (world.maxQueries > 0 => left > 0 /\ left + PermPrior = world.maxQueries)
    BY <1>1, <2>1
  <2>3. UNCHANGED result /\ phase' = "perm"
    BY <1>3 DEF PermPreflight
  <2>4. \E from : pass' = NewPass(PermCandidates, from, {}, FALSE, left)
    <3>1. CASE PermSaved
      BY <1>3, <3>1 DEF PermPreflight, Left, PermPrior
    <3>2. CASE ~PermSaved
      <4>1. left = world.maxQueries
        BY <1>1, <3>2 DEF PermPrior
      <4>2. QED BY <1>3, <3>2, <4>1 DEF PermPreflight
    <3>3. QED BY <3>1, <3>2
  <2>5. /\ DOMAIN pass' = PassFields /\ pass'.cap = left /\ pass'.begun = 0 /\ pass'.counted = 0
        /\ pass'.flight = {}
    <3>1. PICK from : pass' = NewPass(PermCandidates, from, {}, FALSE, left)
      BY <2>4
    <3> HIDE DEF left
    <3>2. QED BY <2>2, <3>1, NewPassCounts
  <2>6. PassCounts'
    BY <2>2, <2>5, EmptyPassCounts
  <2>7. CapIsLeft' /\ phase' \in Phases
    BY <1>1, <2>2, <2>3, <2>5 DEF CapIsLeft, Phases, AtWork, PermPrior, PermSaved, Resuming, Saved
  <2>8. QED BY <1>1, <2>3, <2>5, <2>6, <2>7, SameCounts
<1>4. QED BY <1>2, <1>3

LEMMA EndPermKeepsBudget ==
  ASSUME BudgetInv, EndPerm, UNCHANGED world
  PROVE  BudgetInv'
<1>1. /\ UNCHANGED <<resume, file, at>> /\ at \in TargetIndex /\ at \in Nat \ {0} /\ world \in World
      /\ phase = "perm" /\ phase' = "status" /\ world.maxQueries \in Nat /\ pass' = NoPass
  BY DEF EndPerm, diskVars, BudgetInv, RunShape, AtWork, World
<1> DEFINE p == [started |-> TRUE, done |-> TRUE, rootDone |-> Watermark,
                 processed |-> pass.counted + IF PermSaved THEN Saved.perm.processed ELSE 0]
           r == [result[at] EXCEPT !.failed = result[at].failed \/ pass.tripped, !.perm = p]
<1>2. result' = [result EXCEPT ![at] = r]
  BY DEF EndPerm
<1>3. DOMAIN pass' = PassFields /\ PassCounts' /\ phase' \in Phases /\ CapIsLeft'
  BY <1>1, NoPassCounts DEF Phases, AtWork, CapIsLeft
<1>4. DOMAIN result[at] = ResultFields /\ HasPerm(result[at]) /\ InBudget(result[at])
  BY <1>1 DEF BudgetInv, RunShape
<1>5. DOMAIN p = PermFields /\ p.processed = pass.counted + PermPrior
  BY DEF PermFields, PermPrior
<1>6. pass.counted + PermPrior \in Nat /\ (world.maxQueries > 0 => pass.counted + PermPrior <= world.maxQueries)
  <2>1. pass.counted \in Nat /\ PermPrior \in Nat
    BY <1>1 DEF BudgetInv, PassCounts, InBudget, PermPrior, PermSaved, Resuming, Saved
  <2>2. QED BY <1>1, <2>1, CountedFits
<1> HIDE DEF p
<1>7. DOMAIN r = ResultFields /\ r.perm = p /\ r.processed = result[at].processed
  BY <1>4 DEF ResultFields
<1>8. HasPerm(r) /\ InBudget(r)
  BY <1>4, <1>5, <1>6, <1>7 DEF HasPerm, InBudget
<1> HIDE DEF r
<1>9. QED BY <1>1, <1>2, <1>3, <1>7, <1>8, ResultChanges

(* What ends a target, a run, or the process. *)
LEMMA SettleKeepsBudget ==
  ASSUME BudgetInv, UNCHANGED world,
         Loop \/ SetStatus \/ CommitResults \/ Signal \/ Cancel \/ Kill
  PROVE  BudgetInv'
<1>1. /\ UNCHANGED <<resume, file, result>> /\ at \in Nat \ {0} /\ world \in World
      /\ phase \in Phases /\ (phase \in AtWork => at \in TargetIndex)
  BY DEF Loop, SetStatus, CommitResults, Signal, Cancel, Kill, diskVars, endVars, BudgetInv, RunShape
<1>2. CASE Signal \/ Cancel
  <2>1. UNCHANGED <<phase, at, pass>>
    BY <1>2 DEF Signal, Cancel
  <2>2. DOMAIN pass' = PassFields /\ PassCounts'
    BY <2>1, SamePass
  <2>3. CapIsLeft'
    BY <1>1, <2>1 DEF BudgetInv, CapIsLeft, Prior, PermPrior, PermSaved, Resuming, Saved
  <2>4. TargetIndex' = TargetIndex
    BY DEF TargetIndex
  <2>5. QED BY <1>1, <2>1, <2>2, <2>3, <2>4, SameCounts
<1>3. CASE Loop \/ SetStatus \/ CommitResults \/ Kill
  <2>1. phase' \in Phases \ AtWork /\ at' \in Nat \ {0}
    BY <1>1, <1>3 DEF Loop, SetStatus, CommitResults, Kill, Phases, AtWork
  <2>2. CapIsLeft'
    BY <2>1 DEF CapIsLeft, AtWork
  <2>3. DOMAIN pass' = PassFields /\ PassCounts'
    <3>1. CASE UNCHANGED pass
      BY <3>1, SamePass
    <3>2. CASE pass' = NoPass
      BY <3>2, NoPassCounts
    <3>3. QED BY <1>3, <3>1, <3>2 DEF Loop, SetStatus, CommitResults, Kill
  <2>4. QED BY <1>1, <2>1, <2>2, <2>3, SameCounts
<1>4. QED BY <1>2, <1>3

LEMMA SavedInBudget ==
  ASSUME BudgetInv, NEW i \in TargetIndex
  PROVE  HasPerm(SavedTarget(i)) /\ InBudget(SavedTarget(i))
<1>1. HasPerm(result[i]) /\ InBudget(result[i]) /\ world.maxQueries \in Nat
  BY DEF BudgetInv, RunShape, World
<1>2. Resuming => HasPerm(resume[i]) /\ InBudget(resume[i])
  BY DEF BudgetInv, RunShape, Resuming
<1>3. HasPerm([perm |-> NoPerm]) /\ InBudget([processed |-> 0, perm |-> NoPerm])
  BY <1>1 DEF HasPerm, InBudget, NoPerm, PermFields
<1>4. CASE Unreached(i)
  BY <1>2, <1>4 DEF SavedTarget, Unreached
<1>5. CASE ~Unreached(i)
  <2> DEFINE p == IF result[i].perm.done THEN result[i].perm ELSE IF Resuming THEN resume[i].perm ELSE NoPerm
             n == ResumePoint(i, result[i])[2]
  <2>1. SavedTarget(i).perm = p /\ SavedTarget(i).processed = n
    BY <1>5 DEF SavedTarget
  <2>2. DOMAIN p = PermFields
    BY <1>1, <1>2, <1>3 DEF HasPerm
  <2>3. p.processed \in Nat /\ (world.maxQueries > 0 => p.processed <= world.maxQueries)
    BY <1>1, <1>2 DEF InBudget, NoPerm
  <2>4. n \in Nat /\ (world.maxQueries > 0 => n <= world.maxQueries)
    BY <1>1, <1>2 DEF InBudget, ResumePoint
  <2> HIDE DEF p, n
  <2>5. QED BY <2>1, <2>2, <2>3, <2>4 DEF HasPerm, InBudget
<1>6. QED BY <1>4, <1>5

LEMMA FinishKeepsBudget ==
  ASSUME BudgetInv, Finish, UNCHANGED world
  PROVE  BudgetInv'
<1>1. /\ UNCHANGED <<resume, result, at, pass>> /\ phase' = "commit"
  BY DEF Finish, endVars
<1>2. TargetIndex' = TargetIndex
  BY DEF TargetIndex
<1>3. \/ file' = [i \in TargetIndex |-> SavedTarget(i)]
      \/ file' = NoState
      \/ file' = file
  BY DEF Finish
<1>4. file' # NoState => \A i \in TargetIndex : HasPerm(file'[i]) /\ InBudget(file'[i])
  <2>1. CASE file' = [i \in TargetIndex |-> SavedTarget(i)]
    BY <2>1, SavedInBudget
  <2>2. CASE file' = file
    BY <2>2 DEF BudgetInv, RunShape
  <2>3. QED BY <1>3, <2>1, <2>2
<1>5. RunShape' /\ CapIsLeft' /\ PassCounts'
  BY <1>1, <1>2, <1>4 DEF BudgetInv, RunShape, PassCounts, CapIsLeft, HasPerm, Phases, AtWork
<1>6. QED BY <1>1, <1>2, <1>4, <1>5 DEF BudgetInv, InBudget

(* A run that starts: the first, and one that resumes. *)
LEMMA FreshResults ==
  ASSUME world \in World
  PROVE  /\ DOMAIN Each(Fresh0) = TargetIndex /\ 1 \in TargetIndex
         /\ \A i \in TargetIndex :
              DOMAIN Each(Fresh0)[i] = ResultFields /\ HasPerm(Each(Fresh0)[i]) /\ InBudget(Each(Fresh0)[i])
  BY DEF Each, Fresh0, NoPerm, ResultFields, PermFields, HasPerm, InBudget, TargetIndex, World

LEMMA RestartKeepsBudget ==
  ASSUME BudgetInv, Restart, UNCHANGED world
  PROVE  BudgetInv'
<1>1. /\ resume' = file /\ file' = file /\ result' = Each(Fresh0) /\ at' = 1 /\ phase' = "next"
      /\ pass' = NoPass
  BY DEF Restart, outputVars
<1>2. TargetIndex' = TargetIndex /\ world \in World
  BY DEF TargetIndex, BudgetInv, RunShape
<1>3. RunShape' /\ CapIsLeft'
  BY <1>1, <1>2, FreshResults, NoPassCounts DEF BudgetInv, RunShape, CapIsLeft, HasPerm, Phases, AtWork
<1>4. QED BY <1>1, <1>2, <1>3, FreshResults, NoPassCounts DEF BudgetInv, InBudget

LEMMA InitInBudget == Init => BudgetInv
<1> SUFFICES ASSUME Init PROVE BudgetInv
  OBVIOUS
<1>1. /\ world \in World /\ pass = NoPass /\ phase = "next" /\ at = 1 /\ result = Each(Fresh0)
      /\ resume = NoState /\ file = NoState
  BY ResumeAssumption DEF Init
<1>2. /\ DOMAIN pass = PassFields /\ pass.begun = 0 /\ pass.counted = 0 /\ pass.cap = 0
      /\ pass.flight = {}
  BY <1>1 DEF NoPass, NewPass, PassFields
<1>3. IsFiniteSet({}) /\ Cardinality({}) = 0
  BY FS_EmptySet
<1>4. PassCounts
  BY <1>2, <1>3 DEF PassCounts
<1>5. RunShape /\ CapIsLeft
  BY <1>1, <1>2, FreshResults DEF RunShape, CapIsLeft, Phases, AtWork
<1>6. QED BY <1>1, <1>4, <1>5, FreshResults DEF BudgetInv

LEMMA NextKeepsBudget == BudgetInv /\ [Next]_vars => BudgetInv'
<1> SUFFICES ASSUME BudgetInv, [Next]_vars PROVE BudgetInv'
  OBVIOUS
<1>1. CASE UNCHANGED vars
  BY <1>1 DEF vars, BudgetInv, RunShape, PassCounts, CapIsLeft, InBudget, Prior, PermPrior, PermSaved,
     Resuming, Saved, TargetIndex, HasPerm
<1>2. CASE Scan /\ UNCHANGED world
  BY <1>2, DispatchKeepsBudget, AnswerKeepsBudget, ReportKeepsBudget DEF Scan
<1>3. CASE Run /\ UNCHANGED world
  BY <1>3, BeginKeepsBudget, PreflightKeepsBudget, EndMainKeepsBudget, DecideKeepsBudget,
     PermPreflightKeepsBudget, EndPermKeepsBudget, SettleKeepsBudget, FinishKeepsBudget DEF Run
<1>4. CASE (Signal \/ Cancel \/ Kill) /\ UNCHANGED world
  BY <1>4, SettleKeepsBudget
<1>5. CASE Restart /\ UNCHANGED world
  BY <1>5, RestartKeepsBudget
<1>6. QED BY <1>1, <1>2, <1>3, <1>4, <1>5 DEF Next

(* -max-queries covers the whole scan, whatever the command line, however      *)
(* often it is interrupted, killed and resumed and whatever its lookups answer: *)
(* the answered lookups of all runs of a pass together stay within it.         *)
THEOREM OneBudgetForAllRuns == Spec => []BudgetCoversRuns
<1>1. BudgetInv => BudgetCoversRuns
  <2> SUFFICES ASSUME BudgetInv PROVE BudgetCoversRuns
    OBVIOUS
  <2>1. phase = "main" => at \in TargetIndex
    BY DEF BudgetInv, RunShape, AtWork
  <2>2. QED BY <2>1, CountedFits DEF BudgetInv, InBudget, BudgetCoversRuns, Prior
<1>2. QED BY <1>1, InitInBudget, NextKeepsBudget, PTL DEF Spec

-----------------------------------------------------------------------------
(***************************************************************************)
(* The results a resumed run started from.  A target behind the current    *)
(* one has them among its results and in the output, the current one in    *)
(* what it has gathered, and the others still have them in the state file, *)
(* which stays as it was until the last target is over.                    *)
(***************************************************************************)
Outputs(i) == \A h \in resume[i].results : <<i, h>> \in out

Reached ==
  /\ DOMAIN status = TargetIndex /\ DOMAIN kept = TargetIndex
  /\ \A i \in TargetIndex :
       IF i < at THEN status[i] \notin {"", "skipped"} ELSE status[i] \in {"", "skipped"}

Restored ==
  Running /\ Resuming =>
    /\ \A i \in TargetIndex : i < at => resume[i].results \subseteq kept[i] /\ Outputs(i)
    /\ phase \in AtWork => Saved.results \subseteq cur /\ Outputs(at)

HasEnded(i) == result[i].done \/ result[i].failed

Concluded ==
  /\ ctx => signal
  /\ \A i \in TargetIndex : result[i].abort => result[i].failed
  /\ Running /\ ~ctx =>
       /\ \A i \in TargetIndex : i < at => HasEnded(i)
       /\ phase \in AtWork \ {"preflight", "main"} => HasEnded(at)
       /\ phase = "over" => at > world.targets \/ AnyFailed

StateKept ==
  /\ Running /\ phase # "commit" => file = resume
  /\ phase = "commit" /\ Resuming =>
       IF file = NoState THEN AnyDone /\ \A i \in TargetIndex : Outputs(i)
       ELSE \A i \in TargetIndex : status[i] # "skipped" => resume[i].results \subseteq file[i].results

SurviveInv ==
  /\ Reached /\ Restored /\ Concluded /\ StateKept /\ missed \in Nat
  /\ ~Running /\ missed = 0 => SavedSurvives

(* Within a target the output and what it has gathered only grow. *)
LEMMA GrowthKeepsResults ==
  ASSUME BudgetInv, SurviveInv, UNCHANGED <<world, at, status, kept, resume, file, missed, ctx, signal>>,
         Running, phase # "commit", Running', phase' \notin {"commit", "over"},
         phase' \in AtWork => phase \in AtWork, cur \subseteq cur', out \subseteq out',
         DOMAIN result' = TargetIndex, \A i \in TargetIndex : result'[i].abort => result'[i].failed,
         ~ctx => \A i \in TargetIndex : i < at => HasEnded(i)',
         ~ctx => (phase' \in AtWork \ {"preflight", "main"} => HasEnded(at)')
  PROVE  SurviveInv'
<1>1. TargetIndex' = TargetIndex
  BY DEF TargetIndex
<1>2. Reached' /\ StateKept' /\ missed' \in Nat
  BY <1>1 DEF SurviveInv, Reached, StateKept, Running
<1>3. Restored'
  BY <1>1 DEF SurviveInv, Restored, Outputs, Resuming, Saved, Running
<1>4. Concluded'
  BY <1>1 DEF SurviveInv, Concluded, Running
<1>5. QED BY <1>2, <1>3, <1>4 DEF SurviveInv

LEMMA SameResults ==
  ASSUME BudgetInv, SurviveInv, UNCHANGED <<world, at, result, ctx>>
  PROVE  /\ DOMAIN result' = TargetIndex /\ \A i \in TargetIndex : result'[i].abort => result'[i].failed
         /\ Running /\ ~ctx => \A i \in TargetIndex : i < at => HasEnded(i)'
         /\ Running /\ ~ctx /\ phase \in AtWork \ {"preflight", "main"} => HasEnded(at)'
  BY DEF BudgetInv, RunShape, SurviveInv, Concluded, HasEnded

LEMMA ScanKeepsResults ==
  ASSUME BudgetInv, SurviveInv, Scan, UNCHANGED world
  PROVE  SurviveInv'
<1>1. /\ UNCHANGED <<at, status, kept, resume, file, missed, ctx, signal, result, phase>>
      /\ phase \in {"main", "perm"}
  BY DEF Scan, Dispatch, Answer, Complete, Trip, ctlVars, diskVars, outputVars, endVars, Scanning
<1>2. cur \subseteq cur' /\ out \subseteq out'
  BY DEF Scan, Dispatch, Answer, Complete, Trip, Emit
<1>3. phase \in AtWork /\ phase \notin {"commit", "over"} /\ Running /\ Running'
  BY <1>1 DEF AtWork, Running
<1>4. QED BY <1>1, <1>2, <1>3, GrowthKeepsResults, SameResults

(* The steps of the current target set its own result only. *)
LEMMA TargetKeepsResults ==
  ASSUME BudgetInv, SurviveInv,
         UNCHANGED <<world, at, status, kept, resume, file, missed, ctx, signal, cur, out>>,
         phase \in AtWork, phase' \in AtWork, NEW r, result' = [result EXCEPT ![at] = r],
         r.abort => r.failed,
         ~ctx /\ phase' \notin {"preflight", "main"} => r.done \/ r.failed
  PROVE  SurviveInv'
<1>1. DOMAIN result = TargetIndex /\ at \in TargetIndex /\ world \in World
  BY DEF BudgetInv, RunShape
<1>2. /\ DOMAIN result' = TargetIndex
      /\ \A i \in TargetIndex : result'[i] = IF i = at THEN r ELSE result[i]
  BY <1>1
<1>3. /\ phase # "commit" /\ phase' \notin {"commit", "over"} /\ Running /\ Running'
  BY DEF AtWork, Running
<1>4. \A i \in TargetIndex : result'[i].abort => result'[i].failed
  BY <1>2 DEF SurviveInv, Concluded
<1>5. ~ctx => \A i \in TargetIndex : i < at => HasEnded(i)'
  <2>1. at \in Int
    BY <1>1 DEF TargetIndex, World
  <2>2. QED BY <1>2, <1>3, <2>1 DEF SurviveInv, Concluded, HasEnded
<1>6. ~ctx => (phase' \in AtWork \ {"preflight", "main"} => HasEnded(at)')
  BY <1>1, <1>2 DEF HasEnded
<1>7. QED BY <1>2, <1>3, <1>4, <1>5, <1>6, GrowthKeepsResults

LEMMA StopKeepsResults ==
  ASSUME BudgetInv, SurviveInv, phase \in AtWork, NEW failed \in BOOLEAN, NEW next \in {"permute", "status"},
         Stop(failed, next),
         UNCHANGED <<world, at, status, kept, resume, file, missed, ctx, signal, cur, out>>
  PROVE  SurviveInv'
<1> DEFINE r == [result[at] EXCEPT !.failed = @ \/ failed]
<1>1. phase' \in AtWork /\ result' = [result EXCEPT ![at] = r] /\ (ctx \/ failed)
  BY DEF Stop, AtWork
<1>2. DOMAIN result[at] = ResultFields /\ (result[at].abort => result[at].failed)
  BY DEF BudgetInv, RunShape, SurviveInv, Concluded
<1>3. r.abort = result[at].abort /\ r.failed = (result[at].failed \/ failed)
  BY <1>2 DEF ResultFields
<1> HIDE DEF r
<1>4. QED BY <1>1, <1>2, <1>3, TargetKeepsResults

LEMMA StepKeepsResults ==
  ASSUME BudgetInv, SurviveInv, UNCHANGED world,
         Preflight \/ EndMain \/ DecidePermute \/ PermPreflight \/ EndPerm
  PROVE  SurviveInv'
<1>1. /\ UNCHANGED <<at, status, kept, resume, file, missed, ctx, signal, cur, out>>
      /\ phase \in AtWork
  BY DEF Preflight, EndMain, DecidePermute, PermPreflight, EndPerm, ctlVars, diskVars, outputVars, AtWork
<1>2. phase' \in AtWork
  BY DEF Preflight, EndMain, DecidePermute, PermPreflight, EndPerm, AtWork, Stop
<1>3. at \in TargetIndex /\ DOMAIN result[at] = ResultFields /\ HasPerm(result[at])
      /\ (result[at].abort => result[at].failed)
  BY <1>1 DEF BudgetInv, RunShape, SurviveInv, Concluded
<1>4. Running /\ Running' /\ phase \notin {"commit", "over"} /\ phase' \notin {"commit", "over"}
  BY <1>1, <1>2 DEF Running, AtWork
<1>5. CASE \E failed \in BOOLEAN, next \in {"permute", "status"} : Stop(failed, next)
  BY <1>1, <1>5, StopKeepsResults
<1>6. CASE /\ UNCHANGED result
           /\ phase' = "main" \/ phase \notin {"preflight", "main"}
  <2>1. ~ctx => (phase' \in AtWork \ {"preflight", "main"} => HasEnded(at)')
    BY <1>1, <1>4, <1>6, SameResults
  <2>2. QED BY <1>1, <1>2, <1>4, <1>6, <2>1, SameResults, GrowthKeepsResults
<1>7. CASE EndMain
  <2> DEFINE r == [result[at] EXCEPT !.done = TRUE, !.abort = pass.tripped, !.failed = pass.tripped,
                   !.rootDone = Watermark,
                   !.processed = pass.counted + IF Resuming THEN Saved.processed ELSE 0]
  <2>1. result' = [result EXCEPT ![at] = r]
    BY <1>7 DEF EndMain
  <2>2. r.done = TRUE /\ r.abort = r.failed
    BY <1>3 DEF ResultFields
  <2> HIDE DEF r
  <2>3. QED BY <1>1, <1>2, <2>1, <2>2, TargetKeepsResults
<1>8. CASE DecidePermute /\ ~UNCHANGED result
  <2>1. PICK p : result' = [result EXCEPT ![at] = [result[at] EXCEPT !.perm = p]]
    <3>1. CASE result' = [result EXCEPT ![at].perm = [Saved.perm EXCEPT !.done = TRUE]]
      BY <3>1
    <3>2. CASE result' = [result EXCEPT ![at].perm = [NoPerm EXCEPT !.started = TRUE]]
      BY <3>2
    <3>3. QED BY <1>8, <3>1, <3>2 DEF DecidePermute
  <2> DEFINE r == [result[at] EXCEPT !.perm = p]
  <2>2. r.done = result[at].done /\ r.abort = result[at].abort /\ r.failed = result[at].failed
    BY <1>3 DEF ResultFields
  <2>3. ~ctx => result[at].done \/ result[at].failed
    BY <1>4, <1>8 DEF SurviveInv, Concluded, HasEnded, DecidePermute, AtWork
  <2> HIDE DEF r
  <2>4. result' = [result EXCEPT ![at] = r]
    BY <2>1 DEF r
  <2>5. QED BY <1>1, <1>2, <1>3, <2>2, <2>3, <2>4, TargetKeepsResults
<1>9. CASE EndPerm
  <2>1. PICK p : result' = [result EXCEPT ![at] =
          [result[at] EXCEPT !.failed = result[at].failed \/ pass.tripped, !.perm = p]]
    BY <1>9 DEF EndPerm
  <2> DEFINE r == [result[at] EXCEPT !.failed = result[at].failed \/ pass.tripped, !.perm = p]
  <2>2. /\ r.done = result[at].done /\ r.abort = result[at].abort
        /\ r.failed = (result[at].failed \/ pass.tripped)
    BY <1>3 DEF ResultFields
  <2>3. ~ctx => result[at].done \/ result[at].failed
    BY <1>4, <1>9 DEF SurviveInv, Concluded, HasEnded, EndPerm, AtWork
  <2>4. result' = [result EXCEPT ![at] = r]
    BY <2>1
  <2> HIDE DEF r
  <2>5. QED BY <1>1, <1>2, <1>3, <2>2, <2>3, <2>4, TargetKeepsResults
<1>10. QED
  <2>1. CASE Preflight \/ PermPreflight
    BY <2>1, <1>5, <1>6 DEF Preflight, PermPreflight
  <2>2. CASE DecidePermute /\ UNCHANGED result
    BY <2>2, <1>6 DEF DecidePermute
  <2>3. QED BY <2>1, <2>2, <1>7, <1>8, <1>9

(* A target begun has its saved results in the output and gathered.            *)
LEMMA BeginKeepsResults ==
  ASSUME BudgetInv, SurviveInv, UNCHANGED world, BeginTarget
  PROVE  SurviveInv'
<1>1. /\ UNCHANGED <<at, status, kept, resume, file, missed, ctx, signal>> /\ phase = "next" /\ at \in TargetIndex
      /\ world \in World /\ ~ctx
  BY DEF BeginTarget, ctlVars, diskVars, outputVars, BudgetInv, RunShape, TargetIndex, World
<1>2. phase' \in {"preflight", "permute"} /\ (phase' = "permute" => Resuming)
  BY DEF BeginTarget
<1>3. TargetIndex' = TargetIndex /\ Running /\ Running'
  BY <1>1, <1>2 DEF TargetIndex, Running
<1>4. PICK r : result' = [result EXCEPT ![at] = r] /\ (r.abort => r.failed) /\ (phase' = "permute" => r.done)
  <2>1. CASE result' = [result EXCEPT ![at] = Fresh0] /\ phase' = "preflight"
    BY <2>1 DEF Fresh0
  <2>2. CASE result' = [result EXCEPT ![at] =
               [Fresh0 EXCEPT !.done = TRUE, !.rootDone = Saved.rootDone, !.processed = Saved.processed]]
    <3> DEFINE r == [Fresh0 EXCEPT !.done = TRUE, !.rootDone = Saved.rootDone, !.processed = Saved.processed]
    <3>1. r.abort = FALSE /\ r.done = TRUE
      BY DEF Fresh0
    <3> HIDE DEF r
    <3>2. result' = [result EXCEPT ![at] = r]
      BY <2>2 DEF r
    <3>3. QED BY <3>1, <3>2
  <2>3. QED BY <2>1, <2>2 DEF BeginTarget
<1>5. \A i \in TargetIndex : result'[i] = IF i = at THEN r ELSE result[i]
  BY <1>4 DEF BudgetInv, RunShape
<1>6. Reached' /\ StateKept' /\ missed' \in Nat
  BY <1>1, <1>2, <1>3 DEF SurviveInv, Reached, StateKept
<1>7. Resuming => cur' = Saved.results /\ out' = out \cup {<<at, h>> : h \in Saved.results}
  BY DEF BeginTarget, Restore
<1>8. Restored'
  BY <1>1, <1>3, <1>7 DEF SurviveInv, Restored, Outputs, Resuming, Saved
<1>9. Concluded'
  <2>1. \A i \in TargetIndex : i < at => i # at
    BY <1>1 DEF TargetIndex, World
  <2>2. \A i \in TargetIndex : i < at => HasEnded(i)'
    BY <1>1, <1>3, <1>5, <2>1 DEF SurviveInv, Concluded, HasEnded
  <2>3. phase' \in AtWork \ {"preflight", "main"} => HasEnded(at)'
    BY <1>1, <1>2, <1>4, <1>5 DEF HasEnded, AtWork
  <2>4. QED BY <1>1, <1>2, <1>3, <1>4, <1>5, <2>2, <2>3 DEF SurviveInv, Concluded
<1>10. QED BY <1>3, <1>6, <1>8, <1>9 DEF SurviveInv

(* Leaving a target behind. *)
LEMMA TargetOrder ==
  ASSUME world \in World, NEW t \in TargetIndex, NEW i \in TargetIndex
  PROVE  /\ i \in Int /\ t \in Int
         /\ i < t + 1 => i < t \/ i = t
         /\ i < t => i # t /\ i < t + 1
         /\ i = t => i < t + 1
         /\ i < t \/ i = t \/ i > t
         /\ i > t => i # t /\ ~(i < t + 1) /\ ~(i < t)
         /\ t >= world.targets => t + 1 > world.targets
<1>1. world.targets \in Int
  BY DEF World
<1>2. i \in Int /\ t \in Int
  BY <1>1 DEF TargetIndex
<1>3. QED BY <1>1, <1>2

LEMMA PassTarget ==
  ASSUME BudgetInv, SurviveInv, Running, phase # "commit", phase # "over",
         UNCHANGED <<world, resume, file, missed, ctx, signal>>,
         phase' \in {"next", "over"}, NEW t \in TargetIndex, at = t, at' = t + 1,
         NEW s, s \notin {"", "skipped"}, DOMAIN status' = TargetIndex, status'[t] = s,
         \A i \in TargetIndex : i < t => status'[i] = status[i],
         \A i \in TargetIndex : i > t => status'[i] \in {"skipped", status[i]},
         NEW k, kept' = [kept EXCEPT ![t] = k], Resuming => resume[t].results \subseteq k /\ Outputs(t)',
         out \subseteq out', DOMAIN result' = TargetIndex,
         \A i \in TargetIndex : i # t => result'[i] = result[i],
         result'[t].abort => result'[t].failed,
         ~ctx => HasEnded(t)',
         ~ctx /\ phase' = "over" => t >= world.targets \/ AnyFailed'
  PROVE  SurviveInv'
<1>1. TargetIndex' = TargetIndex /\ world.targets \in Nat
  BY DEF TargetIndex, BudgetInv, RunShape, World
<1>2. Running' /\ phase' \notin AtWork /\ phase' # "commit"
  BY DEF Running, AtWork
<1>3. /\ DOMAIN kept' = TargetIndex
      /\ \A i \in TargetIndex : kept'[i] = IF i = t THEN k ELSE kept[i]
  BY DEF SurviveInv, Reached
<1>4. \A i \in TargetIndex : /\ i < at' => i < t \/ i = t
                             /\ i < t => i # t /\ i < at'
                             /\ i = t => i < at'
                             /\ i < t \/ i = t \/ i > t
                             /\ i > t => ~(i < at') /\ ~(i < t)
  BY TargetOrder DEF BudgetInv, RunShape
<1>5. Reached'
  <2>1. \A i \in TargetIndex : (IF i < t THEN status[i] \notin {"", "skipped"} ELSE status[i] \in {"", "skipped"})
    BY DEF SurviveInv, Reached
  <2>2. \A i \in TargetIndex : IF i < at' THEN status'[i] \notin {"", "skipped"} ELSE status'[i] \in {"", "skipped"}
    <3>1. TAKE i \in TargetIndex
    <3>2. CASE i < t
      <4>1. status'[i] = status[i] /\ i < at' /\ status[i] \notin {"", "skipped"}
        BY <1>4, <2>1, <3>2
      <4>2. QED BY <4>1
    <3>3. CASE i = t
      <4>1. i < at' /\ status'[i] = s
        BY <1>4, <3>3
      <4>2. QED BY <4>1
    <3>4. CASE i > t
      <4>1. status'[i] \in {"skipped", status[i]} /\ ~(i < at') /\ status[i] \in {"", "skipped"}
        BY <1>4, <2>1, <3>4
      <4>2. QED BY <4>1
    <3>5. QED BY <1>4, <3>2, <3>3, <3>4
  <2>3. QED BY <1>1, <1>3, <2>2 DEF Reached
<1>6. Restored'
  <2>1. \A i \in TargetIndex : Resuming /\ i < at' => resume[i].results \subseteq kept'[i] /\ Outputs(i)'
    <3>1. TAKE i \in TargetIndex
    <3>2. CASE i < t
      BY <1>3, <1>4, <3>2 DEF SurviveInv, Restored, Outputs
    <3>3. CASE i = t
      BY <1>3, <3>3
    <3>4. QED BY <1>4, <3>2, <3>3
  <2>2. QED BY <1>1, <1>2, <2>1 DEF Restored, Resuming
<1>7. Concluded'
  <2>1. \A i \in TargetIndex : result'[i].abort => result'[i].failed
    BY DEF SurviveInv, Concluded
  <2>2. ~ctx => \A i \in TargetIndex : i < at' => HasEnded(i)'
    BY <1>4 DEF SurviveInv, Concluded, HasEnded
  <2>3. t >= world.targets => at' > world.targets
    BY TargetOrder DEF BudgetInv, RunShape
  <2>4. QED BY <1>1, <1>2, <2>1, <2>2, <2>3 DEF SurviveInv, Concluded
<1>8. StateKept' /\ missed' \in Nat
  BY <1>2 DEF SurviveInv, StateKept
<1>9. QED BY <1>2, <1>5, <1>6, <1>7, <1>8 DEF SurviveInv

LEMMA SkipKeepsResults ==
  ASSUME BudgetInv, SurviveInv, UNCHANGED world, SkipFinished
  PROVE  SurviveInv'
<1>1. /\ UNCHANGED <<resume, file, missed, ctx, signal, phase>> /\ phase = "next" /\ Running
      /\ at \in TargetIndex /\ at' = at + 1
  BY DEF SkipFinished, ctlVars, diskVars, outputVars, BudgetInv, RunShape, TargetIndex, World, Running
<1>2. PICK t \in TargetIndex : t = at
  BY <1>1
<1>3. DOMAIN result = TargetIndex /\ DOMAIN status = TargetIndex
  BY DEF BudgetInv, RunShape, SurviveInv, Reached
<1>4. /\ status' = [status EXCEPT ![t] = "ok"] /\ kept' = [kept EXCEPT ![t] = resume[t].results]
      /\ out' = out \cup {<<t, h>> : h \in resume[t].results}
  BY <1>2 DEF SkipFinished, Restore, Saved
<1>5. DOMAIN status' = TargetIndex /\ \A i \in TargetIndex : status'[i] = IF i = t THEN "ok" ELSE status[i]
  BY <1>3, <1>4
<1> DEFINE r == [Fresh0 EXCEPT !.done = TRUE, !.rootDone = Saved.rootDone, !.processed = Saved.processed]
<1>6. result' = [result EXCEPT ![t] = r] /\ r.done = TRUE /\ r.abort = FALSE
  BY <1>2 DEF SkipFinished, Fresh0
<1> HIDE DEF r
<1>7. /\ DOMAIN result' = TargetIndex
      /\ \A i \in TargetIndex : result'[i] = IF i = t THEN r ELSE result[i]
  BY <1>3, <1>6
<1>8. /\ \A i \in TargetIndex : i < t => i # t
      /\ \A i \in TargetIndex : i > t => i # t
  BY DEF TargetIndex, BudgetInv, RunShape, World
<1>9. resume[t].results \subseteq resume[t].results /\ Outputs(t)' /\ out \subseteq out'
  BY <1>1, <1>4 DEF Outputs
<1>10. result'[t].abort = FALSE /\ HasEnded(t)'
  BY <1>6, <1>7 DEF HasEnded
<1>11. "ok" \notin {"", "skipped"} /\ status'[t] = "ok"
  BY <1>5
<1>12. /\ \A i \in TargetIndex : i < t => status'[i] = status[i]
       /\ \A i \in TargetIndex : i > t => status'[i] \in {"skipped", status[i]}
       /\ \A i \in TargetIndex : i # t => result'[i] = result[i]
  BY <1>5, <1>7, <1>8
<1>13. QED BY <1>1, <1>2, <1>4, <1>5, <1>7, <1>9, <1>10, <1>11, <1>12, PassTarget

LEMMA StatusKeepsResults ==
  ASSUME BudgetInv, SurviveInv, UNCHANGED world, SetStatus
  PROVE  SurviveInv'
<1>1. /\ UNCHANGED <<resume, file, missed, ctx, signal, result, out>> /\ phase = "status" /\ Running
      /\ at \in TargetIndex /\ at' = at + 1 /\ phase' \in {"next", "over"}
  BY DEF SetStatus, ctlVars, diskVars, outputVars, BudgetInv, RunShape, AtWork, Running
<1>2. PICK t \in TargetIndex : t = at
  BY <1>1
<1>3. DOMAIN result' = TargetIndex /\ (result'[t].abort => result'[t].failed)
  BY <1>1 DEF BudgetInv, RunShape, SurviveInv, Concluded
<1>4. kept' = [kept EXCEPT ![t] = cur] /\ (Resuming => resume[t].results \subseteq cur /\ Outputs(t)')
  BY <1>1, <1>2 DEF SetStatus, SurviveInv, Restored, AtWork, Saved, Outputs
<1>5. Verdict \notin {"", "skipped"}
  BY DEF Verdict
<1>6. /\ DOMAIN status' = TargetIndex
      /\ \A i \in TargetIndex : status'[i] = IF i = t THEN Verdict
                                             ELSE IF i > t /\ result[t].abort THEN "skipped" ELSE status[i]
  BY <1>2 DEF SetStatus
<1>7. \A i \in TargetIndex : i < t => i # t /\ ~(i > t)
  BY DEF TargetIndex, BudgetInv, RunShape, World
<1>8. /\ status'[t] = Verdict
      /\ \A i \in TargetIndex : i < t => status'[i] = status[i]
      /\ \A i \in TargetIndex : i > t => status'[i] \in {"skipped", status[i]}
  <2>1. \A i \in TargetIndex : i > t => i # t
    BY DEF TargetIndex, BudgetInv, RunShape, World
  <2>2. QED BY <1>6, <1>7, <2>1
<1>9. ~ctx => HasEnded(t)'
  BY <1>1, <1>2 DEF SurviveInv, Concluded, AtWork, HasEnded
<1>10. TargetIndex' = TargetIndex /\ (phase' = "over" => result[t].abort)
  BY <1>1, <1>2 DEF SetStatus, TargetIndex
<1>11. phase' = "over" => AnyFailed'
  BY <1>1, <1>3, <1>10 DEF AnyFailed
<1> DEFINE s == Verdict
<1> HIDE DEF s
<1>12. s \notin {"", "skipped"} /\ status'[t] = s
  BY <1>5, <1>8 DEF s
<1>13. out \subseteq out' /\ \A i \in TargetIndex : i # t => result'[i] = result[i]
  BY <1>1
<1>14. QED BY <1>1, <1>2, <1>3, <1>4, <1>6, <1>8, <1>9, <1>11, <1>12, <1>13, PassTarget

(* The last target over, the state is saved or removed. *)
LEMMA LoopKeepsResults ==
  ASSUME BudgetInv, SurviveInv, UNCHANGED world, Loop
  PROVE  SurviveInv'
<1>1. /\ UNCHANGED <<status, kept, result, resume, file, missed, ctx, signal, at, cur, out>> /\ phase = "next"
      /\ phase' = "over" /\ (ctx \/ at > world.targets) /\ TargetIndex' = TargetIndex
  BY DEF Loop, ctlVars, diskVars, outputVars, endVars, TargetIndex
<1>2. Running /\ Running' /\ phase' \notin AtWork
  BY <1>1 DEF Running, AtWork
<1>3. Reached' /\ Restored'
  BY <1>1, <1>2 DEF SurviveInv, Reached, Restored, Outputs, Resuming, Saved
<1>4. Concluded'
  BY <1>1, <1>2 DEF SurviveInv, Concluded, HasEnded
<1>5. StateKept' /\ missed' \in Nat
  BY <1>1, <1>2 DEF SurviveInv, StateKept
<1>6. QED BY <1>2, <1>3, <1>4, <1>5 DEF SurviveInv

LEMMA FinishKeepsResults ==
  ASSUME BudgetInv, SurviveInv, UNCHANGED world, Finish
  PROVE  SurviveInv'
<1>1. /\ UNCHANGED <<status, kept, result, resume, missed, ctx, signal, at, cur, out>> /\ phase = "over"
      /\ phase' = "commit" /\ TargetIndex' = TargetIndex
  BY DEF Finish, ctlVars, outputVars, endVars, TargetIndex
<1>2. Running /\ Running' /\ phase' \notin AtWork /\ file = resume
  BY <1>1 DEF Running, AtWork, SurviveInv, StateKept
<1>3. Reached' /\ Restored'
  BY <1>1, <1>2 DEF SurviveInv, Reached, Restored, Outputs, Resuming, Saved
<1>4. Concluded'
  BY <1>1, <1>2 DEF SurviveInv, Concluded, HasEnded
<1>5. world \in World /\ 1 \in TargetIndex /\ \A i \in TargetIndex : at > world.targets => i < at
  <2>1. world \in World /\ at \in Nat
    BY DEF BudgetInv, RunShape
  <2>2. world.targets \in Nat \ {0}
    BY <2>1 DEF World
  <2>3. QED BY <2>1, <2>2 DEF TargetIndex
<1>6. ASSUME Resuming
      PROVE  IF file' = NoState THEN AnyDone /\ \A i \in TargetIndex : Outputs(i)
             ELSE \A i \in TargetIndex : status[i] # "skipped" => resume[i].results \subseteq file'[i].results
  <2>1. CASE signal
    <3>1. file' = [i \in TargetIndex |-> SavedTarget(i)]
      BY <2>1 DEF Finish
    <3>2. file' # NoState
      <4>1. file'[1] = SavedTarget(1) /\ DOMAIN file' = TargetIndex
        BY <1>5, <3>1
      <4>2. DOMAIN NoState = {}
        BY DEF NoState
      <4>3. QED BY <1>5, <4>1, <4>2
    <3>3. ASSUME NEW i \in TargetIndex, status[i] # "skipped"
          PROVE  resume[i].results \subseteq SavedTarget(i).results
      <4>1. CASE status[i] = ""
        BY <1>6, <4>1 DEF SavedTarget, Unreached
      <4>2. CASE status[i] # ""
        <5>1. i < at
          BY <3>3, <4>2 DEF SurviveInv, Reached
        <5>2. resume[i].results \subseteq kept[i]
          BY <1>2, <1>6, <5>1 DEF SurviveInv, Restored
        <5>3. SavedTarget(i).results = kept[i]
          BY <4>2 DEF SavedTarget, Unreached
        <5>4. QED BY <5>2, <5>3
      <4>3. QED BY <4>1, <4>2
    <3>4. QED BY <3>1, <3>2, <3>3
  <2>2. CASE ~signal /\ ~AnyFailed
    <3>1. file' = NoState /\ ~ctx
      BY <1>6, <2>2 DEF Finish, SurviveInv, Concluded
    <3>2. at > world.targets
      BY <1>1, <1>2, <2>2, <3>1 DEF SurviveInv, Concluded
    <3>3. \A i \in TargetIndex : i < at
      BY <1>5, <3>2
    <3>4. \A i \in TargetIndex : HasEnded(i) /\ Outputs(i)
      BY <1>2, <1>6, <3>1, <3>3 DEF SurviveInv, Concluded, Restored
    <3>5. AnyDone
      BY <1>5, <2>2, <3>4 DEF AnyDone, AnyFailed, HasEnded
    <3>6. QED BY <3>1, <3>4, <3>5
  <2>3. CASE ~signal /\ AnyFailed
    <3>1. file' = resume /\ file' # NoState
      BY <1>2, <1>6, <2>3 DEF Finish, Resuming
    <3>2. QED BY <3>1
  <2>4. QED BY <2>1, <2>2, <2>3
<1>7. StateKept'
  BY <1>1, <1>2, <1>6 DEF StateKept, Resuming, AnyDone, Outputs
<1>8. QED BY <1>1, <1>2, <1>3, <1>4, <1>7 DEF SurviveInv

LEMMA SignalKeepsResults ==
  ASSUME BudgetInv, SurviveInv, UNCHANGED world, Signal \/ Cancel
  PROVE  SurviveInv'
<1>1. /\ UNCHANGED <<status, kept, result, resume, file, missed, at, phase, cur, out>> /\ Running
      /\ ctx' => signal'
      /\ ~ctx' => ~ctx
  BY DEF Signal, Cancel, diskVars, outputVars, endVars, SignalStored, SurviveInv, Concluded
<1>2. TargetIndex' = TargetIndex
  BY DEF TargetIndex
<1>3. Reached' /\ Restored' /\ Running'
  BY <1>1, <1>2 DEF SurviveInv, Reached, Restored, Outputs, Resuming, Saved, Running
<1>4. Concluded'
  <2>1. AnyFailed' = AnyFailed
    BY <1>1, <1>2 DEF AnyFailed
  <2>2. QED BY <1>1, <1>2, <1>3, <2>1 DEF SurviveInv, Concluded, HasEnded
<1>5. StateKept' /\ missed' \in Nat
  BY <1>1, <1>2 DEF SurviveInv, StateKept, Running, Resuming, AnyDone, Outputs
<1>6. QED BY <1>3, <1>4, <1>5 DEF SurviveInv

(* A run that has ended, or was killed. *)
LEMMA EndKeepsResults ==
  ASSUME BudgetInv, SurviveInv, UNCHANGED world, CommitResults \/ Kill
  PROVE  SurviveInv'
<1>1. /\ UNCHANGED <<status, kept, result, resume, file, ctx, signal, at>> /\ Running /\ ~Running'
      /\ phase' \notin AtWork /\ phase' # "commit" /\ TargetIndex' = TargetIndex
  BY DEF CommitResults, Kill, ctlVars, endVars, Running, AtWork, TargetIndex
<1>2. Reached' /\ Restored'
  BY <1>1 DEF SurviveInv, Reached, Restored
<1>3. Concluded'
  BY <1>1 DEF SurviveInv, Concluded
<1>4. StateKept'
  BY <1>1 DEF StateKept
<1>5. missed \in Nat /\ missed' \in {missed, missed + 1}
  BY DEF SurviveInv, CommitResults, Kill
<1>6. ASSUME missed' = 0, Resuming, NEW i \in TargetIndex, status[i] # "skipped", NEW h \in resume[i].results
      PROVE  \/ h \in {g[2] : g \in {x \in published' : x[1] = i}}
             \/ file # NoState /\ h \in file[i].results
  <2>1. missed' = missed
    BY <1>5, <1>6
  <2>2. CASE phase # "commit"
    BY <1>1, <1>6, <2>2 DEF SurviveInv, StateKept, Resuming
  <2>3. CASE phase = "commit" /\ file # NoState
    BY <1>6, <2>3 DEF SurviveInv, StateKept
  <2>4. CASE phase = "commit" /\ file = NoState
    <3>1. AnyDone /\ <<i, h>> \in out
      BY <1>6, <2>4 DEF SurviveInv, StateKept, Outputs
    <3>2. CommitResults
      BY <1>5, <2>1, <2>4 DEF Kill
    <3>3. published' = out
      <4>1. missed' # missed + 1
        BY <1>5, <2>1
      <4>2. QED BY <3>1, <3>2, <4>1 DEF CommitResults
    <3>4. <<i, h>>[1] = i /\ <<i, h>>[2] = h
      OBVIOUS
    <3>5. QED BY <3>1, <3>3, <3>4
  <2>5. QED BY <2>2, <2>3, <2>4
<1>7. missed' = 0 => SavedSurvives'
  BY <1>1, <1>6 DEF SavedSurvives, Resuming
<1>8. QED BY <1>2, <1>3, <1>4, <1>5, <1>7 DEF SurviveInv

LEMMA RestartKeepsResults ==
  ASSUME BudgetInv, SurviveInv, UNCHANGED world, Restart
  PROVE  SurviveInv'
<1>1. /\ UNCHANGED missed /\ file' = file /\ resume' = file /\ phase' = "next" /\ at' = 1 /\ ctx' = FALSE
      /\ status' = Each("") /\ kept' = Each({}) /\ result' = Each(Fresh0)
  BY DEF Restart, outputVars
<1>2. Running' /\ phase' \notin AtWork /\ TargetIndex' = TargetIndex
  BY <1>1 DEF Running, AtWork, TargetIndex
<1>3. \A i \in TargetIndex : ~(i < 1)
  BY DEF TargetIndex, BudgetInv, RunShape, World
<1>4. Reached' /\ Restored'
  BY <1>1, <1>2, <1>3 DEF Reached, Restored, Each
<1>5. Concluded'
  BY <1>1, <1>2, <1>3 DEF Concluded, Each, Fresh0
<1>6. StateKept' /\ missed' \in Nat
  BY <1>1, <1>2 DEF StateKept, SurviveInv
<1>7. QED BY <1>2, <1>4, <1>5, <1>6 DEF SurviveInv

LEMMA InitSurvives == Init => SurviveInv
<1> SUFFICES ASSUME Init PROVE SurviveInv
  OBVIOUS
<1>1. /\ missed = 0 /\ file = resume /\ phase = "next" /\ at = 1 /\ ctx = FALSE
      /\ status = Each("") /\ kept = Each({}) /\ result = Each(Fresh0) /\ world \in World
  BY ResumeAssumption DEF Init
<1>2. Running /\ phase \notin AtWork
  BY <1>1 DEF Running, AtWork
<1>3. \A i \in TargetIndex : ~(i < 1)
  <2>1. world.targets \in Nat
    BY <1>1 DEF World
  <2>2. QED BY <2>1 DEF TargetIndex
<1>4. Reached /\ Restored
  BY <1>1, <1>2, <1>3 DEF Reached, Restored, Each
<1>5. Concluded /\ StateKept
  BY <1>1, <1>2, <1>3 DEF Concluded, StateKept, Each, Fresh0
<1>6. QED BY <1>1, <1>2, <1>4, <1>5 DEF SurviveInv

LEMMA NextKeepsResults ==
  ASSUME BudgetInv, SurviveInv, [Next]_vars
  PROVE  SurviveInv'
<1>1. CASE UNCHANGED vars
  <2>1. Reached' /\ Restored' /\ Concluded' /\ StateKept'
    BY <1>1 DEF vars, SurviveInv, Reached, Restored, Concluded, StateKept, Outputs, HasEnded, AnyDone, AnyFailed,
       Resuming, Saved, Running, TargetIndex
  <2>2. QED BY <1>1, <2>1 DEF vars, SurviveInv, SavedSurvives, Running, Resuming, TargetIndex
<1>2. CASE Scan /\ UNCHANGED world
  BY <1>2, ScanKeepsResults
<1>3. CASE Run /\ UNCHANGED world
  BY <1>3, BeginKeepsResults, SkipKeepsResults, StepKeepsResults, StatusKeepsResults, LoopKeepsResults,
     FinishKeepsResults, EndKeepsResults DEF Run
<1>4. CASE (Signal \/ Cancel) /\ UNCHANGED world
  BY <1>4, SignalKeepsResults
<1>5. CASE Kill /\ UNCHANGED world
  BY <1>5, EndKeepsResults
<1>6. CASE Restart /\ UNCHANGED world
  BY <1>6, RestartKeepsResults
<1>7. QED BY <1>1, <1>2, <1>3, <1>4, <1>5, <1>6 DEF Next

(* Nothing a resumed run started from is lost, however often it is interrupted *)
(* or killed and resumed again, as long as no results file fails to be         *)
(* replaced: run resume_commit shows what one failure costs.                   *)
THEOREM ResultsSurvive == Spec => [](missed = 0 => SavedSurvives)
<1>1. Spec => []BudgetInv
  BY InitInBudget, NextKeepsBudget, PTL DEF Spec
<1>2. SurviveInv => (missed = 0 => SavedSurvives)
  BY DEF SurviveInv, SavedSurvives
<1>3. QED BY <1>1, <1>2, InitSurvives, NextKeepsResults, PTL DEF Spec

-----------------------------------------------------------------------------
(***************************************************************************)
(* The resume point.  As long as the logs answer, every run of a scan goes *)
(* through the same list: a pass goes on where the earlier run stood, and  *)
(* what it settles is behind its next entry.                               *)
(***************************************************************************)
KnownLogs(l) == l.fetched => l.names = world.logNames

LogsKnown ==
  /\ DOMAIN logs = TargetIndex
  /\ \A i \in TargetIndex : KnownLogs(logs[i])
  /\ resume # NoState => \A i \in TargetIndex : KnownLogs(resume[i].logs)
  /\ file # NoState => \A i \in TargetIndex : KnownLogs(file[i].logs)
  /\ phase \in AtWork => logs[at].names = world.logNames

Positions == 0..Len(WholeList)

Onward(i) ==
  resume # NoState /\ result[i].done =>
    result[i].rootDone >= resume[i].rootDone /\ result[i].processed >= resume[i].processed

PointsIn ==
  /\ \A i \in TargetIndex : result[i].rootDone \in Positions /\ Onward(i)
  /\ resume # NoState => \A i \in TargetIndex : resume[i].rootDone \in Positions
  /\ file # NoState => \A i \in TargetIndex : file[i].rootDone \in Positions

DoneStays ==
  /\ resume # NoState =>
       /\ phase \in AtWork => ~Saved.done
       /\ \A i \in TargetIndex : i < at /\ resume[i].done =>
            status[i] = "ok" /\ result[i].done /\ ~result[i].perm.started
  /\ Running => \A i \in TargetIndex : i < at => status[i] = "ok" \/ result[i].failed \/ signal

Root(job) ==
  \/ job.root = -1
  \/ /\ job.root \in pass.from..(pass.next - 1)
     /\ WholeList[job.root + 1] = job.name

PassPoint ==
  phase = "main" =>
    /\ pass.list = WholeList /\ pass.from = (IF resume # NoState THEN Saved.rootDone ELSE 0)
    /\ pass.from \in Nat /\ pass.next \in pass.from..Len(WholeList)
    /\ pass.marks \subseteq pass.from..(pass.next - 1)
    /\ \A job \in pass.flight : Root(job)
    /\ \A job \in pass.kids : Root(job)
    /\ \A pair \in pass.heard : Root(pair[1])

PointInv == LogsKnown /\ PointsIn /\ DoneStays /\ PassPoint

(* The candidates are a sequence: the wordlist with the names picked behind it. *)
LEMMA PickedIsSequence ==
  ASSUME NEW list, NEW ks, IsFiniteSet(ks)
  PROVE  Picked(list, ks) \in Seq({Picked(list, ks)[j] : j \in 1..Cardinality(ks)})
<1>1. Cardinality(ks) \in Nat
  BY FS_CardinalityType
<1> DEFINE f == Picked(list, ks)
<1>2. f = [j \in 1..Cardinality(ks) |->
             list[CHOOSE k \in ks : Cardinality({m \in ks : m <= k}) = j]]
  BY DEF Picked
<1>3. DOMAIN f = 1..Cardinality(ks)
  BY <1>2
<1>4. f = [j \in 1..Cardinality(ks) |-> f[j]]
  BY <1>2
<1> HIDE DEF f
<1>5. f \in [1..Cardinality(ks) -> {f[j] : j \in 1..Cardinality(ks)}]
  BY <1>4
<1>6. f \in Seq({f[j] : j \in 1..Cardinality(ks)})
  BY <1>1, <1>5
<1>7. QED BY <1>6 DEF f

LEMMA WholeListIsSequence ==
  ASSUME world \in World
  PROVE  \E S : WholeList \in Seq(S)
<1>1. world.logNames \in Seq(Name \ {<<>>}) /\ Entries \in Seq(Name \ {<<>>})
  BY ResumeAssumption DEF World
<1> DEFINE list == world.logNames
           ks == {k \in DOMAIN list : list[k] \notin Names(Entries)}
<1>2. IsFiniteSet(ks)
  <2>1. DOMAIN list = 1..Len(list) /\ Len(list) \in Nat
    BY <1>1
  <2>2. IsFiniteSet(1..Len(list))
    BY <2>1, FS_Interval
  <2>3. QED BY <2>1, <2>2, FS_Subset
<1>3. WholeList = Entries \o Picked(list, ks)
  BY DEF WholeList, Candidates, NewNames
<1>4. PICK S : Picked(list, ks) \in Seq(S)
  BY <1>2, PickedIsSequence
<1>5. Entries \o Picked(list, ks) \in Seq((Name \ {<<>>}) \cup S)
  <2> HIDE DEF ks
  <2>1. Entries \in Seq((Name \ {<<>>}) \cup S) /\ Picked(list, ks) \in Seq((Name \ {<<>>}) \cup S)
    BY <1>1, <1>4
  <2>2. QED BY <2>1
<1>6. QED BY <1>3, <1>5

LEMMA WholeListHasLength ==
  ASSUME world \in World
  PROVE  Len(WholeList) \in Nat /\ 0 \in Positions /\ Positions \subseteq Nat
<1>1. PICK S : WholeList \in Seq(S)
  BY WholeListIsSequence
<1>2. Len(WholeList) \in Nat
  BY <1>1
<1>3. QED BY <1>2 DEF Positions

LEMMA SameWholeList ==
  ASSUME UNCHANGED world
  PROVE  WholeList' = WholeList /\ Positions' = Positions /\ TargetIndex' = TargetIndex
<1>1. WholeList' = WholeList
  BY DEF WholeList
<1>2. QED BY <1>1 DEF Positions, TargetIndex

(* The watermark: a pass has settled every entry in front of it. *)
LEMMA WatermarkIsLeast ==
  ASSUME pass.from \in Nat, Len(pass.list) \in Nat, pass.next \in pass.from..Len(pass.list),
         pass.marks \subseteq pass.from..(pass.next - 1)
  PROVE  /\ Watermark \in pass.from..Len(pass.list) /\ Watermark \notin pass.marks
         /\ \A m \in pass.from..(Watermark - 1) : m \in pass.marks
<1> DEFINE T == {k \in pass.from..Len(pass.list) : k \notin pass.marks}
<1>1. Len(pass.list) \in T /\ T \subseteq Nat
  OBVIOUS
<1>2. IsWellFoundedOn(OpToRel(<, Nat), Nat)
  BY NatLessThanWellFounded
<1>3. PICK x \in T : \A y \in T : ~(<<y, x>> \in OpToRel(<, Nat))
  BY <1>1, <1>2, WFMin
<1>4. \A y \in T : ~(y < x)
  BY <1>1, <1>3 DEF OpToRel
<1>5. \A m \in pass.from..(x - 1) : m \in pass.marks
  <2>1. \A m \in pass.from..(x - 1) : m \in pass.from..Len(pass.list) /\ m < x
    OBVIOUS
  <2>2. QED BY <1>4, <2>1
<1>6. \E k \in pass.from..Len(pass.list) : /\ \A m \in pass.from..(k - 1) : m \in pass.marks
                                           /\ k \notin pass.marks
  BY <1>5
<1>7. QED BY <1>6 DEF Watermark

LEMMA WatermarkIsSettled ==
  ASSUME BudgetInv, PointInv, phase = "main"
  PROVE  /\ Watermark \in pass.from..Len(WholeList)
         /\ \A m \in pass.from..(Watermark - 1) : m \in pass.marks
<1>1. /\ pass.list = WholeList /\ pass.from \in Nat /\ pass.next \in pass.from..Len(WholeList)
      /\ pass.marks \subseteq pass.from..(pass.next - 1) /\ Len(WholeList) \in Nat
  BY WholeListHasLength DEF PointInv, PassPoint, BudgetInv, RunShape
<1>2. QED BY <1>1, WatermarkIsLeast

(* The scan. *)
LEMMA ScanFrame ==
  ASSUME BudgetInv, PointInv, UNCHANGED world, Scan, PassPoint'
  PROVE  PointInv'
<1>1. /\ UNCHANGED <<at, status, logs, resume, file, signal, result, phase>> /\ phase \in AtWork
  BY DEF Scan, Dispatch, Answer, Complete, Trip, ctlVars, diskVars, outputVars, endVars, Scanning, AtWork
<1>2. LogsKnown' /\ PointsIn' /\ DoneStays'
  BY <1>1, SameWholeList DEF PointInv, LogsKnown, KnownLogs, PointsIn, Onward, DoneStays, Running, Saved
<1>3. QED BY <1>2 DEF PointInv

LEMMA DispatchKeepsPoints ==
  ASSUME BudgetInv, PointInv, UNCHANGED world, Dispatch
  PROVE  PassPoint'
<1> SUFFICES ASSUME phase' = "main" PROVE PassPoint'
  BY DEF PassPoint
<1>1. /\ UNCHANGED <<at, resume, phase>> /\ phase = "main" /\ WholeList' = WholeList
  BY SameWholeList DEF Dispatch, ctlVars, diskVars, outputVars
<1>2. /\ DOMAIN pass = PassFields
      /\ pass.list = WholeList /\ pass.from = (IF resume # NoState THEN Saved.rootDone ELSE 0)
      /\ pass.from \in Nat /\ pass.next \in pass.from..Len(WholeList)
      /\ pass.marks \subseteq pass.from..(pass.next - 1)
      /\ \A job \in pass.flight : Root(job)
      /\ \A job \in pass.kids : Root(job)
      /\ \A pair \in pass.heard : Root(pair[1])
      /\ Len(WholeList) \in Nat
  BY <1>1, WholeListHasLength DEF BudgetInv, RunShape, PointInv, PassPoint
<1>3. PICK job, next, kids :
        /\ Hand(job, next, kids)
        /\ kids \subseteq pass.kids
        /\ \/ /\ pass.next < Len(WholeList) /\ next = pass.next + 1
              /\ job = [name |-> pass.list[pass.next + 1], depth |-> 1, root |-> pass.next]
           \/ next = pass.next /\ job \in pass.kids
  <2>1. CASE /\ pass.next < Len(pass.list)
             /\ Hand([name |-> pass.list[pass.next + 1], depth |-> 1, root |-> pass.next],
                     pass.next + 1, pass.kids)
    BY <1>2, <2>1
  <2>2. CASE \E job \in pass.kids : Hand(job, pass.next, pass.kids \ {job})
    <3>1. PICK job \in pass.kids : Hand(job, pass.next, pass.kids \ {job})
      BY <2>2
    <3>2. pass.kids \ {job} \subseteq pass.kids
      OBVIOUS
    <3>3. QED BY <3>1, <3>2
  <2>3. QED BY <2>1, <2>2 DEF Dispatch
<1>4. /\ pass'.list = pass.list /\ pass'.from = pass.from /\ pass'.next = next /\ pass'.kids = kids
      /\ pass'.heard = pass.heard /\ pass'.flight \subseteq pass.flight \cup {job}
      /\ pass'.marks \subseteq pass.marks \cup (IF job.root = -1 THEN {} ELSE {job.root})
  <2>1. CASE job.name \in pass.seen
    <3>1. pass' = [pass EXCEPT !.next = next, !.kids = kids,
                     !.marks = IF job.root = -1 THEN @ ELSE @ \cup {job.root}]
      BY <1>3, <2>1 DEF Hand
    <3>2. QED BY <1>2, <3>1 DEF PassFields
  <2>2. CASE job.name \notin pass.seen
    <3>1. pass' = [pass EXCEPT !.next = next, !.kids = kids, !.begun = @ + 1,
                     !.seen = @ \cup {job.name}, !.flight = @ \cup {job}]
      BY <1>3, <2>2 DEF Hand
    <3>2. QED BY <1>2, <3>1 DEF PassFields
  <2>3. QED BY <2>1, <2>2
<1>5. /\ next \in pass.from..Len(WholeList)
      /\ pass.from..(pass.next - 1) \subseteq pass.from..(next - 1)
      /\ \/ job.root = -1
         \/ job.root \in pass.from..(next - 1) /\ WholeList[job.root + 1] = job.name
  <2>1. CASE /\ pass.next < Len(WholeList) /\ next = pass.next + 1
             /\ job = [name |-> pass.list[pass.next + 1], depth |-> 1, root |-> pass.next]
    BY <1>2, <2>1
  <2>2. CASE next = pass.next /\ job \in pass.kids
    BY <1>2, <2>2 DEF Root
  <2>3. QED BY <1>3, <2>1, <2>2
<1>6. pass'.marks \subseteq pass'.from..(pass'.next - 1)
  BY <1>2, <1>4, <1>5
<1>7. /\ \A j \in pass'.flight : Root(j)'
      /\ \A j \in pass'.kids : Root(j)'
      /\ \A pair \in pass'.heard : Root(pair[1])'
  BY <1>1, <1>2, <1>3, <1>4, <1>5 DEF Root
<1>8. QED BY <1>1, <1>2, <1>4, <1>5, <1>6, <1>7 DEF PassPoint, Saved

LEMMA ChildrenAreNoRoots ==
  ASSUME NEW list, NEW parent, NEW depth, NEW job \in Children(list, parent, depth)
  PROVE  job.root = -1
<1>1. PICK k \in DOMAIN list : job = [name |-> list[k] \o parent, depth |-> depth, root |-> -1]
  BY DEF Children
<1>2. QED BY <1>1

LEMMA ReportKeepsPoints ==
  ASSUME BudgetInv, PointInv, UNCHANGED world,
         (Trip \/ \E job \in pass.flight, o \in {"found", "nxdomain", "failed"} : Answer(job, o))
           \/ \E pair \in pass.heard : Complete(pair[1], pair[2])
  PROVE  PassPoint'
<1> SUFFICES ASSUME phase' = "main" PROVE PassPoint'
  BY DEF PassPoint
<1>1. /\ UNCHANGED <<at, resume, phase>> /\ phase = "main" /\ WholeList' = WholeList
  BY SameWholeList DEF Trip, Answer, Complete, ctlVars, diskVars, outputVars
<1>2. /\ DOMAIN pass = PassFields
      /\ pass.list = WholeList /\ pass.from = (IF resume # NoState THEN Saved.rootDone ELSE 0)
      /\ pass.from \in Nat /\ pass.next \in pass.from..Len(WholeList)
      /\ pass.marks \subseteq pass.from..(pass.next - 1)
      /\ \A job \in pass.flight : Root(job)
      /\ \A job \in pass.kids : Root(job)
      /\ \A pair \in pass.heard : Root(pair[1])
  BY <1>1 DEF BudgetInv, RunShape, PointInv, PassPoint
<1> DEFINE Reports ==
             /\ pass'.list = pass.list /\ pass'.from = pass.from /\ pass'.next = pass.next
             /\ pass'.flight \subseteq pass.flight
             /\ pass'.marks \subseteq pass.from..(pass.next - 1)
             /\ \A job \in pass'.kids : job \in pass.kids \/ job.root = -1
             /\ \A pair \in pass'.heard : pair \in pass.heard \/ pair[1] \in pass.flight
<1>3. Reports
  <2>1. CASE Trip
    BY <1>2, <2>1 DEF Trip, PassFields
  <2>2. ASSUME NEW job \in pass.flight, NEW o, Answer(job, o)
        PROVE  Reports
    <3>1. pass' = [pass EXCEPT !.flight = @ \ {job}, !.counted = @ + 1,
                     !.failures = @ \/ o = "failed", !.heard = @ \cup {<<job, o = "found">>}]
      BY <2>2 DEF Answer
    <3>2. /\ pass'.list = pass.list /\ pass'.from = pass.from /\ pass'.next = pass.next
          /\ pass'.flight = pass.flight \ {job} /\ pass'.marks = pass.marks /\ pass'.kids = pass.kids
          /\ pass'.heard = pass.heard \cup {<<job, o = "found">>}
      BY <1>2, <3>1 DEF PassFields
    <3>3. <<job, o = "found">>[1] = job
      OBVIOUS
    <3>4. QED BY <1>2, <2>2, <3>2, <3>3
  <2>3. ASSUME NEW pair \in pass.heard, Complete(pair[1], pair[2])
        PROVE  Reports
    <3>1. /\ pass'.kids \subseteq pass.kids \cup Children(pass.list, pair[1].name, pair[1].depth + 1)
          /\ pass'.list = pass.list /\ pass'.from = pass.from /\ pass'.next = pass.next
          /\ pass'.flight = pass.flight /\ pass'.heard \subseteq pass.heard
          /\ pass'.marks \subseteq pass.marks \cup (IF pair[1].root = -1 THEN {} ELSE {pair[1].root})
      <4> DEFINE kids == pass.kids \cup Children(pass.list, pair[1].name, pair[1].depth + 1)
                 marks == IF pair[1].root = -1 THEN pass.marks ELSE pass.marks \cup {pair[1].root}
      <4>1. CASE \E ks \in SUBSET kids :
                   pass' = [pass EXCEPT !.heard = @ \ {<<pair[1], pair[2]>>}, !.marks = marks, !.kids = ks]
        BY <1>2, <4>1 DEF PassFields
      <4>2. CASE pass' = [pass EXCEPT !.heard = @ \ {<<pair[1], pair[2]>>}]
        BY <1>2, <4>2 DEF PassFields
      <4>3. QED BY <2>3, <4>1, <4>2 DEF Complete
    <3> DEFINE below == Children(pass.list, pair[1].name, pair[1].depth + 1)
    <3>2. \A job \in below : job.root = -1
      BY ChildrenAreNoRoots
    <3> HIDE DEF below
    <3>3. pair[1].root = -1 \/ pair[1].root \in pass.from..(pass.next - 1)
      BY <1>2, <2>3 DEF Root
    <3>4. pass'.kids \subseteq pass.kids \cup below
      BY <3>1 DEF below
    <3>5. pass'.marks \subseteq pass.from..(pass.next - 1)
      BY <1>2, <3>1, <3>3
    <3>6. /\ \A job \in pass'.kids : job \in pass.kids \/ job.root = -1
          /\ \A p \in pass'.heard : p \in pass.heard \/ p[1] \in pass.flight
      BY <3>1, <3>2, <3>4
    <3>7. pass'.flight \subseteq pass.flight
      BY <3>1
    <3>8. QED BY <3>1, <3>5, <3>6, <3>7
  <2>4. QED BY <2>1, <2>2, <2>3
<1>4. /\ \A j \in pass'.flight : Root(j)'
      /\ \A j \in pass'.kids : Root(j)'
      /\ \A pair \in pass'.heard : Root(pair[1])'
  <2>1. ASSUME NEW j, Root(j) \/ j.root = -1
        PROVE  Root(j)'
    <3>1. CASE j.root = -1
      BY <3>1 DEF Root
    <3>2. CASE Root(j)
      BY <1>1, <1>3, <3>2 DEF Root
    <3>3. QED BY <2>1, <3>1, <3>2
  <2>2. QED BY <1>2, <1>3, <2>1
<1>5. QED BY <1>1, <1>2, <1>3, <1>4 DEF PassPoint, Saved

(* The steps of the current target set its own result only. *)
LEMMA WorkKeepsPoints ==
  ASSUME BudgetInv, PointInv, UNCHANGED <<world, at, status, logs, resume, file, signal>>,
         phase \in AtWork, phase' \in AtWork, PassPoint', NEW r, result' = [result EXCEPT ![at] = r],
         r.rootDone \in Positions,
         resume # NoState /\ r.done => r.rootDone >= Saved.rootDone /\ r.processed >= Saved.processed
  PROVE  PointInv'
<1>1. DOMAIN result = TargetIndex /\ at \in TargetIndex /\ world \in World
  BY DEF BudgetInv, RunShape
<1>2. \A i \in TargetIndex : result'[i] = IF i = at THEN r ELSE result[i]
  BY <1>1
<1>3. \A i \in TargetIndex : i < at => i # at
  BY <1>1, TargetOrder
<1>4. LogsKnown'
  BY SameWholeList DEF PointInv, LogsKnown, KnownLogs
<1>5. PointsIn'
  <2>1. \A i \in TargetIndex : result'[i].rootDone \in Positions /\ Onward(i)'
    BY <1>1, <1>2 DEF PointInv, PointsIn, Onward, Saved
  <2>2. QED BY <2>1, SameWholeList DEF PointInv, PointsIn
<1>6. DoneStays'
  <2>1. Running /\ Running'
    BY DEF Running, AtWork
  <2>2. QED BY <1>2, <1>3, <2>1, SameWholeList DEF PointInv, DoneStays, Saved
<1>7. QED BY <1>4, <1>5, <1>6 DEF PointInv

LEMMA IdleKeepsPoints ==
  ASSUME BudgetInv, PointInv, UNCHANGED <<world, at, status, logs, resume, file, result>>,
         signal => signal', Running, phase' \in AtWork => phase \in AtWork, PassPoint'
  PROVE  PointInv'
<1>1. LogsKnown' /\ PointsIn'
  BY SameWholeList DEF PointInv, LogsKnown, KnownLogs, PointsIn, Onward
<1>2. DoneStays'
  BY SameWholeList DEF PointInv, DoneStays, Saved, Running
<1>3. QED BY <1>1, <1>2 DEF PointInv

LEMMA NewPassFields ==
  ASSUME NEW list, NEW from, NEW parents, NEW deep, NEW cap,
         pass' = NewPass(list, from, parents, deep, cap)
  PROVE  /\ pass'.list = list /\ pass'.from = Start(from, list) /\ pass'.next = Start(from, list)
         /\ pass'.marks = {} /\ pass'.flight = {} /\ pass'.heard = {} /\ pass'.seen = {} /\ pass'.failures = FALSE /\ pass'.tripped = FALSE
         /\ \A job \in pass'.kids : job.root = -1
<1>1. /\ pass'.list = list /\ pass'.from = Start(from, list) /\ pass'.next = Start(from, list)
      /\ pass'.marks = {} /\ pass'.flight = {} /\ pass'.heard = {} /\ pass'.seen = {} /\ pass'.failures = FALSE /\ pass'.tripped = FALSE
      /\ pass'.kids = IF deep
                  THEN UNION {Children(list, q, Len(q) + 1) : q \in {s \in parents : Expandable(s)}}
                  ELSE {}
  BY DEF NewPass
<1>2. \A job \in pass'.kids : \E q : job \in Children(list, q, Len(q) + 1)
  BY <1>1
<1>3. \A job \in pass'.kids : job.root = -1
  BY <1>2, ChildrenAreNoRoots
<1>4. QED BY <1>1, <1>3

LEMMA StopKeepsPoints ==
  ASSUME BudgetInv, PointInv, phase \in AtWork, NEW failed \in BOOLEAN, NEW next \in {"permute", "status"},
         Stop(failed, next), UNCHANGED <<world, at, status, logs, resume, file, signal>>
  PROVE  PointInv'
<1> DEFINE r == [result[at] EXCEPT !.failed = @ \/ failed]
<1>1. phase' = next /\ result' = [result EXCEPT ![at] = r]
  BY DEF Stop
<1>2. at \in TargetIndex /\ DOMAIN result[at] = ResultFields /\ result[at].rootDone \in Positions /\ Onward(at)
  BY DEF BudgetInv, RunShape, PointInv, PointsIn
<1>3. r.rootDone = result[at].rootDone /\ r.done = result[at].done /\ r.processed = result[at].processed
  BY <1>2 DEF ResultFields
<1> HIDE DEF r
<1>4. phase' \in AtWork /\ PassPoint'
  BY <1>1 DEF AtWork, PassPoint
<1>5. QED BY <1>1, <1>2, <1>3, <1>4, WorkKeepsPoints DEF Onward, Saved

LEMMA PreflightKeepsPoints ==
  ASSUME BudgetInv, PointInv, UNCHANGED world, Preflight
  PROVE  PointInv'
<1>1. /\ UNCHANGED <<at, status, logs, resume, file, signal>> /\ phase = "preflight" /\ phase \in AtWork
      /\ at \in TargetIndex /\ world \in World
  BY DEF Preflight, ctlVars, diskVars, outputVars, AtWork, BudgetInv, RunShape
<1>2. CASE \E failed \in BOOLEAN : Stop(failed, "permute")
  BY <1>1, <1>2, StopKeepsPoints
<1>3. CASE ~\E failed \in BOOLEAN : Stop(failed, "permute")
  <2>1. UNCHANGED result /\ phase' = "main"
    BY <1>3 DEF Preflight
  <2>2. Candidates(logs[at]) = WholeList
    BY <1>1 DEF PointInv, LogsKnown, Candidates, WholeList
  <2> DEFINE from == IF resume # NoState THEN Saved.rootDone ELSE 0
  <2>3. \E parents, cap : pass' = NewPass(WholeList, from, parents, world.recursive, cap)
    BY <1>3, <2>2 DEF Preflight, Resuming
  <2>4. from \in Positions /\ from \in Nat /\ Len(WholeList) \in Nat
    BY <1>1, WholeListHasLength DEF PointInv, PointsIn, Saved
  <2> HIDE DEF from
  <2>5. Start(from, WholeList) = from
    BY <2>4 DEF Start, Positions
  <2>6. PICK parents, cap : pass' = NewPass(WholeList, from, parents, world.recursive, cap)
    BY <2>3
  <2>7. /\ pass'.list = WholeList /\ pass'.from = from /\ pass'.next = from /\ pass'.marks = {}
        /\ pass'.flight = {} /\ pass'.heard = {} /\ \A job \in pass'.kids : job.root = -1
    BY <2>5, <2>6, NewPassFields
  <2>8. \A job \in pass'.kids : Root(job)'
    BY <2>7 DEF Root
  <2>9. from \in from..Len(WholeList)
    BY <2>4 DEF Positions
  <2>10. from = IF resume' # NoState THEN Saved' .rootDone ELSE 0
    BY <1>1 DEF from, Saved
  <2>11. PassPoint'
    BY <2>4, <2>7, <2>8, <2>9, <2>10, SameWholeList DEF PassPoint
  <2>12. QED BY <1>1, <2>1, <2>11, IdleKeepsPoints DEF Running
<1>4. QED BY <1>2, <1>3

LEMMA EndMainKeepsPoints ==
  ASSUME BudgetInv, PointInv, UNCHANGED world, EndMain
  PROVE  PointInv'
<1>1. /\ UNCHANGED <<at, status, logs, resume, file, signal>> /\ phase = "main" /\ phase' = "permute"
      /\ phase \in AtWork /\ phase' \in AtWork /\ at \in TargetIndex /\ world \in World
  BY DEF EndMain, ctlVars, diskVars, outputVars, AtWork, BudgetInv, RunShape
<1> DEFINE r == [result[at] EXCEPT !.done = TRUE, !.abort = pass.tripped, !.failed = pass.tripped,
                   !.rootDone = Watermark,
                   !.processed = pass.counted + IF Resuming THEN Saved.processed ELSE 0]
<1>2. result' = [result EXCEPT ![at] = r] /\ DOMAIN result[at] = ResultFields
  BY <1>1 DEF EndMain, BudgetInv, RunShape
<1>3. r.rootDone = Watermark /\ r.processed = pass.counted + Prior
  BY <1>2 DEF ResultFields, Prior
<1>4. Watermark \in pass.from..Len(WholeList) /\ pass.from \in Nat /\ Len(WholeList) \in Nat
      /\ (resume # NoState => pass.from = Saved.rootDone)
  BY <1>1, WatermarkIsSettled, WholeListHasLength DEF PointInv, PassPoint
<1>5. Watermark \in Positions /\ (resume # NoState => Watermark >= Saved.rootDone)
  BY <1>4 DEF Positions
<1>6. resume # NoState => pass.counted + Prior >= Saved.processed
  <2>1. pass.counted \in Nat
    BY DEF BudgetInv, PassCounts
  <2>2. resume # NoState => Saved.processed \in Nat /\ Prior = Saved.processed
    BY <1>1 DEF BudgetInv, InBudget, Prior, Resuming, Saved
  <2>3. QED BY <2>1, <2>2
<1> HIDE DEF r
<1>7. PassPoint'
  BY <1>1 DEF PassPoint
<1>8. QED BY <1>1, <1>2, <1>3, <1>5, <1>6, <1>7, WorkKeepsPoints

LEMMA PermKeepsPoints ==
  ASSUME BudgetInv, PointInv, UNCHANGED world, DecidePermute \/ PermPreflight \/ EndPerm
  PROVE  PointInv'
<1>1. /\ UNCHANGED <<at, status, logs, resume, file, signal>> /\ phase \in AtWork
      /\ at \in TargetIndex /\ DOMAIN result[at] = ResultFields
  BY DEF DecidePermute, PermPreflight, EndPerm, ctlVars, diskVars, outputVars, AtWork, BudgetInv, RunShape
<1>2. phase' \in AtWork \ {"main"} /\ PassPoint'
  BY DEF DecidePermute, PermPreflight, EndPerm, Stop, AtWork, PassPoint
<1>3. CASE UNCHANGED result
  BY <1>1, <1>2, <1>3, IdleKeepsPoints DEF Running, AtWork
<1>4. CASE \E failed \in BOOLEAN : Stop(failed, "status")
  BY <1>1, <1>4, StopKeepsPoints
<1>5. ASSUME NEW r, result' = [result EXCEPT ![at] = r],
             r.rootDone = result[at].rootDone, r.done = result[at].done, r.processed = result[at].processed
      PROVE  PointInv'
  <2>1. result[at].rootDone \in Positions /\ Onward(at)
    BY <1>1 DEF PointInv, PointsIn
  <2>2. QED BY <1>1, <1>2, <1>5, <2>1, WorkKeepsPoints DEF Onward, Saved
<1>6. CASE \E p : result' = [result EXCEPT ![at] = [result[at] EXCEPT !.perm = p]]
  <2>1. PICK p : result' = [result EXCEPT ![at] = [result[at] EXCEPT !.perm = p]]
    BY <1>6
  <2> DEFINE r == [result[at] EXCEPT !.perm = p]
  <2>2. r.rootDone = result[at].rootDone /\ r.done = result[at].done /\ r.processed = result[at].processed
    BY <1>1 DEF ResultFields
  <2>3. result' = [result EXCEPT ![at] = r]
    BY <2>1
  <2> HIDE DEF r
  <2>4. QED BY <1>5, <2>2, <2>3
<1>7. CASE EndPerm
  <2>1. PICK p : result' = [result EXCEPT ![at] =
          [result[at] EXCEPT !.failed = result[at].failed \/ pass.tripped, !.perm = p]]
    BY <1>7 DEF EndPerm
  <2> DEFINE r == [result[at] EXCEPT !.failed = result[at].failed \/ pass.tripped, !.perm = p]
  <2>2. r.rootDone = result[at].rootDone /\ r.done = result[at].done /\ r.processed = result[at].processed
    BY <1>1 DEF ResultFields
  <2>3. result' = [result EXCEPT ![at] = r]
    BY <2>1
  <2> HIDE DEF r
  <2>4. QED BY <1>5, <2>2, <2>3
<1>8. QED
  <2>1. CASE DecidePermute /\ ~UNCHANGED result
    <3>1. CASE result' = [result EXCEPT ![at].perm = [Saved.perm EXCEPT !.done = TRUE]]
      BY <1>6, <3>1
    <3>2. CASE result' = [result EXCEPT ![at].perm = [NoPerm EXCEPT !.started = TRUE]]
      BY <1>6, <3>2
    <3>3. QED BY <2>1, <3>1, <3>2 DEF DecidePermute
  <2>2. CASE PermPreflight
    BY <1>3, <1>4, <2>2 DEF PermPreflight
  <2>3. QED BY <1>3, <1>7, <2>1, <2>2

(* A target begun asks the logs, or has what an earlier run learnt of them.    *)
LEMMA BeginKeepsPoints ==
  ASSUME BudgetInv, PointInv, UNCHANGED world, BeginTarget, ~world.logsFail
  PROVE  PointInv'
<1>1. /\ UNCHANGED <<at, status, resume, file, signal>> /\ phase = "next" /\ phase' \in AtWork \ {"main"}
      /\ at \in TargetIndex /\ world \in World /\ (resume # NoState => ~Saved.done)
  BY DEF BeginTarget, ctlVars, diskVars, outputVars, AtWork, BudgetInv, RunShape, TargetIndex, World, Resuming
<1>2. Running /\ Running' /\ 0 \in Positions
  BY <1>1, WholeListHasLength DEF Running, AtWork
<1>3. PICK l : logs' = [logs EXCEPT ![at] = l] /\ KnownLogs(l) /\ l.names = world.logNames
  <2>1. CASE Resuming /\ Saved.logs.fetched /\ logs' = [logs EXCEPT ![at] = Saved.logs]
    <3>1. KnownLogs(Saved.logs)
      BY <1>1, <2>1 DEF PointInv, LogsKnown, Resuming, Saved
    <3>2. QED BY <2>1, <3>1 DEF KnownLogs
  <2>2. CASE logs' = [logs EXCEPT ![at] = [names |-> world.logNames, fetched |-> world.logNames # <<>>]]
    <3> DEFINE l == [names |-> world.logNames, fetched |-> world.logNames # <<>>]
    <3>1. l.names = world.logNames
      OBVIOUS
    <3> HIDE DEF l
    <3>2. logs' = [logs EXCEPT ![at] = l] /\ KnownLogs(l)
      BY <2>2, <3>1 DEF KnownLogs, l
    <3>3. QED BY <3>1, <3>2
  <2>3. QED BY <2>1, <2>2 DEF BeginTarget, AskLogs
<1>4. LogsKnown'
  <2>1. DOMAIN logs' = TargetIndex /\ \A i \in TargetIndex : logs'[i] = IF i = at THEN l ELSE logs[i]
    BY <1>3 DEF PointInv, LogsKnown
  <2>2. \A i \in TargetIndex : KnownLogs(logs[i])'
    BY <1>3, <2>1 DEF PointInv, LogsKnown, KnownLogs
  <2>3. QED BY <1>1, <1>3, <2>1, <2>2, SameWholeList DEF PointInv, LogsKnown, KnownLogs
<1>5. PICK r : /\ result' = [result EXCEPT ![at] = r] /\ r.rootDone \in Positions
               /\ resume # NoState /\ r.done => r.rootDone = Saved.rootDone /\ r.processed = Saved.processed
  <2>1. CASE result' = [result EXCEPT ![at] = Fresh0]
    <3>1. Fresh0.rootDone = 0 /\ Fresh0.done = FALSE
      BY DEF Fresh0
    <3>2. QED BY <1>2, <2>1, <3>1
  <2>2. CASE Resuming /\ result' = [result EXCEPT ![at] =
               [Fresh0 EXCEPT !.done = TRUE, !.rootDone = Saved.rootDone, !.processed = Saved.processed]]
    <3> DEFINE r == [Fresh0 EXCEPT !.done = TRUE, !.rootDone = Saved.rootDone, !.processed = Saved.processed]
    <3>1. r.rootDone = Saved.rootDone /\ r.processed = Saved.processed
      BY DEF Fresh0
    <3>2. Saved.rootDone \in Positions
      BY <1>1, <2>2 DEF PointInv, PointsIn, Resuming, Saved
    <3> HIDE DEF r
    <3>3. result' = [result EXCEPT ![at] = r]
      BY <2>2 DEF r
    <3>4. QED BY <3>1, <3>2, <3>3
  <2>3. QED BY <2>1, <2>2 DEF BeginTarget
<1>6. \A i \in TargetIndex : result'[i] = IF i = at THEN r ELSE result[i]
  BY <1>5 DEF BudgetInv, RunShape
<1>7. PointsIn'
  <2>1. resume # NoState => Saved.rootDone \in Int /\ Saved.processed \in Int
    BY <1>1, WholeListHasLength DEF PointInv, PointsIn, Saved, BudgetInv, InBudget, Positions
  <2>2. \A i \in TargetIndex : result'[i].rootDone \in Positions /\ Onward(i)'
    BY <1>1, <1>5, <1>6, <2>1 DEF PointInv, PointsIn, Onward, Saved
  <2>3. QED BY <1>1, <2>2, SameWholeList DEF PointInv, PointsIn
<1>8. DoneStays'
  <2>1. \A i \in TargetIndex : i < at => i # at
    BY <1>1, TargetOrder
  <2>2. QED BY <1>1, <1>2, <1>6, <2>1, SameWholeList DEF PointInv, DoneStays, Saved
<1>9. PassPoint'
  BY <1>1 DEF PassPoint
<1>10. QED BY <1>4, <1>7, <1>8, <1>9 DEF PointInv

(* Leaving a target behind. *)
LEMMA PassKeepsPoints ==
  ASSUME BudgetInv, PointInv, UNCHANGED <<world, logs, resume, file, signal>>, Running,
         phase' \in {"next", "over"}, NEW t \in TargetIndex, at = t, at' = t + 1,
         \A i \in TargetIndex : i < t => status'[i] = status[i],
         \A i \in TargetIndex : i # t => result'[i] = result[i],
         result'[t].rootDone \in Positions, Onward(t)',
         resume # NoState /\ resume[t].done =>
           status'[t] = "ok" /\ result'[t].done /\ ~result'[t].perm.started,
         status'[t] = "ok" \/ result'[t].failed \/ signal
  PROVE  PointInv'
<1>1. phase' \notin AtWork /\ world \in World
  BY DEF AtWork, BudgetInv, RunShape
<1>2. \A i \in TargetIndex : (i < at' => i < t \/ i = t) /\ (i < t => i # t)
  BY <1>1, TargetOrder
<1>3. LogsKnown'
  BY <1>1, SameWholeList DEF PointInv, LogsKnown, KnownLogs
<1>4. PointsIn'
  <2>1. \A i \in TargetIndex : result'[i].rootDone \in Positions /\ Onward(i)'
    BY DEF PointInv, PointsIn, Onward
  <2>2. QED BY <2>1, SameWholeList DEF PointInv, PointsIn
<1>5. DoneStays'
  <2>1. \A i \in TargetIndex : i < at' /\ resume # NoState /\ resume[i].done =>
          status'[i] = "ok" /\ result'[i].done /\ ~result'[i].perm.started
    BY <1>2 DEF PointInv, DoneStays
  <2>2. \A i \in TargetIndex : i < at' => status'[i] = "ok" \/ result'[i].failed \/ signal
    BY <1>2 DEF PointInv, DoneStays
  <2>3. QED BY <1>1, <2>1, <2>2, SameWholeList DEF DoneStays
<1>6. PassPoint'
  BY DEF PassPoint
<1>7. QED BY <1>3, <1>4, <1>5, <1>6 DEF PointInv

LEMMA SkipKeepsPoints ==
  ASSUME BudgetInv, SurviveInv, PointInv, UNCHANGED world, SkipFinished
  PROVE  PointInv'
<1>1. /\ UNCHANGED <<resume, file, signal, logs, phase>> /\ phase = "next" /\ Running
      /\ at \in TargetIndex /\ at' = at + 1 /\ resume # NoState
  BY DEF SkipFinished, ctlVars, diskVars, outputVars, BudgetInv, RunShape, TargetIndex, World, Running, Resuming
<1>2. PICK t \in TargetIndex : t = at
  BY <1>1
<1>3. status' = [status EXCEPT ![t] = "ok"]
  BY <1>2 DEF SkipFinished
<1>4. \A i \in TargetIndex : status'[i] = IF i = t THEN "ok" ELSE status[i]
  BY <1>3 DEF SurviveInv, Reached
<1> DEFINE r == [Fresh0 EXCEPT !.done = TRUE, !.rootDone = Saved.rootDone, !.processed = Saved.processed]
<1>5. result' = [result EXCEPT ![t] = r]
  BY <1>2 DEF SkipFinished
<1>6. r.done = TRUE /\ r.rootDone = resume[t].rootDone /\ r.processed = resume[t].processed
      /\ r.perm.started = FALSE
  BY <1>2 DEF Fresh0, NoPerm, Saved
<1> HIDE DEF r
<1>7. \A i \in TargetIndex : result'[i] = IF i = t THEN r ELSE result[i]
  BY <1>5 DEF BudgetInv, RunShape
<1>8. resume[t].rootDone \in Positions /\ resume[t].rootDone \in Int /\ resume[t].processed \in Int
  BY <1>1, WholeListHasLength DEF PointInv, PointsIn, BudgetInv, RunShape, InBudget
<1>9. /\ result'[t].rootDone \in Positions /\ Onward(t)'
      /\ result'[t].done /\ ~result'[t].perm.started /\ status'[t] = "ok"
  BY <1>1, <1>4, <1>6, <1>7, <1>8 DEF Onward
<1>10. /\ \A i \in TargetIndex : i < t => i # t
       /\ \A i \in TargetIndex : i # t => result'[i] = result[i]
  BY <1>7, TargetOrder DEF BudgetInv, RunShape
<1>11. \A i \in TargetIndex : i < t => status'[i] = status[i]
  BY <1>4, <1>10
<1>12. QED BY <1>1, <1>2, <1>9, <1>10, <1>11, PassKeepsPoints

LEMMA StatusKeepsPoints ==
  ASSUME BudgetInv, PointInv, UNCHANGED world, SetStatus
  PROVE  PointInv'
<1>1. /\ UNCHANGED <<resume, file, signal, logs, result>> /\ phase = "status" /\ Running
      /\ at \in TargetIndex /\ at' = at + 1 /\ phase' \in {"next", "over"}
  BY DEF SetStatus, ctlVars, diskVars, outputVars, BudgetInv, RunShape, AtWork, Running
<1>2. PICK t \in TargetIndex : t = at
  BY <1>1
<1>3. \A i \in TargetIndex : status'[i] = IF i = t THEN Verdict
                                          ELSE IF i > t /\ result[t].abort THEN "skipped" ELSE status[i]
  BY <1>2 DEF SetStatus
<1>4. \A i \in TargetIndex : i < t => status'[i] = status[i]
  <2>1. \A i \in TargetIndex : i < t => i # t /\ ~(i > t)
    <3>1. \A i \in TargetIndex : i \in Int /\ t \in Int
      BY TargetOrder DEF BudgetInv, RunShape
    <3>2. QED BY <3>1
  <2>2. QED BY <1>3, <2>1
<1>5. status'[t] = "ok" \/ result'[t].failed \/ signal
  BY <1>1, <1>2, <1>3 DEF Verdict
<1>6. result'[t].rootDone \in Positions /\ Onward(t)'
  BY <1>1 DEF PointInv, PointsIn, Onward
<1>7. resume # NoState => ~resume[t].done
  BY <1>1, <1>2 DEF PointInv, DoneStays, AtWork, Saved
<1>8. QED BY <1>1, <1>2, <1>4, <1>5, <1>6, <1>7, PassKeepsPoints

LEMMA SettleKeepsPoints ==
  ASSUME BudgetInv, PointInv, UNCHANGED world, Loop \/ CommitResults \/ Signal \/ Cancel \/ Kill
  PROVE  PointInv'
<1>1. /\ UNCHANGED <<at, status, logs, resume, file, result>> /\ (signal => signal')
  BY DEF Loop, CommitResults, Signal, Cancel, Kill, ctlVars, diskVars, outputVars, endVars
<1>2. Running /\ (phase' \in AtWork => phase \in AtWork)
  BY DEF Loop, CommitResults, Signal, Cancel, Kill, Running, AtWork
<1>3. CASE phase' = "main"
  <2>1. UNCHANGED <<phase, pass>>
    BY <1>3 DEF Loop, CommitResults, Signal, Cancel, Kill
  <2>2. PassPoint'
    BY <1>1, <2>1, SameWholeList DEF PointInv, PassPoint, Root, Saved
  <2>3. QED BY <1>1, <1>2, <2>2, IdleKeepsPoints
<1>4. CASE phase' # "main"
  BY <1>1, <1>2, <1>4, IdleKeepsPoints DEF PassPoint
<1>5. QED BY <1>3, <1>4

(* What is saved: the point a target reached, or the one it had.               *)
LEMMA SavedPoint ==
  ASSUME BudgetInv, PointInv, NEW i \in TargetIndex
  PROVE  KnownLogs(SavedTarget(i).logs) /\ SavedTarget(i).rootDone \in Positions
<1>1. 0 \in Positions
  BY WholeListHasLength DEF BudgetInv, RunShape
<1>2. CASE Unreached(i)
  BY <1>2 DEF SavedTarget, Unreached, Resuming, PointInv, LogsKnown, PointsIn
<1>3. CASE ~Unreached(i)
  <2>1. SavedTarget(i).logs = logs[i] /\ SavedTarget(i).rootDone = ResumePoint(i, result[i])[1]
    BY <1>3 DEF SavedTarget
  <2>2. ResumePoint(i, result[i])[1] \in Positions
    BY <1>1 DEF ResumePoint, Resuming, PointInv, PointsIn
  <2>3. QED BY <2>1, <2>2 DEF PointInv, LogsKnown
<1>4. QED BY <1>2, <1>3

LEMMA FinishKeepsPoints ==
  ASSUME BudgetInv, PointInv, UNCHANGED world, Finish
  PROVE  PointInv'
<1>1. /\ UNCHANGED <<at, status, logs, resume, result, signal>> /\ phase' = "commit" /\ Running
  BY DEF Finish, ctlVars, endVars, Running
<1>2. phase' \notin AtWork /\ PassPoint'
  BY <1>1 DEF AtWork, PassPoint
<1>3. file' # NoState => \A i \in TargetIndex : KnownLogs(file'[i].logs) /\ file'[i].rootDone \in Positions
  <2>1. CASE file' = [i \in TargetIndex |-> SavedTarget(i)]
    BY <2>1, SavedPoint
  <2>2. CASE file' = file
    BY <2>2 DEF PointInv, LogsKnown, PointsIn
  <2>3. QED BY <2>1, <2>2 DEF Finish
<1>4. LogsKnown' /\ PointsIn'
  BY <1>1, <1>2, <1>3, SameWholeList DEF PointInv, LogsKnown, KnownLogs, PointsIn, Onward
<1>5. DoneStays'
  BY <1>1, <1>2, SameWholeList DEF PointInv, DoneStays
<1>6. QED BY <1>2, <1>4, <1>5 DEF PointInv

LEMMA RestartKeepsPoints ==
  ASSUME BudgetInv, PointInv, UNCHANGED world, Restart
  PROVE  PointInv'
<1>1. /\ UNCHANGED file /\ resume' = file /\ phase' = "next" /\ at' = 1
      /\ logs' = Each(NoLogs) /\ result' = Each(Fresh0)
  BY DEF Restart, outputVars
<1>2. phase' \notin AtWork /\ PassPoint' /\ TargetIndex' = TargetIndex
  BY <1>1 DEF AtWork, PassPoint, TargetIndex
<1>3. 0 \in Positions /\ \A i \in TargetIndex : ~(i < 1)
  BY WholeListHasLength DEF TargetIndex, BudgetInv, RunShape, World
<1>4. LogsKnown' /\ PointsIn'
  BY <1>1, <1>2, <1>3, SameWholeList
     DEF PointInv, LogsKnown, KnownLogs, PointsIn, Onward, Each, NoLogs, Fresh0
<1>5. DoneStays'
  BY <1>1, <1>2, <1>3 DEF DoneStays
<1>6. QED BY <1>2, <1>4, <1>5 DEF PointInv

LEMMA InitPoints == Init => PointInv
<1> SUFFICES ASSUME Init PROVE PointInv
  OBVIOUS
<1>1. /\ file = NoState /\ resume = NoState /\ phase = "next" /\ at = 1
      /\ logs = Each(NoLogs) /\ result = Each(Fresh0) /\ world \in World
  BY ResumeAssumption DEF Init
<1>2. phase \notin AtWork /\ PassPoint
  BY <1>1 DEF AtWork, PassPoint
<1>3. 0 \in Positions /\ \A i \in TargetIndex : ~(i < 1)
  <2>1. world.targets \in Nat
    BY <1>1 DEF World
  <2>2. QED BY <1>1, <2>1, WholeListHasLength DEF TargetIndex
<1>4. LogsKnown /\ PointsIn
  BY <1>1, <1>2, <1>3 DEF LogsKnown, KnownLogs, PointsIn, Onward, Each, NoLogs, Fresh0
<1>5. DoneStays
  BY <1>1, <1>2, <1>3 DEF DoneStays
<1>6. QED BY <1>2, <1>4, <1>5 DEF PointInv

LEMMA NextKeepsPoints ==
  ASSUME BudgetInv, SurviveInv, PointInv, ~world.logsFail, [Next]_vars
  PROVE  PointInv'
<1>1. CASE UNCHANGED vars
  BY <1>1, SameWholeList DEF vars, PointInv, LogsKnown, KnownLogs, PointsIn, Onward, DoneStays, PassPoint, Root,
     Saved, Running
<1>2. CASE Scan /\ UNCHANGED world
  BY <1>2, ScanFrame, DispatchKeepsPoints, ReportKeepsPoints DEF Scan
<1>3. CASE Run /\ UNCHANGED world
  BY <1>3, BeginKeepsPoints, SkipKeepsPoints, PreflightKeepsPoints, EndMainKeepsPoints, PermKeepsPoints,
     StatusKeepsPoints, SettleKeepsPoints, FinishKeepsPoints DEF Run
<1>4. CASE (Signal \/ Cancel \/ Kill) /\ UNCHANGED world
  BY <1>4, SettleKeepsPoints
<1>5. CASE Restart /\ UNCHANGED world
  BY <1>5, RestartKeepsPoints
<1>6. QED BY <1>1, <1>2, <1>3, <1>4, <1>5 DEF Next

-----------------------------------------------------------------------------
(***************************************************************************)
(* What the resume point covers.  When no lookup fails, an entry a pass    *)
(* has handed out and that resolves is among the target's hits, or one of  *)
(* the same name is still unsettled at or before it: an entry is settled   *)
(* at once when its name was handed out before, and only the first of them *)
(* waits for the answer.                                                   *)
(***************************************************************************)
Quiet == ~world.flaky /\ ~world.logsFail

Told(n) == Resolves(n) => n \in AllNames(cur)

Covers(k, hits) == \A m \in 1..k : Resolves(WholeList[m]) => WholeList[m] \in AllNames(hits)

(* What target i has gathered by now. *)
Gathered(i) == IF i < at THEN kept[i] ELSE IF i = at /\ phase \in AtWork THEN cur ELSE {}

NothingFails ==
  /\ \A i \in TargetIndex : ~result[i].failed /\ ~result[i].abort /\ status[i] # "skipped"
  /\ ~pass.failures /\ ~pass.tripped

Covered ==
  /\ Running => \A i \in TargetIndex : Covers(result[i].rootDone, Gathered(i))
  /\ resume # NoState => \A i \in TargetIndex : Covers(resume[i].rootDone, resume[i].results)
  /\ file # NoState => \A i \in TargetIndex : Covers(file[i].rootDone, file[i].results)

(* An entry handed out: told, or one of its name is unsettled at or before it. *)
Waiting(m) == \E k \in pass.from..m : pass.list[k + 1] = pass.list[m + 1] /\ k \notin pass.marks

ListTold ==
  /\ \A m \in pass.from..(pass.next - 1) : Told(pass.list[m + 1]) \/ Waiting(m)
  /\ \A pair \in pass.heard : Told(pair[1].name)
  /\ \A job \in pass.kids : job.root = -1
  /\ pass.next < Len(pass.list) =>
       \A n \in pass.seen : \E m \in pass.from..(pass.next - 1) : pass.list[m + 1] = n

PassTold == phase = "main" => ListTold

Placed ==
  /\ DOMAIN pass = PassFields /\ pass.from \in Nat /\ Len(pass.list) \in Nat
  /\ pass.next \in pass.from..Len(pass.list) /\ pass.marks \subseteq pass.from..(pass.next - 1)

ToldInv == NothingFails /\ Covered /\ PassTold

LEMMA MoreCovers ==
  ASSUME NEW k, NEW some, NEW more, some \subseteq more, Covers(k, some)
  PROVE  Covers(k, more)
<1>1. AllNames(some) \subseteq AllNames(more)
  BY DEF AllNames
<1>2. QED BY <1>1 DEF Covers

LEMMA SameCovers ==
  ASSUME UNCHANGED world, NEW k, NEW hits, Covers(k, hits)
  PROVE  Covers(k, hits)'
  BY SameWholeList DEF Covers, Resolves, AllNames

LEMMA SameTold ==
  ASSUME UNCHANGED world, cur \subseteq cur', NEW n, Told(n)
  PROVE  Told(n)'
<1>1. AllNames(cur) \subseteq AllNames(cur')
  BY DEF AllNames
<1>2. Resolves(n)' = Resolves(n) /\ AllNames(cur)' = AllNames(cur')
  BY DEF Resolves, AllNames
<1>3. QED BY <1>1, <1>2 DEF Told

(* A hit is among the target's results, or was restored with them. *)
LEMMA HitIsTold ==
  ASSUME BudgetInv, SurviveInv, phase \in AtWork, NEW hit, Emit(hit)
  PROVE  hit.name \in AllNames(cur')
<1>1. CASE Fresh(hit.name)
  BY <1>1 DEF Emit, AllNames
<1>2. CASE ~Fresh(hit.name)
  <2>1. Resuming /\ hit.name \in AllNames(Saved.results)
    BY <1>2 DEF Fresh, Resuming, AllNames, Saved
  <2>2. Running
    BY DEF Running, AtWork
  <2>3. Saved.results \subseteq cur /\ cur' = cur
    BY <1>2, <2>1, <2>2 DEF Emit, SurviveInv, Restored
  <2>4. QED BY <2>1, <2>3 DEF AllNames
<1>3. QED BY <1>1, <1>2

(* The scan. *)
LEMMA ScanFails ==
  ASSUME BudgetInv, ToldInv, Quiet, Scan
  PROVE  ~pass'.failures /\ ~pass'.tripped
<1>1. ~pass.failures /\ ~pass.tripped /\ DOMAIN pass = PassFields
  BY DEF ToldInv, NothingFails, BudgetInv, RunShape
<1>2. CASE Dispatch
  <2>1. PICK job, next, kids : Hand(job, next, kids)
    BY <1>2 DEF Dispatch
  <2>2. QED BY <1>1, <2>1 DEF Hand, PassFields
<1>3. CASE Trip
  BY <1>1, <1>3 DEF Trip
<1>4. ASSUME NEW job, NEW o, Answer(job, o)
      PROVE  ~pass'.failures /\ ~pass'.tripped
  <2>1. /\ o # "failed"
        /\ pass' = [pass EXCEPT !.flight = @ \ {job}, !.counted = @ + 1,
                     !.failures = @ \/ o = "failed", !.heard = @ \cup {<<job, o = "found">>}]
    BY <1>4 DEF Answer, Quiet
  <2>2. pass'.failures = (pass.failures \/ o = "failed") /\ pass'.tripped = pass.tripped
    BY <1>1, <2>1 DEF PassFields
  <2>3. QED BY <1>1, <2>1, <2>2
<1>5. ASSUME NEW pair, Complete(pair[1], pair[2])
      PROVE  ~pass'.failures /\ ~pass'.tripped
  BY <1>1, <1>5 DEF Complete, PassFields
<1>6. QED BY <1>2, <1>3, <1>4, <1>5 DEF Scan

LEMMA ScanCovers ==
  ASSUME BudgetInv, SurviveInv, PointInv, ToldInv, Quiet, UNCHANGED world, Scan, PassTold'
  PROVE  ToldInv'
<1>1. /\ UNCHANGED <<at, status, kept, resume, file, result, phase>> /\ phase \in AtWork
      /\ cur \subseteq cur' /\ TargetIndex' = TargetIndex
  BY DEF Scan, Dispatch, Answer, Complete, Trip, Emit, ctlVars, diskVars, outputVars, endVars, Scanning, AtWork,
     TargetIndex
<1>2. NothingFails'
  BY <1>1, ScanFails DEF ToldInv, NothingFails
<1>3. ASSUME NEW i \in TargetIndex PROVE Covers(result[i].rootDone, Gathered(i))'
  <2>1. Covers(result[i].rootDone, Gathered(i)) /\ Gathered(i) \subseteq Gathered(i)'
    BY <1>1, <1>3 DEF ToldInv, Covered, Running, AtWork, Gathered
  <2>2. Covers(result[i].rootDone, Gathered(i)')
    BY <2>1, MoreCovers
  <2>3. QED BY <1>1, <2>2, SameWholeList DEF Covers, Resolves, AllNames
<1>4. Covered'
  BY <1>1, <1>3, SameCovers, SameWholeList DEF ToldInv, Covered, Covers, Resolves, AllNames
<1>5. QED BY <1>2, <1>4 DEF ToldInv

LEMMA TripTells ==
  ASSUME ToldInv
  PROVE  ~Trip
  BY DEF Trip, ToldInv, NothingFails

LEMMA DispatchTells ==
  ASSUME Placed, ListTold, UNCHANGED world, Dispatch
  PROVE  ListTold'
<1>1. cur' = cur /\ \A n : Told(n)' = Told(n)
  BY DEF Dispatch, Told, Resolves, AllNames
<1>2. CASE pass.next = Len(pass.list)
  <2>1. PICK job \in pass.kids : Hand(job, pass.next, pass.kids \ {job})
    <3>1. ~(pass.next < Len(pass.list))
      BY <1>2 DEF Placed
    <3>2. QED BY <3>1 DEF Dispatch
  <2>2. job.root = -1
    BY <2>1 DEF ListTold
  <2>3. /\ pass'.list = pass.list /\ pass'.from = pass.from /\ pass'.next = pass.next
        /\ pass'.heard = pass.heard /\ pass'.marks = pass.marks /\ pass'.kids = pass.kids \ {job}
    BY <2>1, <2>2 DEF Hand, Placed, PassFields
  <2>4. ~(pass'.next < Len(pass'.list))
    BY <1>2, <2>3 DEF Placed
  <2>5. QED BY <1>1, <2>3, <2>4 DEF ListTold, Waiting
<1>3. CASE pass.next < Len(pass.list)
  <2> DEFINE here == pass.next
             n == pass.list[here + 1]
             job == [name |-> n, depth |-> 1, root |-> here]
             Open(m) == \E k \in pass'.from..m : pass.list[k + 1] = pass.list[m + 1] /\ k \notin pass'.marks
  <2>1. Hand(job, here + 1, pass.kids)
    BY <1>3 DEF Dispatch, Placed
  <2>2. job.name = n /\ job.root = here /\ here # -1 /\ here \in Nat /\ here \notin pass.marks
    BY DEF Placed
  <2> HIDE DEF job, n
  <2>3. /\ pass'.list = pass.list /\ pass'.from = pass.from /\ pass'.next = here + 1
        /\ pass'.heard = pass.heard /\ pass'.kids = pass.kids
        /\ IF n \in pass.seen THEN pass'.marks = pass.marks \cup {here} /\ pass'.seen = pass.seen
           ELSE pass'.marks = pass.marks /\ pass'.seen = pass.seen \cup {n}
    <3>1. CASE n \in pass.seen
      <4>1. pass' = [pass EXCEPT !.next = here + 1, !.kids = pass.kids, !.marks = @ \cup {here}]
        BY <2>1, <2>2, <3>1 DEF Hand
      <4>2. QED BY <3>1, <4>1 DEF Placed, PassFields
    <3>2. CASE n \notin pass.seen
      <4>1. pass' = [pass EXCEPT !.next = here + 1, !.kids = pass.kids, !.begun = @ + 1,
                       !.seen = @ \cup {n}, !.flight = @ \cup {job}]
        BY <2>1, <2>2, <3>2 DEF Hand
      <4>2. QED BY <3>2, <4>1 DEF Placed, PassFields
    <3>3. QED BY <3>1, <3>2
  <2>4. \A m \in pass'.from..(pass'.next - 1) : m \in pass.from..(here - 1) \/ m = here
    BY <2>3 DEF Placed
  <2>5. \A m : m \in pass.from..(here - 1) => m # here /\ here \notin pass.from..m /\ m \in pass.from..here
                                              /\ pass.from..m \subseteq pass.from..here
    BY DEF Placed
  <2>6. ASSUME NEW m \in pass.from..(here - 1)
        PROVE  Told(pass.list[m + 1]) \/ Open(m)
    <3>1. Told(pass.list[m + 1]) \/ Waiting(m)
      BY DEF ListTold
    <3>2. ASSUME Waiting(m) PROVE Open(m)
      <4>1. PICK k \in pass.from..m : pass.list[k + 1] = pass.list[m + 1] /\ k \notin pass.marks
        BY <3>2 DEF Waiting
      <4>2. k # here
        BY <2>5
      <4>3. k \notin pass'.marks
        BY <2>3, <4>1, <4>2
      <4>4. QED BY <2>3, <4>1, <4>3
    <3>3. QED BY <3>1, <3>2
  <2>7. Told(n) \/ Open(here)
    <3>1. CASE n \in pass.seen
      <4>1. PICK m \in pass.from..(here - 1) : pass.list[m + 1] = n
        BY <1>3, <3>1 DEF ListTold
      <4>2. CASE Told(n)
        BY <4>2
      <4>3. CASE Open(m)
        BY <2>3, <2>5, <4>1, <4>3 DEF n
      <4>4. QED BY <2>6, <4>1, <4>2, <4>3
    <3>2. CASE n \notin pass.seen
      <4>1. here \in pass'.from..here /\ here \notin pass'.marks
        BY <2>2, <2>3, <3>2 DEF Placed
      <4>2. QED BY <4>1
    <3>3. QED BY <3>1, <3>2
  <2>8. \A m \in pass'.from..(pass'.next - 1) : Told(pass.list[m + 1]) \/ Open(m)
    BY <2>4, <2>6, <2>7 DEF n
  <2>9. \A s \in pass'.seen : \E m \in pass'.from..(pass'.next - 1) : pass.list[m + 1] = s
    <3>1. \A s \in pass.seen : \E m \in pass'.from..(pass'.next - 1) : pass.list[m + 1] = s
      BY <1>3, <2>3 DEF ListTold, Placed
    <3>2. here \in pass'.from..(pass'.next - 1) /\ pass.list[here + 1] = n
      BY <2>3 DEF n, Placed
    <3>3. \A s \in pass'.seen : s \in pass.seen \/ s = n
      BY <2>3
    <3>4. QED BY <3>1, <3>2, <3>3
  <2>10. \A m : Waiting(m)' = Open(m)
    BY <2>3 DEF Waiting
  <2>11. \A m \in pass'.from..(pass'.next - 1) : (Told(pass.list[m + 1]) \/ Waiting(m))'
    BY <1>1, <2>3, <2>8, <2>10
  <2>12. QED BY <1>1, <2>3, <2>9, <2>11 DEF ListTold
<1>4. QED BY <1>2, <1>3 DEF Placed

LEMMA AnswerTells ==
  ASSUME BudgetInv, SurviveInv, ListTold, UNCHANGED world, NEW job, NEW o, Answer(job, o), Quiet,
         o \in {"found", "nxdomain", "failed"}
  PROVE  ListTold'
<1>1. phase \in AtWork /\ DOMAIN pass = PassFields /\ cur \subseteq cur'
  BY DEF Answer, Emit, Scanning, AtWork, BudgetInv, RunShape
<1>2. /\ pass'.list = pass.list /\ pass'.from = pass.from /\ pass'.next = pass.next
      /\ pass'.marks = pass.marks /\ pass'.seen = pass.seen /\ pass'.kids = pass.kids
      /\ pass'.heard = pass.heard \cup {<<job, o = "found">>}
  <2>1. pass' = [pass EXCEPT !.flight = @ \ {job}, !.counted = @ + 1,
                   !.failures = @ \/ o = "failed", !.heard = @ \cup {<<job, o = "found">>}]
    BY DEF Answer
  <2>2. QED BY <1>1, <2>1 DEF PassFields
<1>3. Told(job.name)'
  <2>1. CASE o = "found"
    <3> DEFINE hit == [name |-> job.name, perm |-> phase = "perm"]
    <3>1. Emit(hit) /\ hit.name = job.name
      BY <2>1 DEF Answer
    <3> HIDE DEF hit
    <3>2. job.name \in AllNames(cur')
      BY <1>1, <3>1, HitIsTold
    <3>3. QED BY <3>2 DEF Told, AllNames
  <2>2. CASE o = "nxdomain"
    BY <2>2 DEF Answer, Told, Resolves
  <2>3. QED BY <2>1, <2>2 DEF Answer, Quiet
<1>4. \A n : Told(n) => Told(n)'
  BY <1>1, SameTold
<1>5. \A pair \in pass'.heard : Told(pair[1].name)'
  <2>1. <<job, o = "found">>[1] = job
    OBVIOUS
  <2>2. \A pair \in pass.heard : Told(pair[1].name)'
    BY <1>4 DEF ListTold
  <2>3. QED BY <1>2, <1>3, <2>1, <2>2
<1>6. QED BY <1>2, <1>4, <1>5 DEF ListTold, Waiting

LEMMA CompleteTells ==
  ASSUME DOMAIN pass = PassFields, ListTold, UNCHANGED world,
         NEW pair \in pass.heard, Complete(pair[1], pair[2]),
         pair[1].root # -1 => pass.list[pair[1].root + 1] = pair[1].name
  PROVE  ListTold'
<1>1. cur' = cur /\ \A n : Told(n)' = Told(n)
  BY DEF Complete, Told, Resolves, AllNames
<1>2. Told(pair[1].name)
  BY DEF ListTold
<1>3. /\ pass'.list = pass.list /\ pass'.from = pass.from /\ pass'.next = pass.next
      /\ pass'.seen = pass.seen /\ pass'.heard \subseteq pass.heard
      /\ \/ pass'.marks = pass.marks
         \/ pass'.marks = (IF pair[1].root = -1 THEN pass.marks ELSE pass.marks \cup {pair[1].root})
      /\ pass'.kids \subseteq pass.kids \cup Children(pass.list, pair[1].name, pair[1].depth + 1)
  <2> DEFINE kids == pass.kids \cup Children(pass.list, pair[1].name, pair[1].depth + 1)
             marks == IF pair[1].root = -1 THEN pass.marks ELSE pass.marks \cup {pair[1].root}
  <2>1. CASE \E ks \in SUBSET kids :
               pass' = [pass EXCEPT !.heard = @ \ {<<pair[1], pair[2]>>}, !.marks = marks, !.kids = ks]
    BY <2>1 DEF PassFields
  <2>2. CASE pass' = [pass EXCEPT !.heard = @ \ {<<pair[1], pair[2]>>}]
    BY <2>2 DEF PassFields
  <2>3. QED BY <2>1, <2>2 DEF Complete
<1>4. \A job \in pass'.kids : job.root = -1
  <2> DEFINE below == Children(pass.list, pair[1].name, pair[1].depth + 1)
  <2>1. \A job \in below : job.root = -1
    BY ChildrenAreNoRoots
  <2> HIDE DEF below
  <2>2. pass'.kids \subseteq pass.kids \cup below
    BY <1>3 DEF below
  <2>3. QED BY <2>1, <2>2 DEF ListTold
<1> DEFINE Open(m) == \E k \in pass'.from..m : pass.list[k + 1] = pass.list[m + 1] /\ k \notin pass'.marks
<1>5. ASSUME NEW m \in pass.from..(pass.next - 1)
      PROVE  Told(pass.list[m + 1]) \/ Open(m)
  <2>1. Told(pass.list[m + 1]) \/ Waiting(m)
    BY DEF ListTold
  <2>2. ASSUME Waiting(m), ~Told(pass.list[m + 1]) PROVE Open(m)
    <3>1. PICK k \in pass.from..m : pass.list[k + 1] = pass.list[m + 1] /\ k \notin pass.marks
      BY <2>2 DEF Waiting
    <3>2. pair[1].root # -1 => k # pair[1].root
      BY <1>2, <2>2, <3>1
    <3>3. k \notin pass'.marks
      BY <1>3, <3>1, <3>2
    <3>4. QED BY <1>3, <3>1, <3>3
  <2>3. QED BY <2>1, <2>2
<1>6. \A m \in pass'.from..(pass'.next - 1) : (Told(pass.list[m + 1]) \/ Waiting(m))'
  <2>1. \A m : Waiting(m)' = Open(m)
    BY <1>3 DEF Waiting
  <2>2. QED BY <1>1, <1>3, <1>5, <2>1
<1>7. QED
  <2>1. \A p \in pass'.heard : Told(p[1].name)'
    BY <1>1, <1>3 DEF ListTold
  <2>2. pass'.next < Len(pass'.list) =>
          \A n \in pass'.seen : \E m \in pass'.from..(pass'.next - 1) : pass'.list[m + 1] = n
    BY <1>3 DEF ListTold
  <2>3. QED BY <1>3, <1>4, <1>6, <2>1, <2>2 DEF ListTold

LEMMA ScanTells ==
  ASSUME BudgetInv, SurviveInv, PointInv, ToldInv, Quiet, UNCHANGED world, Scan
  PROVE  ToldInv'
<1>1. phase' = phase /\ DOMAIN pass = PassFields
  BY DEF Scan, Dispatch, Answer, Complete, Trip, BudgetInv, RunShape
<1>2. PassTold'
  <2> SUFFICES ASSUME phase = "main" PROVE ListTold'
    BY <1>1 DEF PassTold
  <2>1. ListTold
    BY DEF ToldInv, PassTold
  <2>2. Placed /\ pass.list = WholeList
    BY <1>1, WholeListHasLength DEF PointInv, PassPoint, Placed, BudgetInv, RunShape
  <2>3. \A pair \in pass.heard : pair[1].root # -1 => pass.list[pair[1].root + 1] = pair[1].name
    BY <2>2 DEF PointInv, PassPoint, Root
  <2>4. ASSUME NEW pair \in pass.heard, Complete(pair[1], pair[2]) PROVE ListTold'
    BY <1>1, <2>1, <2>3, <2>4, CompleteTells
  <2>5. ASSUME NEW job, NEW o \in {"found", "nxdomain", "failed"}, Answer(job, o) PROVE ListTold'
    BY <2>1, <2>5, AnswerTells
  <2>6. QED BY <2>1, <2>2, <2>4, <2>5, DispatchTells, TripTells DEF Scan
<1>3. QED BY <1>2, ScanCovers

(* The steps of the current target set its own result only. *)
LEMMA WorkTells ==
  ASSUME BudgetInv, PointInv, ToldInv, UNCHANGED <<world, at, status, kept, cur, resume, file>>,
         phase \in AtWork, phase' \in AtWork, PassTold', ~pass'.failures, ~pass'.tripped,
         NEW r, result' = [result EXCEPT ![at] = r], ~r.failed, ~r.abort, Covers(r.rootDone, cur)
  PROVE  ToldInv'
<1>1. /\ DOMAIN result = TargetIndex /\ at \in TargetIndex /\ world \in World
      /\ TargetIndex' = TargetIndex
  BY DEF BudgetInv, RunShape, TargetIndex
<1>2. \A i \in TargetIndex : result'[i] = IF i = at THEN r ELSE result[i]
  BY <1>1
<1>3. NothingFails'
  BY <1>1, <1>2 DEF ToldInv, NothingFails
<1>4. ASSUME NEW i \in TargetIndex PROVE Covers(result'[i].rootDone, Gathered(i)')
  <2>1. Gathered(i)' = Gathered(i) /\ (i = at => Gathered(i) = cur)
    <3>1. i = at => ~(i < at)
      BY <1>1, TargetOrder
    <3>2. QED BY <3>1 DEF Gathered
  <2>2. Covers(result[i].rootDone, Gathered(i))
    BY DEF ToldInv, Covered, Running, AtWork
  <2>3. QED BY <1>2, <2>1, <2>2
<1>5. Covered'
  BY <1>1, <1>4, SameWholeList DEF ToldInv, Covered, Covers, Resolves, AllNames
<1>6. QED BY <1>3, <1>5 DEF ToldInv

(* A step that only moves on. *)
LEMMA IdleTells ==
  ASSUME BudgetInv, ToldInv, UNCHANGED <<world, at, status, kept, resume, file, result>>,
         PassTold', ~pass'.failures, ~pass'.tripped, Running,
         Running' => cur' = cur /\ (phase \in AtWork <=> phase' \in AtWork)
  PROVE  ToldInv'
<1>1. TargetIndex' = TargetIndex
  BY DEF TargetIndex
<1>2. NothingFails'
  BY <1>1 DEF ToldInv, NothingFails
<1>3. Running' => \A i \in TargetIndex : Covers(result[i].rootDone, Gathered(i)')
  BY DEF ToldInv, Covered, Gathered
<1>4. Covered'
  BY <1>1, <1>3, SameWholeList DEF ToldInv, Covered, Covers, Resolves, AllNames
<1>5. QED BY <1>2, <1>4 DEF ToldInv

LEMMA NoPassFails ==
  ASSUME pass' = NoPass
  PROVE  ~pass'.failures /\ ~pass'.tripped
<1>1. pass' = NewPass(<<>>, 0, {}, FALSE, 0)
  BY DEF NoPass
<1>2. QED BY <1>1, NewPassFields

LEMMA StopTells ==
  ASSUME BudgetInv, PointInv, ToldInv, phase \in AtWork, NEW next \in {"permute", "status"},
         Stop(FALSE, next), UNCHANGED <<world, at, status, kept, cur, resume, file>>
  PROVE  ToldInv'
<1> DEFINE r == [result[at] EXCEPT !.failed = @ \/ FALSE]
<1>1. phase' = next /\ result' = [result EXCEPT ![at] = r] /\ UNCHANGED pass
  BY DEF Stop
<1>2. at \in TargetIndex /\ DOMAIN result[at] = ResultFields /\ ~result[at].failed /\ ~result[at].abort
      /\ ~pass.failures /\ ~pass.tripped
  BY DEF BudgetInv, RunShape, ToldInv, NothingFails
<1>3. r.rootDone = result[at].rootDone /\ ~r.failed /\ ~r.abort
  BY <1>2 DEF ResultFields
<1> HIDE DEF r
<1>4. phase' \in AtWork /\ PassTold'
  BY <1>1 DEF AtWork, PassTold
<1>5. Covers(result[at].rootDone, cur)
  <2>1. ~(at < at)
    BY <1>2, TargetOrder DEF BudgetInv, RunShape
  <2>2. QED BY <1>2, <2>1 DEF ToldInv, Covered, Gathered, Running, AtWork
<1>6. QED BY <1>1, <1>2, <1>3, <1>4, <1>5, WorkTells

LEMMA PreflightTells ==
  ASSUME BudgetInv, PointInv, PointInv', ToldInv, Quiet, UNCHANGED world, Preflight
  PROVE  ToldInv'
<1>1. /\ UNCHANGED <<at, status, kept, cur, resume, file>> /\ phase = "preflight" /\ phase \in AtWork
      /\ world \in World
  BY DEF Preflight, ctlVars, diskVars, outputVars, AtWork, BudgetInv, RunShape
<1>2. CASE Stop(FALSE, "permute")
  BY <1>1, <1>2, StopTells
<1>3. CASE ~Stop(FALSE, "permute")
  <2>1. UNCHANGED result /\ phase' = "main"
    BY <1>3 DEF Preflight, Quiet
  <2>2. PICK list, from, parents, deep, cap : pass' = NewPass(list, from, parents, deep, cap)
    BY <1>3 DEF Preflight, Quiet
  <2>3. /\ pass'.next = pass'.from /\ pass'.heard = {} /\ pass'.seen = {} /\ ~pass'.failures /\ ~pass'.tripped
        /\ \A job \in pass'.kids : job.root = -1
    BY <2>2, NewPassFields
  <2>4. pass'.from \in Nat
    BY <2>1 DEF PointInv, PassPoint
  <2>5. \A m : m \notin pass'.from..(pass'.next - 1)
    BY <2>3, <2>4
  <2>6. PassTold'
    BY <2>3, <2>5 DEF PassTold, ListTold
  <2>7. QED BY <1>1, <2>1, <2>3, <2>6, IdleTells DEF Running, AtWork
<1>4. QED BY <1>2, <1>3

(* What a pass has settled is told; with the saved point, all of the watermark. *)
LEMMA SettledIsTold ==
  ASSUME Placed, ListTold
  PROVE  /\ Watermark \in pass.from..Len(pass.list)
         /\ \A m \in 1..Watermark : m \in 1..pass.from \/ Told(pass.list[m])
<1>1. /\ Watermark \in pass.from..Len(pass.list)
      /\ \A m \in pass.from..(Watermark - 1) : m \in pass.marks
      /\ pass.marks \subseteq pass.from..(pass.next - 1) /\ pass.from \in Nat
  BY WatermarkIsLeast DEF Placed
<1>2. ASSUME NEW m \in 1..Watermark, ~(m \in 1..pass.from)
      PROVE  Told(pass.list[m])
  <2>1. /\ m - 1 \in pass.from..(Watermark - 1) /\ (m - 1) + 1 = m
        /\ \A k \in pass.from..(m - 1) : k \in pass.from..(Watermark - 1)
    BY <1>1, <1>2
  <2>2. m - 1 \in pass.from..(pass.next - 1) /\ \A k \in pass.from..(m - 1) : k \in pass.marks
    BY <1>1, <2>1
  <2>3. ~Waiting(m - 1)
    BY <2>2 DEF Waiting
  <2>4. QED BY <2>1, <2>2, <2>3 DEF ListTold
<1>3. QED BY <1>1, <1>2

LEMMA WatermarkCovers ==
  ASSUME BudgetInv, SurviveInv, PointInv, ToldInv, phase = "main"
  PROVE  Covers(Watermark, cur)
<1>1. /\ Placed /\ pass.list = WholeList /\ ListTold
      /\ pass.from = (IF resume # NoState THEN Saved.rootDone ELSE 0)
  BY WholeListHasLength DEF PointInv, PassPoint, BudgetInv, RunShape, Placed, ToldInv, PassTold
<1>2. Covers(pass.from, cur)
  <2>1. CASE resume # NoState
    <3>1. at \in TargetIndex /\ phase \in AtWork /\ Running
      BY DEF BudgetInv, RunShape, AtWork, Running
    <3>2. Saved.results \subseteq cur /\ Covers(Saved.rootDone, Saved.results)
      BY <2>1, <3>1 DEF SurviveInv, Restored, Resuming, Saved, ToldInv, Covered
    <3>3. QED BY <1>1, <2>1, <3>2, MoreCovers
  <2>2. CASE resume = NoState
    BY <1>1, <2>2 DEF Covers
  <2>3. QED BY <2>1, <2>2
<1>3. QED BY <1>1, <1>2, SettledIsTold DEF Covers, Told

LEMMA EndMainTells ==
  ASSUME BudgetInv, SurviveInv, PointInv, ToldInv, UNCHANGED world, EndMain
  PROVE  ToldInv'
<1>1. /\ UNCHANGED <<at, status, kept, cur, resume, file>> /\ phase = "main" /\ phase' = "permute"
      /\ phase \in AtWork /\ phase' \in AtWork /\ at \in TargetIndex /\ pass' = NoPass
  BY DEF EndMain, ctlVars, diskVars, outputVars, AtWork, BudgetInv, RunShape
<1> DEFINE r == [result[at] EXCEPT !.done = TRUE, !.abort = pass.tripped, !.failed = pass.tripped,
                   !.rootDone = Watermark,
                   !.processed = pass.counted + IF Resuming THEN Saved.processed ELSE 0]
<1>2. result' = [result EXCEPT ![at] = r] /\ DOMAIN result[at] = ResultFields
  BY <1>1 DEF EndMain, BudgetInv, RunShape
<1>3. r.rootDone = Watermark /\ r.failed = pass.tripped /\ r.abort = pass.tripped
  BY <1>2 DEF ResultFields
<1> HIDE DEF r
<1>4. ~pass.tripped /\ PassTold'
  BY <1>1 DEF ToldInv, NothingFails, PassTold
<1>5. QED BY <1>1, <1>2, <1>3, <1>4, NoPassFails, WatermarkCovers, WorkTells

LEMMA PermTells ==
  ASSUME BudgetInv, SurviveInv, PointInv, ToldInv, Quiet, UNCHANGED world,
         DecidePermute \/ PermPreflight \/ EndPerm
  PROVE  ToldInv'
<1>1. /\ UNCHANGED <<at, status, kept, cur, resume, file>> /\ phase \in AtWork /\ phase' \in AtWork
      /\ at \in TargetIndex /\ DOMAIN result[at] = ResultFields /\ PassTold' /\ Running
  BY DEF DecidePermute, PermPreflight, EndPerm, Stop, ctlVars, diskVars, outputVars, AtWork, BudgetInv, RunShape,
     PassTold, Running
<1>2. ~pass.failures /\ ~pass.tripped /\ ~result[at].failed /\ ~result[at].abort
  BY <1>1 DEF ToldInv, NothingFails
<1>3. ~pass'.failures /\ ~pass'.tripped
  <2>1. CASE \E list, from, parents, deep, cap : pass' = NewPass(list, from, parents, deep, cap)
    BY <2>1, NewPassFields
  <2>2. CASE UNCHANGED pass
    BY <1>2, <2>2
  <2>3. CASE pass' = NoPass
    BY <2>3, NoPassFails
  <2>4. QED BY <2>1, <2>2, <2>3 DEF DecidePermute, PermPreflight, EndPerm, Stop
<1>4. CASE UNCHANGED result
  BY <1>1, <1>3, <1>4, IdleTells
<1>5. CASE Stop(FALSE, "status")
  BY <1>1, <1>5, StopTells
<1>6. Covers(result[at].rootDone, cur)
  <2>1. ~(at < at)
    BY <1>1, TargetOrder DEF BudgetInv, RunShape
  <2>2. QED BY <1>1, <2>1 DEF ToldInv, Covered, Gathered
<1>7. ASSUME NEW p, result' = [result EXCEPT ![at] = [result[at] EXCEPT !.perm = p]]
      PROVE  ToldInv'
  <2> DEFINE r == [result[at] EXCEPT !.perm = p]
  <2>1. r.rootDone = result[at].rootDone /\ r.failed = result[at].failed /\ r.abort = result[at].abort
    BY <1>1 DEF ResultFields
  <2>2. result' = [result EXCEPT ![at] = r]
    BY <1>7
  <2> HIDE DEF r
  <2>3. QED BY <1>1, <1>2, <1>3, <1>6, <2>1, <2>2, WorkTells
<1>8. CASE EndPerm
  <2>1. PICK p : result' = [result EXCEPT ![at] =
          [result[at] EXCEPT !.failed = result[at].failed \/ pass.tripped, !.perm = p]]
    BY <1>8 DEF EndPerm
  <2> DEFINE r == [result[at] EXCEPT !.failed = result[at].failed \/ pass.tripped, !.perm = p]
  <2>2. /\ r.rootDone = result[at].rootDone /\ r.failed = (result[at].failed \/ pass.tripped)
        /\ r.abort = result[at].abort
    BY <1>1 DEF ResultFields
  <2>3. result' = [result EXCEPT ![at] = r]
    BY <2>1
  <2> HIDE DEF r
  <2>4. QED BY <1>1, <1>2, <1>3, <1>6, <2>2, <2>3, WorkTells
<1>9. QED
  <2>1. CASE DecidePermute /\ ~UNCHANGED result
    <3>1. CASE result' = [result EXCEPT ![at].perm = [Saved.perm EXCEPT !.done = TRUE]]
      BY <1>7, <3>1
    <3>2. CASE result' = [result EXCEPT ![at].perm = [NoPerm EXCEPT !.started = TRUE]]
      BY <1>7, <3>2
    <3>3. QED BY <2>1, <3>1, <3>2 DEF DecidePermute
  <2>2. CASE PermPreflight
    BY <1>4, <1>5, <2>2 DEF PermPreflight, Quiet
  <2>3. QED BY <1>4, <1>8, <2>1, <2>2

(* A target begun has the hits of the point it goes on from. *)
LEMMA BeginTells ==
  ASSUME BudgetInv, SurviveInv, ToldInv, UNCHANGED world, BeginTarget
  PROVE  ToldInv'
<1>1. /\ UNCHANGED <<at, status, kept, resume, file, pass>> /\ phase = "next" /\ phase' \in AtWork \ {"main"}
      /\ at \in TargetIndex /\ world \in World /\ TargetIndex' = TargetIndex
  BY DEF BeginTarget, ctlVars, diskVars, outputVars, AtWork, BudgetInv, RunShape, TargetIndex, World
<1>2. Running /\ phase \notin AtWork
  BY <1>1 DEF Running, AtWork
<1>3. PICK r : /\ result' = [result EXCEPT ![at] = r] /\ ~r.failed /\ ~r.abort
               /\ Covers(r.rootDone, cur')
  <2>1. CASE result' = [result EXCEPT ![at] = Fresh0]
    <3>1. Fresh0.rootDone = 0 /\ Fresh0.failed = FALSE /\ Fresh0.abort = FALSE
      BY DEF Fresh0
    <3>2. Covers(0, cur')
      BY DEF Covers
    <3>3. QED BY <2>1, <3>1, <3>2
  <2>2. CASE Resuming /\ result' = [result EXCEPT ![at] =
               [Fresh0 EXCEPT !.done = TRUE, !.rootDone = Saved.rootDone, !.processed = Saved.processed]]
    <3> DEFINE r == [Fresh0 EXCEPT !.done = TRUE, !.rootDone = Saved.rootDone, !.processed = Saved.processed]
    <3>1. r.rootDone = Saved.rootDone /\ r.failed = FALSE /\ r.abort = FALSE
      BY DEF Fresh0
    <3>2. Covers(Saved.rootDone, Saved.results) /\ cur' = Saved.results
      BY <1>1, <2>2 DEF ToldInv, Covered, Resuming, Saved, BeginTarget, Restore
    <3> HIDE DEF r
    <3>3. result' = [result EXCEPT ![at] = r]
      BY <2>2 DEF r
    <3>4. QED BY <3>1, <3>2, <3>3
  <2>3. QED BY <2>1, <2>2 DEF BeginTarget
<1>4. \A i \in TargetIndex : result'[i] = IF i = at THEN r ELSE result[i]
  BY <1>3 DEF BudgetInv, RunShape
<1>5. NothingFails'
  BY <1>1, <1>3, <1>4 DEF ToldInv, NothingFails
<1>6. ASSUME NEW i \in TargetIndex PROVE Covers(result'[i].rootDone, Gathered(i)')
  <2>1. i = at => ~(i < at)
    BY <1>1, TargetOrder
  <2>2. Gathered(i)' = (IF i = at THEN cur' ELSE Gathered(i))
    BY <1>1, <2>1 DEF Gathered
  <2>3. Covers(result[i].rootDone, Gathered(i))
    BY <1>2 DEF ToldInv, Covered
  <2>4. QED BY <1>3, <1>4, <2>2, <2>3
<1>7. Covered'
  BY <1>1, <1>6, SameWholeList DEF ToldInv, Covered, Covers, Resolves, AllNames
<1>8. PassTold'
  BY <1>1 DEF PassTold
<1>9. QED BY <1>5, <1>7, <1>8 DEF ToldInv

(* Leaving a target behind keeps what it has gathered. *)
LEMMA PassTells ==
  ASSUME BudgetInv, ToldInv, UNCHANGED <<world, resume, file, pass>>, Running, phase' \in {"next", "over"},
         NEW t \in TargetIndex, at = t, at' = t + 1, \A i \in TargetIndex : status'[i] # "skipped",
         \A i \in TargetIndex : i # t => result'[i] = result[i] /\ kept'[i] = kept[i],
         ~result'[t].failed, ~result'[t].abort, Covers(result'[t].rootDone, kept'[t])
  PROVE  ToldInv'
<1>1. phase' \notin AtWork /\ world \in World /\ TargetIndex' = TargetIndex /\ PassTold'
  BY DEF AtWork, BudgetInv, RunShape, TargetIndex, PassTold
<1>2. NothingFails'
  BY <1>1 DEF ToldInv, NothingFails
<1>3. ASSUME NEW i \in TargetIndex PROVE Covers(result'[i].rootDone, Gathered(i)')
  <2>1. CASE i = t
    <3>1. i < at'
      BY <1>1, <2>1, TargetOrder
    <3>2. Gathered(i)' = kept'[i]
      BY <3>1 DEF Gathered
    <3>3. QED BY <2>1, <3>2
  <2>2. CASE i # t
    <3>1. (i < at') <=> (i < at)
      BY <1>1, <2>2, TargetOrder
    <3>2. Gathered(i)' = Gathered(i)
      BY <1>1, <2>2, <3>1 DEF Gathered
    <3>3. Covers(result[i].rootDone, Gathered(i))
      BY DEF ToldInv, Covered
    <3>4. QED BY <2>2, <3>2, <3>3
  <2>3. QED BY <2>1, <2>2
<1>4. Covered'
  BY <1>1, <1>3, SameWholeList DEF ToldInv, Covered, Covers, Resolves, AllNames
<1>5. QED BY <1>1, <1>2, <1>4 DEF ToldInv

LEMMA SkipTells ==
  ASSUME BudgetInv, SurviveInv, ToldInv, UNCHANGED world, SkipFinished
  PROVE  ToldInv'
<1>1. /\ UNCHANGED <<resume, file, pass, phase>> /\ phase = "next" /\ Running
      /\ at \in TargetIndex /\ at' = at + 1 /\ resume # NoState
  BY DEF SkipFinished, ctlVars, diskVars, outputVars, BudgetInv, RunShape, TargetIndex, World, Running, Resuming
<1>2. PICK t \in TargetIndex : t = at
  BY <1>1
<1> DEFINE r == [Fresh0 EXCEPT !.done = TRUE, !.rootDone = Saved.rootDone, !.processed = Saved.processed]
<1>3. /\ status' = [status EXCEPT ![t] = "ok"] /\ result' = [result EXCEPT ![t] = r]
      /\ kept' = [kept EXCEPT ![t] = Saved.results]
  BY <1>2 DEF SkipFinished
<1>4. r.rootDone = resume[t].rootDone /\ r.failed = FALSE /\ r.abort = FALSE
  BY <1>2 DEF Fresh0, Saved
<1> HIDE DEF r
<1>5. \A i \in TargetIndex : /\ status'[i] = IF i = t THEN "ok" ELSE status[i]
                             /\ result'[i] = IF i = t THEN r ELSE result[i]
                             /\ kept'[i] = IF i = t THEN resume[t].results ELSE kept[i]
  BY <1>2, <1>3 DEF SurviveInv, Reached, BudgetInv, RunShape, Saved
<1>6. Covers(resume[t].rootDone, resume[t].results) /\ \A i \in TargetIndex : status[i] # "skipped"
  BY <1>1 DEF ToldInv, Covered, NothingFails
<1>7. QED BY <1>1, <1>2, <1>4, <1>5, <1>6, PassTells

LEMMA StatusTells ==
  ASSUME BudgetInv, SurviveInv, ToldInv, UNCHANGED world, SetStatus
  PROVE  ToldInv'
<1>1. /\ UNCHANGED <<resume, file, pass, result>> /\ phase = "status" /\ Running /\ phase \in AtWork
      /\ at \in TargetIndex /\ at' = at + 1 /\ phase' \in {"next", "over"} /\ world \in World
  BY DEF SetStatus, ctlVars, diskVars, outputVars, BudgetInv, RunShape, AtWork, Running
<1>2. PICK t \in TargetIndex : t = at
  BY <1>1
<1>3. \A i \in TargetIndex : status'[i] # "skipped"
  <2>1. Verdict # "skipped"
    BY DEF Verdict
  <2>2. ~result[at].abort /\ \A i \in TargetIndex : status[i] # "skipped"
    BY <1>1 DEF ToldInv, NothingFails
  <2>3. QED BY <2>1, <2>2 DEF SetStatus
<1>4. \A i \in TargetIndex : kept'[i] = IF i = t THEN cur ELSE kept[i]
  BY <1>2 DEF SetStatus, SurviveInv, Reached
<1>5. Covers(result[t].rootDone, cur)
  <2>1. ~(at < at)
    BY <1>1, TargetOrder
  <2>2. QED BY <1>1, <1>2, <2>1 DEF ToldInv, Covered, Gathered
<1>6. ~result[t].failed /\ ~result[t].abort
  BY DEF ToldInv, NothingFails
<1>7. QED BY <1>1, <1>2, <1>3, <1>4, <1>5, <1>6, PassTells

LEMMA SettleTells ==
  ASSUME BudgetInv, SurviveInv, ToldInv, UNCHANGED world, Loop \/ CommitResults \/ Signal \/ Cancel \/ Kill
  PROVE  ToldInv'
<1>1. UNCHANGED <<at, status, kept, resume, file, result>> /\ Running
  BY DEF Loop, CommitResults, Signal, Cancel, Kill, Running, ctlVars, diskVars, outputVars, endVars
<1>2. Running' => cur' = cur /\ (phase \in AtWork <=> phase' \in AtWork)
  BY DEF Loop, CommitResults, Signal, Cancel, Kill, Running, AtWork
<1>3. ~pass'.failures /\ ~pass'.tripped
  <2>1. CASE UNCHANGED pass
    BY <2>1 DEF ToldInv, NothingFails
  <2>2. CASE pass' = NoPass
    BY <2>2, NoPassFails
  <2>3. QED BY <2>1, <2>2 DEF Loop, CommitResults, Signal, Cancel, Kill
<1>4. PassTold'
  <2>1. CASE phase' = "main"
    <3>1. UNCHANGED <<phase, pass, cur, world>>
      BY <2>1 DEF Loop, CommitResults, Signal, Cancel, Kill
    <3>2. QED BY <3>1, SameWholeList DEF ToldInv, PassTold, ListTold, Told, Waiting, Resolves, AllNames
  <2>2. CASE phase' # "main"
    BY <2>2 DEF PassTold
  <2>3. QED BY <2>1, <2>2
<1>5. QED BY <1>1, <1>2, <1>3, <1>4, IdleTells

(* What is saved covers the point saved with it. *)
LEMMA SavedCovers ==
  ASSUME BudgetInv, SurviveInv, ToldInv, phase = "over", NEW i \in TargetIndex
  PROVE  Covers(SavedTarget(i).rootDone, SavedTarget(i).results)
<1>1. Running /\ phase \notin AtWork /\ at \in Nat
  BY DEF Running, AtWork, BudgetInv, RunShape
<1>2. CASE Unreached(i)
  <2>1. SavedTarget(i) = resume[i] /\ resume # NoState
    BY <1>2 DEF SavedTarget, Unreached, Resuming
  <2>2. QED BY <2>1 DEF ToldInv, Covered
<1>3. CASE ~Unreached(i)
  <2>1. SavedTarget(i).rootDone = ResumePoint(i, result[i])[1] /\ SavedTarget(i).results = kept[i]
    BY <1>3 DEF SavedTarget
  <2>2. CASE result[i].done
    <3>1. ResumePoint(i, result[i])[1] = result[i].rootDone
      BY <2>2 DEF ResumePoint
    <3>2. Covers(result[i].rootDone, Gathered(i)) /\ Gathered(i) \subseteq kept[i]
      BY <1>1 DEF ToldInv, Covered, Gathered
    <3>3. QED BY <2>1, <3>1, <3>2, MoreCovers
  <2>3. CASE ~result[i].done /\ Resuming
    <3>1. ResumePoint(i, result[i])[1] = resume[i].rootDone
      BY <2>3 DEF ResumePoint
    <3>2. i < at
      BY <1>3, <2>3 DEF Unreached, SurviveInv, Reached, ToldInv, NothingFails
    <3>3. Covers(resume[i].rootDone, resume[i].results) /\ resume[i].results \subseteq kept[i]
      BY <1>1, <2>3, <3>2 DEF ToldInv, Covered, Resuming, SurviveInv, Restored
    <3>4. QED BY <2>1, <3>1, <3>3, MoreCovers
  <2>4. CASE ~result[i].done /\ ~Resuming
    <3>1. ResumePoint(i, result[i])[1] = 0
      BY <2>4 DEF ResumePoint
    <3>2. QED BY <2>1, <3>1 DEF Covers
  <2>5. QED BY <2>2, <2>3, <2>4
<1>4. QED BY <1>2, <1>3

LEMMA FinishTells ==
  ASSUME BudgetInv, SurviveInv, ToldInv, UNCHANGED world, Finish
  PROVE  ToldInv'
<1>1. /\ UNCHANGED <<at, status, kept, resume, result, pass, cur>> /\ phase = "over" /\ phase' = "commit"
      /\ Running /\ TargetIndex' = TargetIndex
  BY DEF Finish, ctlVars, endVars, Running, TargetIndex
<1>2. NothingFails' /\ PassTold'
  BY <1>1 DEF ToldInv, NothingFails, PassTold
<1>3. \A i \in TargetIndex : Covers(result[i].rootDone, Gathered(i)')
  BY <1>1 DEF ToldInv, Covered, Gathered, AtWork
<1>4. file' # NoState => \A i \in TargetIndex : Covers(file'[i].rootDone, file'[i].results)
  <2>1. CASE file' = [i \in TargetIndex |-> SavedTarget(i)]
    BY <1>1, <2>1, SavedCovers
  <2>2. CASE file' = file
    BY <2>2 DEF ToldInv, Covered
  <2>3. QED BY <2>1, <2>2 DEF Finish
<1>5. Covered'
  BY <1>1, <1>3, <1>4, SameWholeList DEF ToldInv, Covered, Covers, Resolves, AllNames
<1>6. QED BY <1>2, <1>5 DEF ToldInv

LEMMA RestartTells ==
  ASSUME BudgetInv, ToldInv, UNCHANGED world, Restart
  PROVE  ToldInv'
<1>1. /\ UNCHANGED file /\ resume' = file /\ phase' = "next" /\ pass' = NoPass
      /\ status' = Each("") /\ result' = Each(Fresh0) /\ TargetIndex' = TargetIndex
  BY DEF Restart, outputVars, TargetIndex
<1>2. \A i \in TargetIndex : /\ result'[i].rootDone = 0 /\ ~result'[i].failed /\ ~result'[i].abort
                             /\ status'[i] # "skipped"
  BY <1>1 DEF Each, Fresh0
<1>3. NothingFails' /\ PassTold'
  BY <1>1, <1>2, NoPassFails DEF NothingFails, PassTold
<1>4. \A i \in TargetIndex : \A hits : Covers(result'[i].rootDone, hits)
  BY <1>2 DEF Covers
<1>5. Covered'
  BY <1>1, <1>4, SameWholeList DEF ToldInv, Covered, Covers, Resolves, AllNames
<1>6. QED BY <1>3, <1>5 DEF ToldInv

LEMMA InitTells == Init => ToldInv
<1> SUFFICES ASSUME Init PROVE ToldInv
  OBVIOUS
<1>1. /\ file = NoState /\ resume = NoState /\ phase = "next" /\ status = Each("") /\ result = Each(Fresh0)
      /\ pass = NoPass
  BY DEF Init
<1>2. \A i \in TargetIndex : /\ result[i].rootDone = 0 /\ ~result[i].failed /\ ~result[i].abort
                             /\ status[i] # "skipped"
  BY <1>1 DEF Each, Fresh0
<1>3. ~pass.failures /\ ~pass.tripped
  BY <1>1 DEF NoPass, NewPass
<1>4. NothingFails /\ PassTold
  BY <1>1, <1>2, <1>3 DEF NothingFails, PassTold
<1>5. Covered
  <2>1. \A hits : Covers(0, hits)
    BY DEF Covers
  <2>2. QED BY <1>1, <1>2, <2>1 DEF Covered
<1>6. QED BY <1>4, <1>5 DEF ToldInv

LEMMA NextTells ==
  ASSUME BudgetInv, SurviveInv, PointInv, PointInv', ToldInv, Quiet, [Next]_vars
  PROVE  ToldInv'
<1>1. CASE UNCHANGED vars
  BY <1>1, SameWholeList DEF vars, ToldInv, NothingFails, Covered, Covers, Gathered, PassTold, ListTold, Told, Waiting,
     Resolves, AllNames, Running, TargetIndex
<1>2. CASE Scan /\ UNCHANGED world
  BY <1>2, ScanTells
<1>3. CASE Run /\ UNCHANGED world
  BY <1>3, BeginTells, SkipTells, PreflightTells, EndMainTells, PermTells, StatusTells, SettleTells, FinishTells
     DEF Run
<1>4. CASE (Signal \/ Cancel \/ Kill) /\ UNCHANGED world
  BY <1>4, SettleTells
<1>5. CASE Restart /\ UNCHANGED world
  BY <1>5, RestartTells
<1>6. QED BY <1>1, <1>2, <1>3, <1>4, <1>5 DEF Next

(* The resume point never claims an entry that was not looked up: however the  *)
(* runs of a scan were interrupted or killed, every entry before a saved point *)
(* that resolves is among the results saved with it, unless a lookup failed.   *)
THEOREM PointNeverAhead == Spec => []StateCoversPoint
<1> DEFINE Steady == ~world.logsFail => PointInv
           Telling == Quiet => ToldInv
<1>1. Spec => []BudgetInv
  BY InitInBudget, NextKeepsBudget, PTL DEF Spec
<1>2. Spec => []SurviveInv
  BY <1>1, InitSurvives, NextKeepsResults, PTL DEF Spec
<1>3. Init => Steady /\ Telling
  BY InitPoints, InitTells
<1>4. BudgetInv /\ SurviveInv /\ Steady /\ Telling /\ [Next]_vars => Steady' /\ Telling'
  <2>1. [Next]_vars => world' = world
    BY DEF Next, vars
  <2>2. BudgetInv /\ SurviveInv /\ Steady /\ [Next]_vars => Steady'
    BY <2>1, NextKeepsPoints
  <2>3. BudgetInv /\ SurviveInv /\ Steady /\ Steady' /\ Telling /\ [Next]_vars => Telling'
    BY <2>1, NextTells DEF Quiet
  <2>4. QED BY <2>2, <2>3
<1>5. Telling => StateCoversPoint
  BY DEF Quiet, ToldInv, Covered, Covers, StateCoversPoint
<1> HIDE DEF Steady, Telling
<1>6. QED BY <1>1, <1>2, <1>3, <1>4, <1>5, PTL DEF Spec

-----------------------------------------------------------------------------
(***************************************************************************)
(* The permutation list.  A pass is only started once the main pass has    *)
(* nothing left to look up, so a resumed run adds no name to those the     *)
(* list was made of, and makes the same list of them.                      *)
(***************************************************************************)
CanAbort == world.flaky /\ ~world.noAbort

PermList(hits) == PermNames(MainNames(hits) \cup Names(world.logNames), Names(WholeList))

MainOver(t) == t.rootDone = Len(WholeList) \/ Spent(t.processed)

Seeded(perm, i, hits) ==
  seeds[i] = PermList(hits) /\ perm.started /\ perm.rootDone \in 0..Len(seeds[i])

(* A pass of a scan that is not recursive: every job is an entry of its list,  *)
(* and no entry is lost while the pass is not being stopped.                   *)
PassShape ==
  Scanning =>
    /\ Len(pass.list) \in Nat /\ pass.from \in Nat /\ pass.next \in pass.from..Len(pass.list)
    /\ pass.marks \subseteq pass.from..(pass.next - 1)
    /\ pass.kids = {} /\ ~pass.deep
    /\ \A job \in pass.flight : job.root \in pass.from..(pass.next - 1)
    /\ \A pair \in pass.heard : pair[1].root \in pass.from..(pass.next - 1)
    /\ ~Stopping => \A m \in pass.from..(pass.next - 1) :
         \/ m \in pass.marks
         \/ \E job \in pass.flight : job.root = m
         \/ \E pair \in pass.heard : pair[1].root = m
    /\ pass.begun = pass.counted + Cardinality(pass.flight)
    /\ pass.failures => world.flaky
    /\ pass.tripped => CanAbort
    /\ phase = "main" /\ world.maxQueries = 0 => pass.cap = 0

SavedList(t, i) == t.perm.started => Seeded(t.perm, i, t.results) /\ MainOver(t)

(* A permutation pass of this run that came to its end. *)
EndedList(i, hits) ==
  result[i].perm.done =>
    /\ Seeded(result[i].perm, i, hits) /\ result[i].done /\ MainOver(result[i])
    /\ resume # NoState /\ resume[i].perm.started => result[i].perm.rootDone >= resume[i].perm.rootDone

(* One an earlier run had started: no name has come to those it was made of.   *)
SameNames(i, hits) ==
  resume # NoState /\ resume[i].perm.started =>
    MainNames(hits) = MainNames(resume[i].results) /\ (result[i].done => MainOver(result[i]))

DiskLists ==
  /\ resume # NoState => \A i \in TargetIndex : SavedList(resume[i], i)
  /\ file # NoState => \A i \in TargetIndex : SavedList(file[i], i)

WorkLists ==
  phase \in AtWork =>
    /\ EndedList(at, cur) /\ SameNames(at, cur)
    /\ phase \in {"preflight", "main"} => ~result[at].done
    /\ phase \in {"preflight", "main", "permute"} => ~result[at].perm.done
    /\ phase = "permute" /\ result[at].done /\ ~result[at].abort /\ ~signal => MainOver(result[at])
    /\ phase \in {"permPreflight", "perm"} =>
         result[at].done /\ MainOver(result[at]) /\ ~result[at].perm.done
    /\ phase = "perm" =>
         /\ pass.list = PermList(cur) /\ seeds[at] = pass.list
         /\ pass.from = IF PermSaved THEN Saved.perm.rootDone ELSE 0

Ahead(i) == ~(i < at) /\ (i = at => phase \notin AtWork)

OtherLists ==
  Running => \A i \in TargetIndex :
    /\ i < at => EndedList(i, kept[i]) /\ SameNames(i, kept[i])
    /\ Ahead(i) => ~result[i].perm.done

NoneLost ==
  /\ DOMAIN seeds = TargetIndex
  /\ \A i \in TargetIndex : status[i] # "skipped" /\ (result[i].abort => CanAbort)

ListInv == NoneLost /\ PassShape /\ DiskLists /\ WorkLists /\ OtherLists

LEMMA PermListHasLength ==
  ASSUME world \in World, NEW hits
  PROVE  Len(PermList(hits)) \in Nat /\ DOMAIN PermList(hits) = 1..Len(PermList(hits))
<1> DEFINE list == [k \in DOMAIN world.perms |-> world.perms[k].name]
           names == MainNames(hits) \cup Names(world.logNames)
           entries == Names(WholeList)
           ks == {k \in DOMAIN list : world.perms[k].seed \in names /\ list[k] \notin names \cup entries}
<1>1. PermList(hits) = Picked(list, ks)
  BY DEF PermList, PermNames
<1>2. IsFiniteSet(ks)
  <2>1. DOMAIN list = 1..Len(world.perms) /\ Len(world.perms) \in Nat
    BY DEF World
  <2>2. IsFiniteSet(1..Len(world.perms))
    BY <2>1, FS_Interval
  <2>3. QED BY <2>1, <2>2, FS_Subset
<1> HIDE DEF list, ks
<1>3. PICK S : Picked(list, ks) \in Seq(S)
  BY <1>2, PickedIsSequence
<1>4. QED BY <1>1, <1>3

(* The scan. *)
LEMMA DispatchKeepsShape ==
  ASSUME BudgetInv, ListInv, UNCHANGED world, Dispatch
  PROVE  PassShape'
<1>1. UNCHANGED <<phase, ctx>> /\ Scanning /\ ~Stopping
  BY DEF Dispatch, ctlVars
<1>2. /\ DOMAIN pass = PassFields
      /\ Len(pass.list) \in Nat /\ pass.from \in Nat /\ pass.next \in pass.from..Len(pass.list)
      /\ pass.marks \subseteq pass.from..(pass.next - 1)
      /\ pass.kids = {} /\ ~pass.deep
      /\ \A job \in pass.flight : job.root \in pass.from..(pass.next - 1)
      /\ \A pair \in pass.heard : pair[1].root \in pass.from..(pass.next - 1)
      /\ \A m \in pass.from..(pass.next - 1) :
           \/ m \in pass.marks
           \/ \E job \in pass.flight : job.root = m
           \/ \E pair \in pass.heard : pair[1].root = m
      /\ pass.begun = pass.counted + Cardinality(pass.flight)
      /\ (pass.failures => world.flaky) /\ (pass.tripped => CanAbort)
      /\ (phase = "main" /\ world.maxQueries = 0 => pass.cap = 0)
  BY <1>1 DEF BudgetInv, RunShape, ListInv, PassShape
<1>3. /\ pass.counted \in Nat /\ IsFiniteSet(pass.flight) /\ \A job \in pass.flight : job.name \in pass.seen
  BY DEF BudgetInv, PassCounts
<1> DEFINE here == pass.next
           job == [name |-> pass.list[here + 1], depth |-> 1, root |-> here]
<1>4. here < Len(pass.list) /\ Hand(job, here + 1, pass.kids)
  BY <1>2 DEF Dispatch
<1>5. job.root = here /\ here # -1 /\ here \in Nat
  BY <1>2
<1> HIDE DEF job
<1>6. /\ pass'.list = pass.list /\ pass'.from = pass.from /\ pass'.next = here + 1 /\ pass'.kids = {}
      /\ pass'.deep = pass.deep /\ pass'.heard = pass.heard /\ pass'.counted = pass.counted
      /\ pass'.failures = pass.failures /\ pass'.tripped = pass.tripped /\ pass'.cap = pass.cap
      /\ \/ /\ pass'.marks = pass.marks \cup {here} /\ pass'.flight = pass.flight /\ pass'.begun = pass.begun
         \/ /\ pass'.marks = pass.marks /\ pass'.flight = pass.flight \cup {job} /\ job \notin pass.flight
            /\ pass'.begun = pass.begun + 1
  <2>1. CASE job.name \in pass.seen
    <3>1. pass' = [pass EXCEPT !.next = here + 1, !.kids = pass.kids, !.marks = @ \cup {here}]
      BY <1>4, <1>5, <2>1 DEF Hand
    <3>2. QED BY <1>2, <3>1 DEF PassFields
  <2>2. CASE job.name \notin pass.seen
    <3>1. pass' = [pass EXCEPT !.next = here + 1, !.kids = pass.kids, !.begun = @ + 1,
                     !.seen = @ \cup {job.name}, !.flight = @ \cup {job}]
      BY <1>4, <2>2 DEF Hand
    <3>2. job \notin pass.flight
      BY <1>3, <2>2
    <3>3. QED BY <1>2, <3>1, <3>2 DEF PassFields
  <2>3. QED BY <2>1, <2>2
<1>7. pass'.begun = pass'.counted + Cardinality(pass'.flight)
  <2>1. Cardinality(pass.flight) \in Nat
        /\ (job \notin pass.flight => Cardinality(pass.flight \cup {job}) = Cardinality(pass.flight) + 1)
    BY <1>3, FlightCounts
  <2>2. CASE pass'.flight = pass.flight /\ pass'.begun = pass.begun
    BY <1>2, <1>6, <2>2
  <2>3. CASE pass'.flight = pass.flight \cup {job} /\ job \notin pass.flight /\ pass'.begun = pass.begun + 1
    <3>1. Cardinality(pass'.flight) = Cardinality(pass.flight) + 1
      BY <2>1, <2>3
    <3>2. pass.begun = pass.counted + Cardinality(pass.flight) /\ pass.counted \in Nat
      BY <1>2, <1>3
    <3>3. pass'.begun = pass.begun + 1 /\ pass'.counted = pass.counted
      BY <1>6, <2>3
    <3>4. QED BY <2>1, <3>1, <3>2, <3>3
  <2>4. QED BY <1>6, <2>2, <2>3
<1>8. \A m \in pass'.from..(pass'.next - 1) : m \in pass.from..(here - 1) \/ m = here
  BY <1>2, <1>6
<1>9. \A m \in pass'.from..(pass'.next - 1) :
        \/ m \in pass'.marks
        \/ \E j \in pass'.flight : j.root = m
        \/ \E pair \in pass'.heard : pair[1].root = m
  BY <1>2, <1>5, <1>6, <1>8
<1>10. /\ pass'.next \in pass'.from..Len(pass'.list) /\ here \in pass'.from..(pass'.next - 1)
       /\ pass.from..(here - 1) \subseteq pass'.from..(pass'.next - 1)
  BY <1>2, <1>4, <1>6
<1>11. /\ pass'.marks \subseteq pass'.from..(pass'.next - 1)
       /\ \A j \in pass'.flight : j.root \in pass'.from..(pass'.next - 1)
       /\ \A pair \in pass'.heard : pair[1].root \in pass'.from..(pass'.next - 1)
  BY <1>2, <1>5, <1>6, <1>10
<1>12. QED BY <1>1, <1>2, <1>6, <1>7, <1>9, <1>10, <1>11 DEF PassShape, CanAbort

LEMMA AnswerKeepsShape ==
  ASSUME BudgetInv, ListInv, UNCHANGED world, NEW job \in pass.flight, NEW o, Answer(job, o)
  PROVE  PassShape'
<1>1. UNCHANGED <<phase, ctx>> /\ Scanning /\ (o = "failed" => world.flaky) /\ DOMAIN pass = PassFields
  BY DEF Answer, ctlVars, endVars, BudgetInv, RunShape
<1>2. pass' = [pass EXCEPT !.flight = @ \ {job}, !.counted = @ + 1,
                 !.failures = @ \/ o = "failed", !.heard = @ \cup {<<job, o = "found">>}]
  BY DEF Answer
<1>3. /\ pass'.list = pass.list /\ pass'.from = pass.from /\ pass'.next = pass.next /\ pass'.kids = pass.kids
      /\ pass'.deep = pass.deep /\ pass'.marks = pass.marks /\ pass'.begun = pass.begun
      /\ pass'.tripped = pass.tripped /\ pass'.cap = pass.cap
      /\ pass'.flight = pass.flight \ {job} /\ pass'.counted = pass.counted + 1
      /\ pass'.failures = (pass.failures \/ o = "failed")
      /\ pass'.heard = pass.heard \cup {<<job, o = "found">>}
  BY <1>1, <1>2 DEF PassFields
<1>4. <<job, o = "found">>[1] = job
  OBVIOUS
<1>5. pass'.begun = pass'.counted + Cardinality(pass'.flight)
  <2>1. pass.counted \in Nat /\ IsFiniteSet(pass.flight)
    BY DEF BudgetInv, PassCounts
  <2>2. Cardinality(pass.flight) \in Nat /\ Cardinality(pass.flight \ {job}) = Cardinality(pass.flight) - 1
    BY <2>1, FlightCounts
  <2>3. pass.begun = pass.counted + Cardinality(pass.flight)
    BY <1>1 DEF ListInv, PassShape
  <2>4. Cardinality(pass'.flight) = Cardinality(pass.flight) - 1
    BY <1>3, <2>2
  <2>5. QED BY <1>3, <2>1, <2>2, <2>3, <2>4
<1>6. Stopping' = Stopping
  BY <1>1, <1>3 DEF Stopping
<1>7. ~Stopping => \A m \in pass.from..(pass.next - 1) :
        \/ m \in pass.marks
        \/ \E j \in pass'.flight : j.root = m
        \/ \E pair \in pass'.heard : pair[1].root = m
  <2> SUFFICES ASSUME ~Stopping, NEW m \in pass.from..(pass.next - 1), m \notin pass.marks,
                      ~\E pair \in pass'.heard : pair[1].root = m
               PROVE  \E j \in pass'.flight : j.root = m
    OBVIOUS
  <2>1. /\ \E j \in pass.flight : j.root = m
        /\ job.root # m
    BY <1>1, <1>3, <1>4 DEF ListInv, PassShape
  <2>2. QED BY <1>3, <2>1
<1>8. /\ \A j \in pass'.flight : j.root \in pass.from..(pass.next - 1)
      /\ \A pair \in pass'.heard : pair[1].root \in pass.from..(pass.next - 1)
  BY <1>1, <1>3, <1>4 DEF ListInv, PassShape
<1>9. QED BY <1>1, <1>3, <1>5, <1>6, <1>7, <1>8 DEF ListInv, PassShape, CanAbort

LEMMA ReportKeepsShape ==
  ASSUME BudgetInv, ListInv, UNCHANGED world, Trip \/ \E pair \in pass.heard : Complete(pair[1], pair[2])
  PROVE  PassShape'
<1>1. UNCHANGED <<phase, ctx>> /\ Scanning /\ DOMAIN pass = PassFields
  BY DEF Complete, Trip, ctlVars, endVars, BudgetInv, RunShape
<1>2. CASE Trip
  <2>1. /\ pass'.list = pass.list /\ pass'.from = pass.from /\ pass'.next = pass.next /\ pass'.kids = pass.kids
        /\ pass'.deep = pass.deep /\ pass'.marks = pass.marks /\ pass'.begun = pass.begun
        /\ pass'.tripped = TRUE /\ pass'.cap = pass.cap /\ pass'.flight = pass.flight
        /\ pass'.counted = pass.counted /\ pass'.failures = pass.failures /\ pass'.heard = pass.heard
        /\ pass.failures /\ ~world.noAbort
    BY <1>1, <1>2 DEF PassFields, Trip
  <2>2. Stopping'
    BY <2>1 DEF Stopping
  <2>3. QED BY <1>1, <2>1, <2>2 DEF ListInv, PassShape, CanAbort
<1>3. ASSUME NEW pair \in pass.heard, Complete(pair[1], pair[2])
      PROVE  PassShape'
  <2> DEFINE root == pair[1].root
  <2>1. ~pass.deep /\ root \in pass.from..(pass.next - 1) /\ root # -1 /\ pass.from \in Nat
    BY <1>1 DEF ListInv, PassShape
  <2>2. /\ pass'.list = pass.list /\ pass'.from = pass.from /\ pass'.next = pass.next /\ pass'.kids = pass.kids
        /\ pass'.deep = pass.deep /\ pass'.begun = pass.begun
        /\ pass'.tripped = pass.tripped /\ pass'.cap = pass.cap /\ pass'.flight = pass.flight
        /\ pass'.counted = pass.counted /\ pass'.failures = pass.failures
        /\ pass'.heard = pass.heard \ {<<pair[1], pair[2]>>}
        /\ \/ pass'.marks = pass.marks \cup {root}
           \/ pass'.marks = pass.marks /\ Stopping
    <3>1. CASE pass' = [pass EXCEPT !.heard = @ \ {<<pair[1], pair[2]>>}, !.marks = pass.marks \cup {root},
                          !.kids = pass.kids]
      BY <1>1, <3>1 DEF PassFields
    <3>2. CASE Stopping /\ pass' = [pass EXCEPT !.heard = @ \ {<<pair[1], pair[2]>>}]
      BY <1>1, <3>2 DEF PassFields
    <3>3. QED BY <1>3, <2>1, <3>1, <3>2 DEF Complete
  <2> HIDE DEF root
  <2>3. Stopping' = Stopping
    BY <1>1, <2>2 DEF Stopping
  <2>4. ~Stopping => \A m \in pass.from..(pass.next - 1) :
          \/ m \in pass'.marks
          \/ \E j \in pass.flight : j.root = m
          \/ \E q \in pass'.heard : q[1].root = m
    <3> SUFFICES ASSUME ~Stopping, NEW m \in pass.from..(pass.next - 1), m \notin pass'.marks,
                        ~\E j \in pass.flight : j.root = m
                 PROVE  \E q \in pass'.heard : q[1].root = m
      OBVIOUS
    <3>1. PICK q \in pass.heard : q[1].root = m
      BY <1>1, <2>2 DEF ListInv, PassShape
    <3>2. q # <<pair[1], pair[2]>>
      <4>1. m # root
        BY <2>2
      <4>2. <<pair[1], pair[2]>>[1] = pair[1]
        OBVIOUS
      <4>3. QED BY <3>1, <4>1, <4>2 DEF root
    <3>3. QED BY <2>2, <3>1, <3>2
  <2>5. pass'.marks \subseteq pass.from..(pass.next - 1)
    BY <1>1, <2>1, <2>2 DEF ListInv, PassShape
  <2>6. QED BY <1>1, <2>2, <2>3, <2>4, <2>5 DEF ListInv, PassShape, CanAbort
<1>4. QED BY <1>2, <1>3


LEMMA DiskStays ==
  ASSUME DiskLists, UNCHANGED <<world, resume, file, seeds>>
  PROVE  DiskLists'
<1>1. \A i : /\ PermList(resume[i].results)' = PermList(resume[i].results)
            /\ PermList(file[i].results)' = PermList(file[i].results)
  BY SameWholeList DEF PermList, PermNames
<1>2. \A i : MainOver(resume[i])' = MainOver(resume[i]) /\ MainOver(file[i])' = MainOver(file[i])
  BY SameWholeList DEF MainOver, Spent, Left
<1>3. \A i : SavedList(resume[i], i)' = SavedList(resume[i], i) /\ SavedList(file[i], i)' = SavedList(file[i], i)
  BY <1>1, <1>2 DEF SavedList, Seeded
<1>4. QED BY <1>3, SameWholeList DEF DiskLists

LEMMA BehindStays ==
  ASSUME BudgetInv, OtherLists, UNCHANGED <<world, at, resume, kept, result, seeds>>, Running,
         Running' => (phase \in AtWork <=> phase' \in AtWork)
  PROVE  OtherLists'
<1>1. \A i : /\ PermList(kept[i])' = PermList(kept[i])
            /\ PermList(resume[i].results)' = PermList(resume[i].results)
  BY SameWholeList DEF PermList, PermNames
<1>2. \A i : MainOver(result[i])' = MainOver(result[i])
  BY SameWholeList DEF MainOver, Spent, Left
<1>3. \A i : EndedList(i, kept[i])' = EndedList(i, kept[i])
  BY <1>1, <1>2 DEF EndedList, Seeded
<1>4. \A i : SameNames(i, kept[i])' = SameNames(i, kept[i])
  BY <1>1, <1>2 DEF SameNames
<1>5. Running' => \A i : Ahead(i)' = Ahead(i)
  BY DEF Ahead
<1>6. QED BY <1>3, <1>4, <1>5, SameWholeList DEF OtherLists

(* A main pass that goes on where a permutation pass was interrupted has no    *)
(* entry left.                                                                 *)
LEMMA NothingLeft ==
  ASSUME BudgetInv, PointInv, ListInv, phase = "main", PermSaved
  PROVE  pass.from = Len(WholeList) /\ pass.flight = {} /\ Watermark = Len(WholeList)
<1>1. resume # NoState /\ Saved.perm.started /\ at \in TargetIndex /\ Scanning
  BY DEF PermSaved, Resuming, BudgetInv, RunShape, AtWork, Scanning
<1>2. MainOver(Saved)
  BY <1>1 DEF ListInv, DiskLists, SavedList, Saved
<1>3. ~Spent(Saved.processed)
  <2>1. world.maxQueries \in Nat /\ Saved.processed \in Nat /\ Prior = Saved.processed /\ pass.cap \in Int
    BY <1>1 DEF BudgetInv, RunShape, World, InBudget, Saved, Prior, Resuming, PassCounts
  <2>2. world.maxQueries > 0 => pass.cap > 0 /\ pass.cap + Prior = world.maxQueries
    BY DEF BudgetInv, CapIsLeft
  <2>3. QED BY <2>1, <2>2 DEF Spent, Left
<1>4. /\ pass.list = WholeList /\ pass.from = Len(WholeList) /\ Len(WholeList) \in Nat
      /\ pass.next \in pass.from..Len(WholeList) /\ pass.marks \subseteq pass.from..(pass.next - 1)
      /\ \A job \in pass.flight : job.root \in pass.from..(pass.next - 1)
  BY <1>1, <1>2, <1>3 DEF PointInv, PassPoint, ListInv, PassShape, MainOver
<1>5. \A m : m \notin pass.from..(pass.next - 1)
  BY <1>4
<1>6. Watermark \in pass.from..Len(WholeList)
  BY <1>4, WatermarkIsLeast
<1>7. QED BY <1>4, <1>5, <1>6

(* No name is found that the permutations are made of. *)
LEMMA NamesStay ==
  ASSUME BudgetInv, PointInv, ListInv, Scan, phase = "perm" \/ PermSaved
  PROVE  MainNames(cur') = MainNames(cur)
<1>1. CASE UNCHANGED cur
  BY <1>1
<1>2. CASE ~UNCHANGED cur
  <2>1. PICK job \in pass.flight, o \in {"found", "nxdomain", "failed"} : Answer(job, o)
    BY <1>2 DEF Scan, Dispatch, Trip, Complete
  <2>2. phase = "perm"
    BY <2>1, NothingLeft DEF Answer, Scanning
  <2> DEFINE hit == [name |-> job.name, perm |-> phase = "perm"]
  <2>3. Emit(hit)
    BY <1>2, <2>1 DEF Answer
  <2>4. hit.perm = TRUE
    BY <2>2
  <2> HIDE DEF hit
  <2>5. cur' = cur \cup {hit}
    BY <1>2, <2>3 DEF Emit
  <2>6. {g \in cur' : ~g.perm} = {g \in cur : ~g.perm}
    BY <2>4, <2>5
  <2>7. QED BY <2>6 DEF MainNames
<1>3. QED BY <1>1, <1>2

LEMMA ScanKeepsLists ==
  ASSUME BudgetInv, PointInv, ListInv, UNCHANGED world, Scan
  PROVE  ListInv'
<1>1. /\ UNCHANGED <<at, status, kept, resume, file, result, phase, seeds, signal, ctx>> /\ phase \in {"main", "perm"}
      /\ phase \in AtWork /\ Running
  BY DEF Scan, Dispatch, Answer, Complete, Trip, ctlVars, diskVars, outputVars, endVars, Scanning, AtWork, Running
<1>2. PassShape'
  BY DispatchKeepsShape, AnswerKeepsShape, ReportKeepsShape DEF Scan
<1>3. pass'.list = pass.list /\ pass'.from = pass.from
  <2>1. DOMAIN pass = PassFields
    BY DEF BudgetInv, RunShape
  <2>2. CASE Dispatch
    <3>1. PICK job, next, kids : Hand(job, next, kids)
      BY <2>2 DEF Dispatch
    <3>2. QED BY <2>1, <3>1 DEF Hand, PassFields
  <2>3. CASE Trip
    BY <2>1, <2>3 DEF Trip, PassFields
  <2>4. ASSUME NEW job, NEW o, Answer(job, o) PROVE pass'.list = pass.list /\ pass'.from = pass.from
    BY <2>1, <2>4 DEF Answer, PassFields
  <2>5. ASSUME NEW pair, Complete(pair[1], pair[2]) PROVE pass'.list = pass.list /\ pass'.from = pass.from
    BY <2>1, <2>5 DEF Complete, PassFields
  <2>6. QED BY <2>2, <2>3, <2>4, <2>5 DEF Scan
<1>4. phase = "perm" \/ PermSaved => MainNames(cur') = MainNames(cur) /\ PermList(cur)' = PermList(cur)
  BY NamesStay, SameWholeList DEF PermList, PermNames
<1>5. WorkLists'
  <2>1. ~result[at].perm.done
    BY <1>1 DEF ListInv, WorkLists
  <2>2. EndedList(at, cur)'
    BY <1>1, <2>1 DEF EndedList
  <2>3. SameNames(at, cur)'
    BY <1>1, <1>4, SameWholeList DEF ListInv, WorkLists, SameNames, PermSaved, Resuming, Saved, MainOver, Spent, Left
  <2>4. MainOver(result[at])' = MainOver(result[at])
    BY <1>1, SameWholeList DEF MainOver, Spent, Left
  <2>5. phase = "perm" =>
          /\ pass'.list = PermList(cur)' /\ seeds[at] = pass'.list
          /\ pass'.from = IF PermSaved THEN Saved.perm.rootDone ELSE 0
    BY <1>1, <1>3, <1>4 DEF ListInv, WorkLists
  <2>6. PermSaved' = PermSaved /\ Saved' = Saved
    BY <1>1 DEF PermSaved, Resuming, Saved
  <2>7. QED BY <1>1, <2>1, <2>2, <2>3, <2>4, <2>5, <2>6 DEF ListInv, WorkLists
<1>6. NoneLost' /\ DiskLists' /\ OtherLists'
  BY <1>1, DiskStays, BehindStays DEF ListInv, NoneLost, CanAbort, TargetIndex, Running
<1>7. QED BY <1>2, <1>5, <1>6 DEF ListInv


(* The steps of the current target set its own result only. *)
LEMMA WorkKeepsLists ==
  ASSUME BudgetInv, ListInv, UNCHANGED <<world, at, status, kept, cur, resume, file>>,
         phase \in AtWork, phase' \in AtWork, PassShape', DiskLists', NEW r,
         DOMAIN seeds' = TargetIndex, \A i \in TargetIndex : i # at => seeds'[i] = seeds[i],
         \A i \in TargetIndex : result'[i] = IF i = at THEN r ELSE result[i],
         r.abort => CanAbort,
         r.perm.done => /\ Seeded(r.perm, at, cur) /\ r.done /\ UNCHANGED seeds
                        /\ PermSaved => r.perm.rootDone >= Saved.perm.rootDone,
         r.perm.done \/ (PermSaved /\ r.done) => MainOver(r),
         phase' \in {"preflight", "main"} => ~r.done,
         phase' \in {"preflight", "main", "permute"} => ~r.perm.done,
         phase' = "permute" /\ r.done /\ ~r.abort /\ ~signal' => MainOver(r),
         phase' \in {"permPreflight", "perm"} => r.done /\ MainOver(r) /\ ~r.perm.done,
         phase' = "perm" => /\ pass'.list = PermList(cur) /\ seeds'[at] = pass'.list
                            /\ pass'.from = IF PermSaved THEN Saved.perm.rootDone ELSE 0
  PROVE  ListInv'
<1>1. at \in TargetIndex /\ world \in World /\ TargetIndex' = TargetIndex /\ Running /\ result'[at] = r
  BY DEF BudgetInv, RunShape, TargetIndex, Running, AtWork
<1>2. /\ PermList(cur)' = PermList(cur) /\ PermSaved' = PermSaved /\ Saved' = Saved
      /\ PermSaved = (resume # NoState /\ resume[at].perm.started)
  BY SameWholeList DEF PermList, PermNames, PermSaved, Resuming, Saved
<1>3. \A t : MainOver(t)' = MainOver(t)
  BY SameWholeList DEF MainOver, Spent, Left
<1>4. EndedList(at, cur)'
  BY <1>1, <1>2, <1>3 DEF EndedList, Seeded, Saved
<1>5. SameNames(at, cur)'
  BY <1>1, <1>2, <1>3 DEF ListInv, WorkLists, SameNames
<1>6. MainOver(result[at])' = MainOver(r)
  BY <1>1, SameWholeList DEF MainOver, Spent, Left
<1>7. WorkLists'
  BY <1>1, <1>2, <1>4, <1>5, <1>6 DEF WorkLists
<1>8. OtherLists'
  <2>1. \A i \in TargetIndex : i < at => i # at
    BY <1>1, TargetOrder
  <2>2. ASSUME NEW i \in TargetIndex, i < at PROVE EndedList(i, kept[i])' /\ SameNames(i, kept[i])'
    <3>1. EndedList(i, kept[i]) /\ SameNames(i, kept[i])
      BY <1>1, <2>2 DEF ListInv, OtherLists
    <3>2. result'[i] = result[i]
      BY <2>1, <2>2
    <3>3. PermList(kept[i])' = PermList(kept[i]) /\ MainOver(result[i])' = MainOver(result[i])
      BY <3>2, SameWholeList DEF PermList, PermNames, MainOver, Spent, Left
    <3>4. seeds'[i] = seeds[i]
      BY <2>1, <2>2
    <3>5. QED BY <3>1, <3>2, <3>3, <3>4 DEF EndedList, SameNames, Seeded
  <2>3. \A i \in TargetIndex : Ahead(i)' => ~result'[i].perm.done
    BY <1>1 DEF ListInv, OtherLists, Ahead
  <2>4. QED BY <1>1, <2>2, <2>3 DEF OtherLists
<1>9. NoneLost'
  BY <1>1 DEF ListInv, NoneLost, CanAbort
<1>10. QED BY <1>7, <1>8, <1>9 DEF ListInv

LEMMA NewPassShape ==
  ASSUME NEW list, NEW from, NEW parents, NEW cap, pass' = NewPass(list, from, parents, FALSE, cap),
         from \in Nat, Len(list) \in Nat, phase' = "main" /\ world'.maxQueries = 0 => cap = 0
  PROVE  PassShape' /\ pass'.list = list /\ pass'.from = Start(from, list)
<1>1. /\ pass'.list = list /\ pass'.from = Start(from, list) /\ pass'.next = Start(from, list)
      /\ pass'.marks = {} /\ pass'.flight = {} /\ pass'.heard = {} /\ pass'.kids = {} /\ pass'.deep = FALSE
      /\ pass'.failures = FALSE /\ pass'.tripped = FALSE /\ pass'.begun = 0 /\ pass'.counted = 0
      /\ pass'.cap = cap
  BY DEF NewPass
<1>2. Start(from, list) \in Nat /\ Start(from, list) \in Start(from, list)..Len(list)
  BY DEF Start
<1>3. \A m : m \notin pass'.from..(pass'.next - 1)
  <2>1. \A k \in Nat : \A m : m \notin k..(k - 1)
    OBVIOUS
  <2>2. QED BY <1>1, <1>2, <2>1
<1>4. pass'.begun = pass'.counted + Cardinality(pass'.flight)
  <2>1. Cardinality(pass'.flight) = 0
    BY <1>1, FS_EmptySet
  <2>2. pass'.begun = 0 /\ pass'.counted = 0
    BY <1>1
  <2>3. 0 = 0 + 0
    OBVIOUS
  <2>4. QED BY <2>1, <2>2, <2>3
<1>5. QED BY <1>1, <1>2, <1>3, <1>4 DEF PassShape

LEMMA StopKeepsLists ==
  ASSUME BudgetInv, ListInv, UNCHANGED <<world, at, status, kept, cur, resume, file, signal>>,
         NEW failed \in BOOLEAN, \/ phase = "preflight" /\ Stop(failed, "permute")
                                 \/ phase = "permPreflight" /\ Stop(failed, "status")
  PROVE  ListInv'
<1> DEFINE r == [result[at] EXCEPT !.failed = @ \/ failed]
<1>1. /\ result' = [result EXCEPT ![at] = r] /\ UNCHANGED <<pass, seeds>>
      /\ phase \in AtWork /\ phase' \in AtWork /\ phase' \in {"permute", "status"} /\ PassShape'
      /\ (phase' = "permute" => phase = "preflight")
  BY DEF Stop, AtWork, PassShape, Scanning
<1>2. DOMAIN result = TargetIndex /\ at \in TargetIndex /\ DOMAIN result[at] = ResultFields
  BY <1>1 DEF BudgetInv, RunShape
<1>3. r.done = result[at].done /\ r.perm = result[at].perm /\ r.abort = result[at].abort
      /\ r.rootDone = result[at].rootDone /\ r.processed = result[at].processed
  BY <1>2 DEF ResultFields
<1> HIDE DEF r
<1>4. \A i \in TargetIndex : result'[i] = IF i = at THEN r ELSE result[i]
  BY <1>1, <1>2
<1>5. MainOver(r) = MainOver(result[at])
  BY <1>3 DEF MainOver
<1>6. r.perm.done => /\ Seeded(r.perm, at, cur) /\ r.done /\ MainOver(r)
                     /\ PermSaved => r.perm.rootDone >= Saved.perm.rootDone
  BY <1>1, <1>3, <1>5 DEF ListInv, WorkLists, EndedList, PermSaved, Resuming, Saved
<1>7. PermSaved /\ r.done => MainOver(r)
  BY <1>1, <1>3, <1>5 DEF ListInv, WorkLists, SameNames, PermSaved, Resuming, Saved
<1>8. (phase' = "permute" => ~r.perm.done /\ ~r.done) /\ (r.abort => CanAbort)
  BY <1>1, <1>2, <1>3 DEF ListInv, WorkLists, NoneLost
<1>9. DiskLists' /\ DOMAIN seeds = TargetIndex
  BY <1>1, DiskStays DEF ListInv, NoneLost
<1>10. QED BY <1>1, <1>4, <1>6, <1>7, <1>8, <1>9, WorkKeepsLists

LEMMA PreflightKeepsLists ==
  ASSUME BudgetInv, PointInv, ListInv, SameLists, UNCHANGED world, Preflight
  PROVE  ListInv'
<1>1. /\ UNCHANGED <<at, status, kept, cur, resume, file, signal>> /\ phase = "preflight" /\ phase \in AtWork
      /\ at \in TargetIndex /\ world \in World
  BY DEF Preflight, ctlVars, diskVars, outputVars, AtWork, BudgetInv, RunShape
<1>2. CASE \E failed \in BOOLEAN : Stop(failed, "permute")
  BY <1>1, <1>2, StopKeepsLists
<1>3. CASE ~\E failed \in BOOLEAN : Stop(failed, "permute")
  <2>1. UNCHANGED <<result, seeds>> /\ phase' = "main" /\ phase' \in AtWork
    BY <1>3 DEF Preflight, AtWork
  <2>2. Candidates(logs[at]) = WholeList /\ Len(WholeList) \in Nat
    BY <1>1, WholeListHasLength DEF PointInv, LogsKnown, Candidates, WholeList
  <2>0. world.recursive = FALSE
    BY <1>1 DEF SameLists, World
  <2>3. \E from \in Nat : \E parents, cap :
          /\ pass' = NewPass(WholeList, from, parents, FALSE, cap)
          /\ world.maxQueries = 0 => cap = 0
    <3>1. CASE Resuming
      <4>1. Saved.rootDone \in Nat
        BY <1>1, <3>1, WholeListHasLength DEF PointInv, PointsIn, Saved, Resuming
      <4>2. pass' = NewPass(WholeList, Saved.rootDone, MainNames(Saved.results), FALSE,
                            IF world.maxQueries = 0 THEN 0 ELSE Left(Saved.processed))
        BY <1>3, <2>0, <2>2, <3>1 DEF Preflight
      <4>3. QED BY <4>1, <4>2
    <3>2. CASE ~Resuming
      <4>1. pass' = NewPass(WholeList, 0, {}, FALSE, world.maxQueries)
        BY <1>3, <2>0, <2>2, <3>2 DEF Preflight
      <4>2. QED BY <4>1
    <3>3. QED BY <3>1, <3>2
  <2>4. PassShape'
    BY <2>2, <2>3, NewPassShape
  <2>5. /\ ~result[at].done /\ ~result[at].perm.done /\ (result[at].abort => CanAbort)
    BY <1>1 DEF ListInv, WorkLists, NoneLost
  <2>6. \A i \in TargetIndex : result'[i] = IF i = at THEN result[at] ELSE result[i]
    BY <2>1
  <2>7. DiskLists' /\ DOMAIN seeds = TargetIndex
    BY <1>1, <2>1, DiskStays DEF ListInv, NoneLost
  <2>8. QED BY <1>1, <2>1, <2>4, <2>5, <2>6, <2>7, WorkKeepsLists
<1>4. QED BY <1>2, <1>3


(* A main pass that was not stopped has no entry left, or no lookup. *)
LEMMA EndedIsOver ==
  ASSUME BudgetInv, SurviveInv, PointInv, ListInv, phase = "main", Ended, ~pass.tripped, ~signal
  PROVE  \/ Watermark = Len(WholeList)
         \/ world.maxQueries > 0 /\ pass.counted + Prior = world.maxQueries
<1>1. ~Stopping
  BY DEF SurviveInv, Concluded, Stopping
<1>2. pass.flight = {} /\ pass.heard = {} /\ (CapReached \/ pass.next = Len(pass.list))
  BY <1>1 DEF Ended, Drained
<1>3. /\ pass.list = WholeList /\ Len(WholeList) \in Nat /\ pass.from \in Nat
      /\ pass.next \in pass.from..Len(WholeList) /\ pass.marks \subseteq pass.from..(pass.next - 1)
      /\ \A m \in pass.from..(pass.next - 1) : m \in pass.marks
      /\ pass.begun = pass.counted + Cardinality(pass.flight)
      /\ (world.maxQueries = 0 => pass.cap = 0)
  BY <1>1, <1>2 DEF ListInv, PassShape, PointInv, PassPoint, Scanning
<1>4. CASE pass.next = Len(pass.list)
  <2>1. Watermark \in pass.from..Len(WholeList) /\ Watermark \notin pass.marks
    BY <1>3, WatermarkIsLeast
  <2>2. Watermark \notin pass.from..(Len(WholeList) - 1)
    BY <1>3, <1>4, <2>1
  <2>3. QED BY <1>3, <2>1, <2>2
<1>5. CASE CapReached
  <2>1. /\ pass.begun \in Nat /\ pass.counted \in Nat /\ pass.cap \in Int
        /\ pass.cap > 0 => pass.begun <= pass.cap
        /\ world.maxQueries \in Nat
        /\ world.maxQueries > 0 => pass.cap + Prior = world.maxQueries
    BY DEF BudgetInv, PassCounts, CapIsLeft, RunShape, World
  <2>2. pass.begun = pass.counted
    <3>1. Cardinality(pass.flight) = 0
      BY <1>2, FS_EmptySet
    <3>2. QED BY <1>3, <2>1, <3>1
  <2>3. pass.begun = pass.cap /\ world.maxQueries > 0
    BY <1>3, <1>5, <2>1 DEF CapReached
  <2>4. QED BY <2>1, <2>2, <2>3
<1>6. QED BY <1>2, <1>4, <1>5

LEMMA EndMainKeepsLists ==
  ASSUME BudgetInv, SurviveInv, PointInv, ListInv, UNCHANGED world, EndMain
  PROVE  ListInv'
<1>1. /\ UNCHANGED <<at, status, kept, cur, resume, file, seeds, signal>> /\ phase = "main" /\ phase' = "permute"
      /\ phase \in AtWork /\ phase' \in AtWork /\ at \in TargetIndex /\ Ended /\ Scanning
  BY DEF EndMain, ctlVars, diskVars, outputVars, AtWork, BudgetInv, RunShape, Scanning
<1> DEFINE r == [result[at] EXCEPT !.done = TRUE, !.abort = pass.tripped, !.failed = pass.tripped,
                   !.rootDone = Watermark,
                   !.processed = pass.counted + IF Resuming THEN Saved.processed ELSE 0]
<1>2. result' = [result EXCEPT ![at] = r] /\ DOMAIN result[at] = ResultFields /\ DOMAIN result = TargetIndex
  BY <1>1 DEF EndMain, BudgetInv, RunShape
<1>3. r.rootDone = Watermark /\ r.processed = pass.counted + Prior /\ r.abort = pass.tripped
      /\ r.perm = result[at].perm /\ r.done = TRUE
  BY <1>2 DEF ResultFields, Prior
<1> HIDE DEF r
<1>4. ~r.perm.done /\ (r.abort => CanAbort)
  BY <1>1, <1>3 DEF ListInv, WorkLists, PassShape
<1>5. PermSaved => MainOver(r)
  BY <1>1, <1>3, NothingLeft DEF MainOver
<1>6. ~r.abort /\ ~signal => MainOver(r)
  <2>1. world.maxQueries \in Nat
    BY DEF BudgetInv, RunShape, World
  <2>2. QED BY <1>1, <1>3, <2>1, EndedIsOver DEF MainOver, Spent, Left
<1>7. PassShape' /\ DiskLists' /\ DOMAIN seeds = TargetIndex
  BY <1>1, DiskStays DEF ListInv, NoneLost, PassShape, Scanning
<1>8. \A i \in TargetIndex : result'[i] = IF i = at THEN r ELSE result[i]
  BY <1>1, <1>2
<1>9. QED BY <1>1, <1>3, <1>4, <1>5, <1>6, <1>7, <1>8, WorkKeepsLists

LEMMA DecideKeepsLists ==
  ASSUME BudgetInv, ListInv, UNCHANGED world, DecidePermute
  PROVE  ListInv'
<1>1. /\ UNCHANGED <<at, status, kept, cur, resume, file, seeds, signal>> /\ phase = "permute"
      /\ phase \in AtWork /\ phase' \in {"status", "permPreflight"} /\ phase' \in AtWork /\ at \in TargetIndex
      /\ DOMAIN result = TargetIndex /\ DOMAIN result[at] = ResultFields
  BY DEF DecidePermute, ctlVars, diskVars, outputVars, AtWork, BudgetInv, RunShape
<1>2. PassShape' /\ DiskLists' /\ DOMAIN seeds = TargetIndex
  BY <1>1, DiskStays DEF ListInv, NoneLost, PassShape, Scanning
<1>3. /\ ~result[at].perm.done /\ (result[at].abort => CanAbort)
      /\ PermSaved /\ result[at].done => MainOver(result[at])
      /\ PermWanted => MainOver(result[at])
  BY <1>1 DEF ListInv, WorkLists, NoneLost, SameNames, PermSaved, Resuming, Saved, PermWanted
<1>4. CASE UNCHANGED result /\ phase' = "status"
  <2>1. \A i \in TargetIndex : result'[i] = IF i = at THEN result[at] ELSE result[i]
    BY <1>4
  <2>2. QED BY <1>1, <1>2, <1>3, <1>4, <2>1, WorkKeepsLists
<1>5. ASSUME NEW p, result' = [result EXCEPT ![at] = [result[at] EXCEPT !.perm = p]], PermWanted,
             p.done => /\ phase' = "status" /\ Seeded(p, at, cur)
                       /\ PermSaved => p.rootDone >= Saved.perm.rootDone
      PROVE  ListInv'
  <2> DEFINE r == [result[at] EXCEPT !.perm = p]
  <2>1. r.rootDone = result[at].rootDone /\ r.processed = result[at].processed /\ r.done = result[at].done
        /\ r.abort = result[at].abort /\ r.perm = p
    BY <1>1 DEF ResultFields
  <2>2. \A i \in TargetIndex : result'[i] = IF i = at THEN r ELSE result[i]
    BY <1>1, <1>5
  <2> HIDE DEF r
  <2>3. MainOver(r) /\ r.done
    BY <1>3, <1>5, <2>1 DEF MainOver, PermWanted
  <2>4. QED BY <1>1, <1>2, <1>3, <1>5, <2>1, <2>2, <2>3, WorkKeepsLists
<1>6. CASE PermWanted /\ PermSaved /\ phase' = "status"
           /\ result' = [result EXCEPT ![at].perm = [Saved.perm EXCEPT !.done = TRUE]]
  <2> DEFINE p == [Saved.perm EXCEPT !.done = TRUE]
  <2>1. resume # NoState /\ Saved.perm.started /\ DOMAIN Saved.perm = PermFields
    BY <1>1, <1>6 DEF PermSaved, Resuming, BudgetInv, RunShape, HasPerm, Saved
  <2>2. p.started = Saved.perm.started /\ p.rootDone = Saved.perm.rootDone
    BY <2>1 DEF PermFields
  <2>3. result' = [result EXCEPT ![at] = [result[at] EXCEPT !.perm = p]]
    BY <1>6
  <2> HIDE DEF p
  <2>4. Seeded(Saved.perm, at, Saved.results)
    BY <1>1, <2>1 DEF ListInv, DiskLists, SavedList, Saved
  <2>5. MainNames(cur) = MainNames(Saved.results)
    BY <1>1, <2>1 DEF ListInv, WorkLists, SameNames, Saved
  <2>6. PermList(cur) = PermList(Saved.results)
    BY <2>5 DEF PermList
  <2>7. Seeded(p, at, cur)
    BY <2>2, <2>4, <2>6 DEF Seeded
  <2>8. p.rootDone >= Saved.perm.rootDone
    <3>1. world \in World /\ Saved.perm.rootDone \in 0..Len(PermList(Saved.results))
      BY <2>4 DEF Seeded, BudgetInv, RunShape
    <3>2. Saved.perm.rootDone \in Int
      BY <3>1, PermListHasLength
    <3>3. QED BY <2>2, <3>2
  <2>9. QED BY <1>5, <1>6, <2>3, <2>7, <2>8
<1>7. CASE PermWanted /\ result' = [result EXCEPT ![at].perm = [NoPerm EXCEPT !.started = TRUE]]
  <2> DEFINE p == [NoPerm EXCEPT !.started = TRUE]
  <2>1. p.done = FALSE
    BY DEF NoPerm
  <2>2. result' = [result EXCEPT ![at] = [result[at] EXCEPT !.perm = p]]
    BY <1>7
  <2> HIDE DEF p
  <2>3. QED BY <1>5, <1>7, <2>1, <2>2
<1>8. QED BY <1>4, <1>6, <1>7 DEF DecidePermute


LEMMA PermPreflightKeepsLists ==
  ASSUME BudgetInv, SurviveInv, PointInv, ListInv, UNCHANGED world, PermPreflight
  PROVE  ListInv'
<1>1. /\ UNCHANGED <<at, status, kept, cur, resume, file, signal>> /\ phase = "permPreflight"
      /\ phase \in AtWork /\ at \in TargetIndex /\ world \in World /\ DOMAIN seeds = TargetIndex
  BY DEF PermPreflight, ctlVars, diskVars, outputVars, AtWork, BudgetInv, RunShape, ListInv, NoneLost
<1>2. CASE \E failed \in BOOLEAN : Stop(failed, "status")
  BY <1>1, <1>2, StopKeepsLists
<1>3. CASE ~\E failed \in BOOLEAN : Stop(failed, "status")
  <2> DEFINE list == PermCandidates
  <2>1. /\ UNCHANGED result /\ phase' = "perm" /\ phase' \in AtWork
        /\ seeds' = IF PermSaved THEN seeds ELSE [seeds EXCEPT ![at] = list]
    BY <1>3 DEF PermPreflight, AtWork
  <2>2. list = PermList(cur) /\ Len(list) \in Nat
    <3>1. logs[at].names = world.logNames /\ Candidates(logs[at]) = WholeList
      BY <1>1 DEF PointInv, LogsKnown, Candidates, WholeList
    <3>2. QED BY <1>1, <3>1, PermListHasLength DEF PermCandidates, PermList
  <2>3. /\ PermSaved => /\ Saved.perm.rootDone \in 0..Len(list) /\ seeds[at] = list
        /\ PermSaved <=> (resume # NoState /\ Saved.perm.started)
    <3>1. PermSaved <=> (resume # NoState /\ Saved.perm.started)
      BY DEF PermSaved, Resuming
    <3>2. PermSaved => Seeded(Saved.perm, at, Saved.results) /\ MainNames(cur) = MainNames(Saved.results)
      BY <1>1, <3>1 DEF ListInv, DiskLists, SavedList, Saved, WorkLists, SameNames
    <3>3. QED BY <2>2, <3>1, <3>2 DEF Seeded, PermList
  <2> DEFINE from == IF PermSaved THEN Saved.perm.rootDone ELSE 0
  <2>4. from \in Nat /\ Start(from, list) = from
    BY <2>2, <2>3 DEF Start
  <2>5. \E cap : pass' = NewPass(list, from, {}, FALSE, cap)
    BY <1>3 DEF PermPreflight
  <2> HIDE DEF list, from
  <2>6. PassShape' /\ pass'.list = list /\ pass'.from = from
    BY <2>1, <2>2, <2>4, <2>5, NewPassShape
  <2>7. /\ DOMAIN seeds' = TargetIndex /\ seeds'[at] = list
        /\ \A i \in TargetIndex : i # at => seeds'[i] = seeds[i]
    BY <1>1, <2>1, <2>3
  <2>8. DiskLists'
    <3>1. CASE PermSaved
      BY <1>1, <2>1, <3>1, DiskStays DEF ListInv
    <3>2. CASE ~PermSaved
      <4>1. file = resume
        BY <1>1 DEF SurviveInv, StateKept, Running, AtWork
      <4>2. resume # NoState => ~resume[at].perm.started
        BY <3>2 DEF PermSaved, Resuming, Saved
      <4>3. \A i : /\ PermList(resume[i].results)' = PermList(resume[i].results)
                  /\ PermList(file[i].results)' = PermList(file[i].results)
        BY <1>1, SameWholeList DEF PermList, PermNames
      <4>4. \A i : MainOver(resume[i])' = MainOver(resume[i]) /\ MainOver(file[i])' = MainOver(file[i])
        BY <1>1, SameWholeList DEF MainOver, Spent, Left
      <4>5. resume # NoState => \A i \in TargetIndex : SavedList(resume[i], i)'
        BY <1>1, <2>7, <4>2, <4>3, <4>4 DEF ListInv, DiskLists, SavedList, Seeded
      <4>6. file # NoState => \A i \in TargetIndex : SavedList(file[i], i)'
        BY <1>1, <2>7, <4>1, <4>2, <4>3, <4>4 DEF ListInv, DiskLists, SavedList, Seeded
      <4>7. QED BY <1>1, <4>5, <4>6, SameWholeList DEF DiskLists
    <3>3. QED BY <3>1, <3>2
  <2>9. /\ result[at].done /\ MainOver(result[at]) /\ ~result[at].perm.done /\ (result[at].abort => CanAbort)
    BY <1>1 DEF ListInv, WorkLists, NoneLost
  <2>10. \A i \in TargetIndex : result'[i] = IF i = at THEN result[at] ELSE result[i]
    BY <2>1
  <2>11. QED BY <1>1, <2>1, <2>2, <2>6, <2>7, <2>8, <2>9, <2>10, WorkKeepsLists DEF from
<1>4. QED BY <1>2, <1>3

LEMMA EndPermKeepsLists ==
  ASSUME BudgetInv, ListInv, UNCHANGED world, EndPerm
  PROVE  ListInv'
<1>1. /\ UNCHANGED <<at, status, kept, cur, resume, file, seeds, signal>> /\ phase = "perm" /\ phase' = "status"
      /\ phase \in AtWork /\ phase' \in AtWork /\ at \in TargetIndex /\ Scanning
      /\ DOMAIN result = TargetIndex /\ DOMAIN result[at] = ResultFields
  BY DEF EndPerm, ctlVars, diskVars, outputVars, AtWork, BudgetInv, RunShape, Scanning
<1> DEFINE p == [started |-> TRUE, done |-> TRUE, rootDone |-> Watermark,
                 processed |-> pass.counted + IF PermSaved THEN Saved.perm.processed ELSE 0]
           r == [result[at] EXCEPT !.failed = result[at].failed \/ pass.tripped, !.perm = p]
<1>2. result' = [result EXCEPT ![at] = r]
  BY <1>1 DEF EndPerm
<1>3. p.started = TRUE /\ p.done = TRUE /\ p.rootDone = Watermark
  OBVIOUS
<1> HIDE DEF p
<1>4. r.rootDone = result[at].rootDone /\ r.processed = result[at].processed /\ r.done = result[at].done
      /\ r.abort = result[at].abort /\ r.perm = p
  BY <1>1 DEF ResultFields
<1> HIDE DEF r
<1>5. /\ result[at].done /\ MainOver(result[at]) /\ (result[at].abort => CanAbort)
      /\ pass.list = PermList(cur) /\ seeds[at] = pass.list
      /\ pass.from = IF PermSaved THEN Saved.perm.rootDone ELSE 0
  BY <1>1 DEF ListInv, WorkLists, NoneLost
<1>6. Watermark \in pass.from..Len(pass.list) /\ pass.from \in Nat /\ Len(pass.list) \in Nat
  BY <1>1, WatermarkIsLeast DEF ListInv, PassShape
<1>7. Seeded(p, at, cur) /\ (PermSaved => p.rootDone >= Saved.perm.rootDone)
  BY <1>3, <1>5, <1>6 DEF Seeded
<1>8. MainOver(r)
  BY <1>4, <1>5 DEF MainOver
<1>9. PassShape' /\ DiskLists' /\ DOMAIN seeds = TargetIndex
  BY <1>1, DiskStays DEF ListInv, NoneLost, PassShape, Scanning
<1>10. \A i \in TargetIndex : result'[i] = IF i = at THEN r ELSE result[i]
  BY <1>1, <1>2
<1>11. QED BY <1>1, <1>4, <1>5, <1>7, <1>8, <1>9, <1>10, WorkKeepsLists

(* A target begun has the names its permutations were made of. *)
LEMMA BeginKeepsLists ==
  ASSUME BudgetInv, ListInv, UNCHANGED world, BeginTarget
  PROVE  ListInv'
<1>1. /\ UNCHANGED <<at, status, kept, resume, file, seeds, signal>> /\ phase = "next"
      /\ phase' \in {"preflight", "permute"} /\ phase' \in AtWork
      /\ at \in TargetIndex /\ world \in World /\ TargetIndex' = TargetIndex
  BY DEF BeginTarget, ctlVars, diskVars, outputVars, AtWork, BudgetInv, RunShape, TargetIndex, World
<1>2. Running /\ Running' /\ phase \notin AtWork
  BY <1>1 DEF Running, AtWork
<1>3. \A t : MainOver(t)' = MainOver(t)
  BY SameWholeList DEF MainOver, Spent, Left
<1>4. PICK r : /\ \A i \in TargetIndex : result'[i] = IF i = at THEN r ELSE result[i]
               /\ ~r.abort /\ ~r.perm.done
               /\ r.done => phase' = "permute" /\ MainOver(r)
  <2>1. CASE result' = [result EXCEPT ![at] = Fresh0]
    <3>1. Fresh0.done = FALSE /\ Fresh0.abort = FALSE /\ Fresh0.perm.done = FALSE
      BY DEF Fresh0, NoPerm
    <3>2. \A i \in TargetIndex : result'[i] = IF i = at THEN Fresh0 ELSE result[i]
      BY <2>1 DEF BudgetInv, RunShape
    <3>3. QED BY <3>1, <3>2
  <2>2. CASE /\ phase' = "permute" /\ Spent(Saved.processed)
             /\ result' = [result EXCEPT ![at] =
                  [Fresh0 EXCEPT !.done = TRUE, !.rootDone = Saved.rootDone, !.processed = Saved.processed]]
    <3> DEFINE r == [Fresh0 EXCEPT !.done = TRUE, !.rootDone = Saved.rootDone, !.processed = Saved.processed]
    <3>1. r.processed = Saved.processed /\ r.abort = FALSE /\ r.perm.done = FALSE
      BY DEF Fresh0, NoPerm
    <3> HIDE DEF r
    <3>2. \A i \in TargetIndex : result'[i] = IF i = at THEN r ELSE result[i]
      BY <2>2 DEF BudgetInv, RunShape, r
    <3>3. MainOver(r)
      BY <2>2, <3>1 DEF MainOver
    <3>4. QED BY <2>2, <3>1, <3>2, <3>3
  <2>3. QED BY <2>1, <2>2 DEF BeginTarget
<1>5. result'[at] = r /\ MainOver(result[at])' = MainOver(r)
  BY <1>1, <1>4, SameWholeList DEF MainOver, Spent, Left
<1>6. EndedList(at, cur)'
  BY <1>1, <1>4, <1>5 DEF EndedList
<1>7. SameNames(at, cur)'
  <2>1. resume # NoState => cur' = resume[at].results
    BY DEF BeginTarget, Restore, Resuming, Saved
  <2>2. QED BY <1>1, <1>4, <1>5, <2>1 DEF SameNames
<1>8. WorkLists'
  BY <1>1, <1>4, <1>5, <1>6, <1>7 DEF WorkLists
<1>9. OtherLists'
  <2>1. \A i \in TargetIndex : i < at => i # at
    BY <1>1, TargetOrder
  <2>2. ASSUME NEW i \in TargetIndex, i < at PROVE EndedList(i, kept[i])' /\ SameNames(i, kept[i])'
    <3>1. EndedList(i, kept[i]) /\ SameNames(i, kept[i])
      BY <1>2, <2>2 DEF ListInv, OtherLists
    <3>2. result'[i] = result[i]
      BY <1>4, <2>1, <2>2
    <3>3. PermList(kept[i])' = PermList(kept[i]) /\ MainOver(result[i])' = MainOver(result[i])
      BY <1>1, <3>2, SameWholeList DEF PermList, PermNames, MainOver, Spent, Left
    <3>4. QED BY <1>1, <3>1, <3>2, <3>3 DEF EndedList, SameNames, Seeded
  <2>3. \A i \in TargetIndex : Ahead(i)' => ~result'[i].perm.done
    BY <1>1, <1>2, <1>4 DEF ListInv, OtherLists, Ahead
  <2>4. QED BY <1>1, <2>2, <2>3 DEF OtherLists
<1>10. NoneLost' /\ DiskLists' /\ PassShape'
  <2>1. NoneLost'
    BY <1>1, <1>4 DEF ListInv, NoneLost, CanAbort
  <2>2. PassShape'
    BY <1>1 DEF PassShape, Scanning
  <2>3. QED BY <1>1, <2>1, <2>2, DiskStays DEF ListInv
<1>11. QED BY <1>8, <1>9, <1>10 DEF ListInv

(* Leaving a target behind keeps its list. *)
LEMMA PassKeepsLists ==
  ASSUME BudgetInv, ListInv, UNCHANGED <<world, resume, file, seeds>>, Running, phase' \in {"next", "over"},
         NEW t \in TargetIndex, at = t, at' = t + 1, \A i \in TargetIndex : status'[i] # "skipped",
         \A i \in TargetIndex : i # t => result'[i] = result[i] /\ kept'[i] = kept[i],
         result'[t].abort => CanAbort, EndedList(t, kept[t])', SameNames(t, kept[t])'
  PROVE  ListInv'
<1>1. phase' \notin AtWork /\ world \in World /\ TargetIndex' = TargetIndex /\ PassShape'
  BY DEF AtWork, BudgetInv, RunShape, TargetIndex, PassShape, Scanning
<1>2. NoneLost' /\ DiskLists' /\ WorkLists'
  BY <1>1, DiskStays DEF ListInv, NoneLost, CanAbort, WorkLists
<1>3. ASSUME NEW i \in TargetIndex
      PROVE  /\ i < at' => EndedList(i, kept[i])' /\ SameNames(i, kept[i])'
             /\ Ahead(i)' => ~result'[i].perm.done
  <2>1. CASE i = t
    <3>1. i < at'
      BY <1>1, <2>1, TargetOrder
    <3>2. QED BY <2>1, <3>1 DEF Ahead
  <2>2. CASE i # t
    <3>1. result'[i] = result[i] /\ kept'[i] = kept[i]
      BY <2>2
    <3>2. (i < at') <=> (i < at)
      BY <1>1, <2>2, TargetOrder
    <3>3. PermList(kept[i])' = PermList(kept[i]) /\ MainOver(result[i])' = MainOver(result[i])
      BY <3>1, SameWholeList DEF PermList, PermNames, MainOver, Spent, Left
    <3>4. i < at => EndedList(i, kept[i])' /\ SameNames(i, kept[i])'
      BY <3>1, <3>3 DEF ListInv, OtherLists, EndedList, SameNames, Seeded
    <3>5. Ahead(i)' => Ahead(i)
      BY <2>2, <3>2 DEF Ahead
    <3>6. QED BY <3>1, <3>2, <3>4, <3>5 DEF ListInv, OtherLists
  <2>3. QED BY <2>1, <2>2
<1>4. OtherLists'
  BY <1>1, <1>3 DEF OtherLists
<1>5. QED BY <1>1, <1>2, <1>4 DEF ListInv

LEMMA SkipKeepsLists ==
  ASSUME BudgetInv, SurviveInv, ListInv, UNCHANGED world, SkipFinished
  PROVE  ListInv'
<1>1. /\ UNCHANGED <<resume, file, seeds, phase>> /\ phase = "next" /\ Running
      /\ at \in TargetIndex /\ at' = at + 1 /\ resume # NoState
  BY DEF SkipFinished, ctlVars, diskVars, outputVars, BudgetInv, RunShape, TargetIndex, World, Running, Resuming
<1>2. PICK t \in TargetIndex : t = at
  BY <1>1
<1> DEFINE r == [Fresh0 EXCEPT !.done = TRUE, !.rootDone = Saved.rootDone, !.processed = Saved.processed]
<1>3. /\ status' = [status EXCEPT ![t] = "ok"] /\ result' = [result EXCEPT ![t] = r]
      /\ kept' = [kept EXCEPT ![t] = Saved.results]
  BY <1>2 DEF SkipFinished
<1>4. r.rootDone = resume[t].rootDone /\ r.processed = resume[t].processed /\ r.abort = FALSE /\ r.perm.done = FALSE
  BY <1>2 DEF Fresh0, Saved, NoPerm
<1> HIDE DEF r
<1>5. \A i \in TargetIndex : /\ status'[i] = IF i = t THEN "ok" ELSE status[i]
                             /\ result'[i] = IF i = t THEN r ELSE result[i]
                             /\ kept'[i] = IF i = t THEN resume[t].results ELSE kept[i]
  BY <1>2, <1>3 DEF SurviveInv, Reached, BudgetInv, RunShape, Saved
<1>6. \A i \in TargetIndex : status[i] # "skipped"
  BY DEF ListInv, NoneLost
<1>7. resume[t].perm.started => MainOver(result[t])'
  <2>1. resume[t].perm.started => MainOver(resume[t])
    BY <1>1 DEF ListInv, DiskLists, SavedList
  <2>2. MainOver(result[t])' = MainOver(resume[t])
    BY <1>4, <1>5, SameWholeList DEF MainOver, Spent, Left
  <2>3. QED BY <2>1, <2>2
<1>8. EndedList(t, kept[t])' /\ SameNames(t, kept[t])'
  BY <1>1, <1>4, <1>5, <1>7 DEF EndedList, SameNames
<1>9. QED BY <1>1, <1>2, <1>4, <1>5, <1>6, <1>8, PassKeepsLists


LEMMA StatusKeepsLists ==
  ASSUME BudgetInv, SurviveInv, ListInv, SameLists, UNCHANGED world, SetStatus
  PROVE  ListInv'
<1>1. /\ UNCHANGED <<resume, file, seeds, result>> /\ phase = "status" /\ Running /\ phase \in AtWork
      /\ at \in TargetIndex /\ at' = at + 1 /\ phase' \in {"next", "over"} /\ world \in World
  BY DEF SetStatus, ctlVars, diskVars, outputVars, BudgetInv, RunShape, AtWork, Running
<1>2. PICK t \in TargetIndex : t = at
  BY <1>1
<1>3. result[at].abort => \A i \in TargetIndex : ~(i > at)
  <2>1. result[at].abort => world.targets = 1
    BY <1>1 DEF ListInv, NoneLost, CanAbort, SameLists, NoneSkipped
  <2>2. QED BY <1>1, <2>1 DEF TargetIndex
<1>4. \A i \in TargetIndex : status'[i] # "skipped"
  <2>1. Verdict # "skipped"
    BY DEF Verdict
  <2>2. \A i \in TargetIndex : status[i] # "skipped"
    BY DEF ListInv, NoneLost
  <2>3. QED BY <1>3, <2>1, <2>2 DEF SetStatus
<1>5. \A i \in TargetIndex : kept'[i] = IF i = t THEN cur ELSE kept[i]
  BY <1>2 DEF SetStatus, SurviveInv, Reached
<1>6. kept'[t] = cur /\ EndedList(t, cur) /\ SameNames(t, cur) /\ (result[t].abort => CanAbort)
  BY <1>1, <1>2, <1>5 DEF ListInv, WorkLists, NoneLost
<1>7. PermList(kept[t])' = PermList(cur) /\ MainOver(result[t])' = MainOver(result[t])
  BY <1>1, <1>6, SameWholeList DEF PermList, PermNames, MainOver, Spent, Left
<1>8. EndedList(t, kept[t])' /\ SameNames(t, kept[t])'
  BY <1>1, <1>6, <1>7 DEF EndedList, SameNames, Seeded
<1>9. QED BY <1>1, <1>2, <1>4, <1>5, <1>6, <1>8, PassKeepsLists

LEMMA SettleKeepsLists ==
  ASSUME BudgetInv, SurviveInv, ListInv, UNCHANGED world, Loop \/ CommitResults \/ Signal \/ Cancel \/ Kill
  PROVE  ListInv'
<1>1. UNCHANGED <<at, status, kept, resume, file, result, seeds>> /\ Running /\ (signal => signal')
      /\ (ctx => ctx')
  BY DEF Loop, CommitResults, Signal, Cancel, Kill, Running, ctlVars, diskVars, outputVars, endVars
<1>2. /\ Running' => (phase \in AtWork <=> phase' \in AtWork)
      /\ phase' \in AtWork => UNCHANGED <<phase, pass, cur>>
  BY DEF Loop, CommitResults, Signal, Cancel, Kill, Running, AtWork
<1>3. NoneLost' /\ DiskLists' /\ OtherLists'
  BY <1>1, <1>2, DiskStays, BehindStays DEF ListInv, NoneLost, CanAbort, TargetIndex
<1>4. CASE phase' \in AtWork
  <2>1. UNCHANGED <<phase, pass, cur, at, resume, result, seeds>>
    BY <1>1, <1>2, <1>4
  <2>2. PassShape'
    BY <1>1, <2>1 DEF ListInv, PassShape, Scanning, Stopping, CanAbort
  <2>3. PermList(cur)' = PermList(cur) /\ MainOver(result[at])' = MainOver(result[at])
    BY <2>1, SameWholeList DEF PermList, PermNames, MainOver, Spent, Left
  <2>4. WorkLists'
    BY <1>1, <1>4, <2>1, <2>3 DEF ListInv, WorkLists, EndedList, SameNames, Seeded, PermSaved, Resuming, Saved
  <2>5. QED BY <1>3, <2>2, <2>4 DEF ListInv
<1>5. CASE phase' \notin AtWork
  BY <1>3, <1>5 DEF ListInv, PassShape, WorkLists, Scanning, AtWork
<1>6. QED BY <1>4, <1>5

(* What is saved: the list of this run's pass, or of the run that started it. *)
LEMMA SavedKeepsList ==
  ASSUME BudgetInv, SurviveInv, ListInv, phase = "over", NEW i \in TargetIndex
  PROVE  /\ SavedList(SavedTarget(i), i)
         /\ resume # NoState /\ resume[i].perm.started =>
              SavedTarget(i).perm.rootDone >= resume[i].perm.rootDone
<1>1. Running /\ phase \notin AtWork /\ at \in Nat /\ world \in World
  BY DEF Running, AtWork, BudgetInv, RunShape
<1>2. resume # NoState => SavedList(resume[i], i)
  BY DEF ListInv, DiskLists
<1>3. resume # NoState /\ resume[i].perm.started => resume[i].perm.rootDone \in Int
  BY <1>1, <1>2, PermListHasLength DEF SavedList, Seeded
<1>4. CASE Unreached(i)
  <2>1. SavedTarget(i) = resume[i] /\ resume # NoState
    BY <1>4 DEF SavedTarget, Unreached, Resuming
  <2>2. QED BY <1>2, <1>3, <2>1
<1>5. CASE ~Unreached(i)
  <2>1. /\ SavedTarget(i).rootDone = ResumePoint(i, result[i])[1]
        /\ SavedTarget(i).processed = ResumePoint(i, result[i])[2]
        /\ SavedTarget(i).results = kept[i]
        /\ SavedTarget(i).perm = IF result[i].perm.done THEN result[i].perm
                                 ELSE IF Resuming THEN resume[i].perm ELSE NoPerm
    BY <1>5 DEF SavedTarget
  <2>2. result[i].done => MainOver(SavedTarget(i)) = MainOver(result[i])
    BY <2>1 DEF ResumePoint, MainOver
  <2>3. CASE result[i].perm.done
    <3>1. i < at
      BY <1>1, <2>3 DEF ListInv, OtherLists, Ahead
    <3>2. EndedList(i, kept[i])
      BY <1>1, <3>1 DEF ListInv, OtherLists
    <3>3. QED BY <2>1, <2>2, <2>3, <3>2 DEF EndedList, SavedList, Seeded
  <2>4. CASE ~result[i].perm.done /\ Resuming
    <3>1. i < at
      BY <1>5, <2>4 DEF Unreached, SurviveInv, Reached, ListInv, NoneLost
    <3>2. SameNames(i, kept[i])
      BY <1>1, <3>1 DEF ListInv, OtherLists
    <3>3. SavedTarget(i).perm = resume[i].perm /\ resume # NoState
      BY <2>1, <2>4 DEF Resuming
    <3>4. ~result[i].done => MainOver(SavedTarget(i)) = MainOver(resume[i])
      BY <2>1, <2>4 DEF ResumePoint, MainOver
    <3>5. resume[i].perm.started => PermList(kept[i]) = PermList(resume[i].results)
      BY <3>2, <3>3 DEF SameNames, PermList
    <3>6. SavedList(SavedTarget(i), i)
      BY <1>2, <2>1, <2>2, <3>2, <3>3, <3>4, <3>5 DEF SavedList, Seeded, SameNames
    <3>7. QED BY <1>3, <3>3, <3>6
  <2>5. CASE ~result[i].perm.done /\ ~Resuming
    <3>1. SavedTarget(i).perm.started = FALSE /\ resume = NoState
      BY <2>1, <2>5 DEF NoPerm, Resuming
    <3>2. QED BY <3>1 DEF SavedList
  <2>6. QED BY <2>3, <2>4, <2>5
<1>6. QED BY <1>4, <1>5

LEMMA FinishKeepsLists ==
  ASSUME BudgetInv, SurviveInv, ListInv, UNCHANGED world, Finish
  PROVE  ListInv'
<1>1. /\ UNCHANGED <<at, status, kept, resume, result, seeds>> /\ phase = "over" /\ phase' = "commit"
      /\ Running /\ Running' /\ TargetIndex' = TargetIndex /\ phase \notin AtWork /\ phase' \notin AtWork
  BY DEF Finish, ctlVars, endVars, Running, TargetIndex, AtWork
<1>2. NoneLost' /\ PassShape' /\ WorkLists' /\ OtherLists'
  BY <1>1, BehindStays DEF ListInv, NoneLost, CanAbort, PassShape, WorkLists, Scanning
<1>3. /\ \A i : PermList(SavedTarget(i).results)' = PermList(SavedTarget(i)'.results)
      /\ \A i : PermList(resume[i].results)' = PermList(resume[i].results)
      /\ \A i : MainOver(resume[i])' = MainOver(resume[i])
  BY <1>1, SameWholeList DEF PermList, PermNames, MainOver, Spent, Left
<1>4. resume # NoState => \A i \in TargetIndex : SavedList(resume[i], i)'
  BY <1>1, <1>3 DEF ListInv, DiskLists, SavedList, Seeded
<1>5. file' # NoState => \A i \in TargetIndex : SavedList(file[i], i)'
  <2>1. CASE file' = [i \in TargetIndex |-> SavedTarget(i)]
    <3>1. ASSUME NEW i \in TargetIndex PROVE SavedList(file[i], i)'
      <4>1. file'[i] = SavedTarget(i) /\ SavedList(SavedTarget(i), i)
        BY <1>1, <2>1, SavedKeepsList
      <4>2. /\ PermList(file[i].results)' = PermList(SavedTarget(i).results)
            /\ MainOver(file[i])' = MainOver(SavedTarget(i))
        BY <4>1, SameWholeList DEF PermList, PermNames, MainOver, Spent, Left
      <4>3. QED BY <1>1, <4>1, <4>2 DEF SavedList, Seeded
    <3>2. QED BY <3>1
  <2>2. CASE file' = file
    <3>1. \A i : PermList(file[i].results)' = PermList(file[i].results) /\ MainOver(file[i])' = MainOver(file[i])
      BY <2>2, SameWholeList DEF PermList, PermNames, MainOver, Spent, Left
    <3>2. QED BY <1>1, <2>2, <3>1 DEF ListInv, DiskLists, SavedList, Seeded
  <2>3. QED BY <2>1, <2>2 DEF Finish
<1>6. DiskLists'
  BY <1>1, <1>4, <1>5 DEF DiskLists
<1>7. QED BY <1>2, <1>6 DEF ListInv

LEMMA NoneBeforeFirst ==
  ASSUME world \in World
  PROVE  \A i \in TargetIndex : ~(i < 1)
<1>1. world.targets \in Nat
  BY DEF World
<1>2. QED BY <1>1 DEF TargetIndex

LEMMA RestartKeepsLists ==
  ASSUME BudgetInv, ListInv, UNCHANGED world, Restart
  PROVE  ListInv'
<1>1. /\ UNCHANGED <<file, seeds>> /\ resume' = file /\ phase' = "next" /\ at' = 1 /\ file # NoState
      /\ status' = Each("") /\ result' = Each(Fresh0) /\ TargetIndex' = TargetIndex
  BY DEF Restart, outputVars, TargetIndex
<1>2. \A i \in TargetIndex : ~result'[i].abort /\ ~result'[i].perm.done /\ status'[i] # "skipped"
  BY <1>1 DEF Each, Fresh0, NoPerm
<1>3. phase' \notin AtWork /\ PassShape' /\ WorkLists' /\ \A i \in TargetIndex : ~(i < 1)
  <2>1. phase' \notin AtWork
    BY <1>1 DEF AtWork
  <2>2. PassShape' /\ WorkLists'
    BY <1>1, <2>1 DEF PassShape, WorkLists, Scanning
  <2>3. QED BY <2>1, <2>2, NoneBeforeFirst DEF BudgetInv, RunShape
<1>4. NoneLost' /\ OtherLists'
  BY <1>1, <1>2, <1>3 DEF ListInv, NoneLost, OtherLists
<1>5. \A i : PermList(file[i].results)' = PermList(file[i].results) /\ MainOver(file[i])' = MainOver(file[i])
  BY <1>1, SameWholeList DEF PermList, PermNames, MainOver, Spent, Left
<1>6. \A i : PermList(resume[i].results)' = PermList(file[i].results) /\ MainOver(resume[i])' = MainOver(file[i])
  BY <1>1, SameWholeList DEF PermList, PermNames, MainOver, Spent, Left
<1>7. \A i \in TargetIndex : SavedList(file[i], i)' /\ SavedList(resume[i], i)'
  BY <1>1, <1>5, <1>6 DEF ListInv, DiskLists, SavedList, Seeded
<1>8. DiskLists'
  BY <1>1, <1>7 DEF DiskLists
<1>9. QED BY <1>3, <1>4, <1>8 DEF ListInv

LEMMA InitLists == Init => ListInv
<1> SUFFICES ASSUME Init PROVE ListInv
  OBVIOUS
<1>1. /\ file = NoState /\ resume = NoState /\ phase = "next" /\ at = 1 /\ world \in World
      /\ status = Each("") /\ result = Each(Fresh0) /\ seeds = Each(<<>>)
  BY ResumeAssumption DEF Init
<1>2. \A i \in TargetIndex : ~result[i].abort /\ ~result[i].perm.done /\ status[i] # "skipped" /\ ~(i < 1)
  <2>1. \A i \in TargetIndex : ~result[i].abort /\ ~result[i].perm.done /\ status[i] # "skipped"
    BY <1>1 DEF Each, Fresh0, NoPerm
  <2>2. \A i \in TargetIndex : ~(i < 1)
    BY <1>1, NoneBeforeFirst
  <2>3. QED BY <2>1, <2>2
<1>3. NoneLost /\ OtherLists
  BY <1>1, <1>2 DEF NoneLost, OtherLists, Each
<1>4. DiskLists /\ WorkLists /\ PassShape
  BY <1>1 DEF DiskLists, WorkLists, PassShape, Scanning, AtWork
<1>5. QED BY <1>3, <1>4 DEF ListInv

LEMMA NextKeepsLists ==
  ASSUME BudgetInv, SurviveInv, PointInv, ListInv, SameLists, [Next]_vars
  PROVE  ListInv'
<1>1. CASE UNCHANGED vars
  <2>1. UNCHANGED <<world, phase, at, signal, ctx, status, result, kept, cur, resume, file, pass, seeds>>
    BY <1>1 DEF vars
  <2>2. NoneLost' /\ DiskLists' /\ PassShape'
    BY <2>1, DiskStays DEF ListInv, NoneLost, CanAbort, TargetIndex, PassShape, Scanning, Stopping
  <2>3. PermList(cur)' = PermList(cur) /\ MainOver(result[at])' = MainOver(result[at])
    BY <2>1, SameWholeList DEF PermList, PermNames, MainOver, Spent, Left
  <2>4. WorkLists'
    BY <2>1, <2>3 DEF ListInv, WorkLists, EndedList, SameNames, Seeded, PermSaved, Resuming, Saved
  <2>5. OtherLists'
    <3>1. CASE Running
      BY <2>1, <3>1, BehindStays DEF ListInv
    <3>2. CASE ~Running
      BY <2>1, <3>2 DEF OtherLists, Running
    <3>3. QED BY <3>1, <3>2
  <2>6. QED BY <2>2, <2>4, <2>5 DEF ListInv
<1>2. CASE Scan /\ UNCHANGED world
  BY <1>2, ScanKeepsLists
<1>3. CASE Run /\ UNCHANGED world
  BY <1>3, BeginKeepsLists, SkipKeepsLists, PreflightKeepsLists, EndMainKeepsLists, DecideKeepsLists,
     PermPreflightKeepsLists, EndPermKeepsLists, StatusKeepsLists, SettleKeepsLists, FinishKeepsLists DEF Run
<1>4. CASE (Signal \/ Cancel \/ Kill) /\ UNCHANGED world
  BY <1>4, SettleKeepsLists
<1>5. CASE Restart /\ UNCHANGED world
  BY <1>5, RestartKeepsLists
<1>6. QED BY <1>1, <1>2, <1>3, <1>4, <1>5 DEF Next

LEMMA ListsStay ==
  ASSUME BudgetInv, SurviveInv, ~world.logsFail => PointInv, SameLists => ListInv, [Next]_vars
  PROVE  (~world.logsFail => PointInv)' /\ (SameLists => ListInv)'
<1>1. world' = world
  BY DEF Next, vars
<1>2. (~world.logsFail => PointInv)'
  BY <1>1, NextKeepsPoints
<1>3. (SameLists => ListInv)'
  BY <1>1, NextKeepsLists DEF SameLists, NoneSkipped
<1>4. QED BY <1>2, <1>3

(* A resumed permutation pass makes the list the interrupted one was given,    *)
(* so that its saved index is the same candidate: the main pass finds no name  *)
(* any more when the other has been started.                                   *)
THEOREM ListIsRebuilt == Spec => [](SameLists => PermListRebuilt)
<1> DEFINE Steady == ~world.logsFail => PointInv
           Listing == SameLists => ListInv
<1>1. Spec => []BudgetInv
  BY InitInBudget, NextKeepsBudget, PTL DEF Spec
<1>2. Spec => []SurviveInv
  BY <1>1, InitSurvives, NextKeepsResults, PTL DEF Spec
<1>3. Init => Steady /\ Listing
  BY InitPoints, InitLists
<1>4. BudgetInv /\ SurviveInv /\ Steady /\ Listing /\ [Next]_vars => Steady' /\ Listing'
  BY ListsStay
<1>5. Listing => (SameLists => PermListRebuilt)
  BY DEF ListInv, WorkLists, PermListRebuilt, AtWork
<1> HIDE DEF Steady, Listing
<1>6. QED BY <1>1, <1>2, <1>3, <1>4, <1>5, PTL DEF Spec

(* What an interrupted run saves of a target it did not skip. *)
LEMMA TargetOnlyAdvances ==
  ASSUME BudgetInv, SurviveInv, PointInv, resume # NoState, NEW i \in TargetIndex, status[i] # "skipped"
  PROVE  /\ SavedTarget(i).rootDone >= resume[i].rootDone
         /\ SavedTarget(i).processed >= resume[i].processed
         /\ resume[i].done => SavedTarget(i).done
<1>1. resume[i].rootDone \in Nat /\ resume[i].processed \in Nat
  BY WholeListHasLength DEF PointInv, PointsIn, BudgetInv, RunShape, InBudget
<1>2. CASE status[i] = ""
  <2>1. SavedTarget(i) = resume[i]
    BY <1>2 DEF SavedTarget, Unreached, Resuming
  <2>2. QED BY <1>1, <2>1
<1>3. CASE status[i] # ""
  <2>1. i < at
    BY <1>3 DEF SurviveInv, Reached
  <2>2. /\ SavedTarget(i).rootDone = ResumePoint(i, result[i])[1]
        /\ SavedTarget(i).processed = ResumePoint(i, result[i])[2]
        /\ SavedTarget(i).done =
             (status[i] = "ok" /\ result[i].done /\ (result[i].perm.started => result[i].perm.done))
    BY <1>3 DEF SavedTarget, Unreached
  <2>3. /\ ResumePoint(i, result[i])[1] >= resume[i].rootDone
        /\ ResumePoint(i, result[i])[2] >= resume[i].processed
    BY <1>1 DEF ResumePoint, Resuming, PointInv, PointsIn, Onward
  <2>4. resume[i].done => status[i] = "ok" /\ result[i].done /\ ~result[i].perm.started
    BY <2>1 DEF PointInv, DoneStays
  <2>5. QED BY <2>2, <2>3, <2>4
<1>4. QED BY <1>2, <1>3

LEMMA FileStep ==
  ASSUME BudgetInv, SurviveInv, PointInv, SameLists => ListInv, [Next]_vars, file' # file
  PROVE  StateAdvances
<1>1. Finish
  BY DEF Next, Scan, Run, Dispatch, Answer, Complete, Trip, Loop, SkipFinished, BeginTarget, Preflight, EndMain,
     DecidePermute, PermPreflight, EndPerm, SetStatus, CommitResults, Signal, Cancel, Kill, Restart,
     diskVars, outputVars, endVars, vars
<1>2. phase = "over" /\ Running /\ file = resume /\ world \in World
  BY <1>1 DEF Finish, Running, SurviveInv, StateKept, BudgetInv, RunShape
<1>3. CASE signal
  <2>1. file' = [i \in TargetIndex |-> SavedTarget(i)]
    BY <1>1, <1>3 DEF Finish
  <2>2. file' # NoState
    <3>1. DOMAIN file' = TargetIndex /\ DOMAIN NoState = {}
      BY <2>1 DEF NoState
    <3>2. 1 \in TargetIndex
      BY <1>2, FreshResults
    <3>3. QED BY <3>1, <3>2
  <2>3. file # NoState => \A i \in TargetIndex : status[i] # "skipped" => TargetAdvances(i)
    <3> SUFFICES ASSUME file # NoState, NEW i \in TargetIndex, status[i] # "skipped"
                 PROVE  TargetAdvances(i)
      OBVIOUS
    <3>1. resume # NoState /\ file[i] = resume[i] /\ file'[i] = SavedTarget(i)
      BY <1>2, <2>1
    <3>2. /\ SavedTarget(i).rootDone >= resume[i].rootDone
          /\ SavedTarget(i).processed >= resume[i].processed
          /\ resume[i].done => SavedTarget(i).done
      BY <3>1, TargetOnlyAdvances
    <3>3. SameLists /\ resume[i].perm.started => SavedTarget(i).perm.rootDone >= resume[i].perm.rootDone
      BY <1>2, <3>1, SavedKeepsList
    <3>4. QED BY <3>1, <3>2, <3>3 DEF TargetAdvances
  <2>4. QED BY <1>3, <2>2, <2>3 DEF StateAdvances
<1>4. CASE ~signal
  <2>1. Resuming /\ ~AnyFailed /\ file' = NoState /\ ~ctx
    BY <1>1, <1>4 DEF Finish, SurviveInv, Concluded
  <2>2. at > world.targets
    BY <1>2, <2>1 DEF SurviveInv, Concluded
  <2>3. \A i \in TargetIndex : i < at
    <3>1. world.targets \in Nat /\ at \in Nat
      BY <1>2 DEF World, BudgetInv, RunShape
    <3>2. QED BY <2>2, <3>1 DEF TargetIndex
  <2>4. \A i \in TargetIndex : status[i] = "ok" /\ result[i].done
    BY <1>2, <1>4, <2>1, <2>3 DEF PointInv, DoneStays, SurviveInv, Concluded, HasEnded, AnyFailed
  <2>5. QED BY <1>2, <2>1, <2>4 DEF StateAdvances, Resuming
<1>5. QED BY <1>3, <1>4

(* HasEnded all runs of a scan the state file is only ever added to, or spent: the *)
(* resume point of a target that was not skipped never moves back, nor does    *)
(* the one of a permutation pass over the same list; its budget is never given *)
(* back, a target done stays done, and the file goes only after a run that     *)
(* finished every target.  The logs have to answer: without them a target      *)
(* skipped once can have a shorter list than before.                           *)
THEOREM FileOnlyAdvances == Spec => StateOnlyAdvances
<1> DEFINE Steady == ~world.logsFail => PointInv
           Listing == SameLists => ListInv
<1>1. Spec => []BudgetInv
  BY InitInBudget, NextKeepsBudget, PTL DEF Spec
<1>2. Spec => []SurviveInv
  BY <1>1, InitSurvives, NextKeepsResults, PTL DEF Spec
<1>3. Init => Steady /\ Listing
  BY InitPoints, InitLists
<1>4. BudgetInv /\ SurviveInv /\ Steady /\ Listing /\ [Next]_vars => Steady' /\ Listing'
  BY ListsStay
<1>5. BudgetInv /\ SurviveInv /\ Steady /\ Listing /\ [Next]_vars => [~world.logsFail => StateAdvances]_file
  BY FileStep
<1> HIDE DEF Steady, Listing
<1>6. QED BY <1>1, <1>2, <1>3, <1>4, <1>5, PTL DEF Spec, StateOnlyAdvances

-----------------------------------------------------------------------------
(***************************************************************************)
(* No name twice.  A hit of the current target that an earlier run did not *)
(* save was found by the pass under way or the one before: its name is     *)
(* among those handed out, and no longer looked up.                        *)
(***************************************************************************)
WrittenOnce(h) ==
  Fresh(h.name) =>
    \/ phase = "status"
    \/ phase \in {"permute", "permPreflight", "perm"} /\ ~h.perm
    \/ /\ Scanning /\ h.perm = (phase = "perm")
       /\ h.name \in pass.seen /\ \A job \in pass.flight : job.name # h.name

FlightOnce == \A a, b \in pass.flight : a.name = b.name => a = b

WrittenBefore ==
  Running => \A g \in out :
    /\ g[1] \in Nat /\ g[1] <= at
    /\ g[1] = at => phase \in AtWork /\ WrittenOnce(g[2])

OnceInv == NoneTwice /\ FlightOnce /\ WrittenBefore

LEMMA DispatchOnce ==
  ASSUME BudgetInv, OnceInv, Dispatch
  PROVE  OnceInv'
<1>1. /\ UNCHANGED <<at, phase, out, again, resume>> /\ Scanning /\ DOMAIN pass = PassFields
      /\ \A job \in pass.flight : job.name \in pass.seen
  BY DEF Dispatch, diskVars, BudgetInv, RunShape, PassCounts
<1>2. PICK job, next, kids : Hand(job, next, kids)
  BY DEF Dispatch
<1>3. \/ pass'.seen = pass.seen /\ pass'.flight = pass.flight
      \/ /\ job.name \notin pass.seen
         /\ pass'.seen = pass.seen \cup {job.name} /\ pass'.flight = pass.flight \cup {job}
  BY <1>1, <1>2 DEF Hand, PassFields
<1>4. FlightOnce'
  BY <1>1, <1>3 DEF OnceInv, FlightOnce
<1>5. \A h : WrittenOnce(h) => WrittenOnce(h)'
  BY <1>1, <1>3 DEF WrittenOnce, Fresh, Scanning
<1>6. QED BY <1>1, <1>4, <1>5 DEF OnceInv, NoneTwice, WrittenBefore, Running

LEMMA AnswerOnce ==
  ASSUME BudgetInv, OnceInv, NEW job \in pass.flight, NEW o, Answer(job, o)
  PROVE  OnceInv'
<1>0. PICK hit : hit = [name |-> job.name, perm |-> phase = "perm"]
  OBVIOUS
<1>1. /\ UNCHANGED <<at, phase, resume>> /\ Scanning /\ Running /\ phase \in AtWork
      /\ DOMAIN pass = PassFields /\ job.name \in pass.seen /\ at \in Nat
  BY DEF Answer, diskVars, BudgetInv, RunShape, PassCounts, Scanning, Running, AtWork
<1>2. pass'.seen = pass.seen /\ pass'.flight = pass.flight \ {job}
  <2>1. pass' = [pass EXCEPT !.flight = @ \ {job}, !.counted = @ + 1,
                   !.failures = @ \/ o = "failed", !.heard = @ \cup {<<job, o = "found">>}]
    BY DEF Answer
  <2>2. QED BY <1>1, <2>1 DEF PassFields
<1>3. hit.name = job.name /\ hit.perm = (phase = "perm") /\ (Emit(hit) \/ UNCHANGED <<out, again>>)
  BY <1>0 DEF Answer
<1>4. Fresh(job.name) => <<at, hit>> \notin out
  <2> SUFFICES ASSUME Fresh(job.name), <<at, hit>> \in out PROVE FALSE
    OBVIOUS
  <2>1. <<at, hit>>[1] = at /\ <<at, hit>>[2] = hit
    OBVIOUS
  <2>2. WrittenOnce(hit)
    BY <1>1, <2>1 DEF OnceInv, WrittenBefore
  <2>3. QED BY <1>1, <1>3, <2>2 DEF WrittenOnce, Scanning
<1>5. again' = again /\ (out' = out \/ out' = out \cup {<<at, hit>>})
  BY <1>3, <1>4 DEF Emit
<1>6. FlightOnce' /\ \A j \in pass'.flight : j.name # job.name
  BY <1>2 DEF OnceInv, FlightOnce
<1>7. \A h : WrittenOnce(h) => WrittenOnce(h)'
  BY <1>1, <1>2 DEF WrittenOnce, Fresh, Scanning
<1>8. WrittenOnce(hit)'
  BY <1>1, <1>2, <1>3, <1>6 DEF WrittenOnce, Scanning
<1>9. WrittenBefore'
  <2> SUFFICES ASSUME NEW g \in out'
               PROVE  g[1] \in Nat /\ g[1] <= at /\ (g[1] = at => WrittenOnce(g[2])')
    BY <1>1 DEF WrittenBefore
  <2>1. CASE g \in out
    BY <1>1, <1>7, <2>1 DEF OnceInv, WrittenBefore
  <2>2. CASE g = <<at, hit>>
    BY <1>1, <1>8, <2>2
  <2>3. QED BY <1>5, <2>1, <2>2
<1>10. QED BY <1>5, <1>6, <1>9 DEF OnceInv, NoneTwice

LEMMA ReportOnce ==
  ASSUME BudgetInv, OnceInv, Trip \/ \E pair \in pass.heard : Complete(pair[1], pair[2])
  PROVE  OnceInv'
<1>1. UNCHANGED <<at, phase, out, again, resume>> /\ DOMAIN pass = PassFields
  BY DEF Trip, Complete, diskVars, BudgetInv, RunShape
<1>2. pass'.seen = pass.seen /\ pass'.flight = pass.flight
  BY <1>1 DEF Trip, Complete, PassFields
<1>3. \A h : WrittenOnce(h)' = WrittenOnce(h)
  BY <1>1, <1>2 DEF WrittenOnce, Fresh, Scanning
<1>4. QED BY <1>1, <1>2, <1>3 DEF OnceInv, NoneTwice, FlightOnce, WrittenBefore, Running

(* The steps of a target between its passes. *)
LEMMA WorkOnce ==
  ASSUME BudgetInv, OnceInv, Preflight \/ EndMain \/ DecidePermute \/ PermPreflight \/ EndPerm
  PROVE  OnceInv'
<1>1. /\ UNCHANGED <<at, out, again, resume>> /\ phase \in AtWork /\ phase' \in AtWork /\ Running
  BY DEF Preflight, EndMain, DecidePermute, PermPreflight, EndPerm, Stop, diskVars, AtWork, Running
<1>2. \/ UNCHANGED pass
      \/ \E list, from, parents, deep, cap : pass' = NewPass(list, from, parents, deep, cap)
  BY DEF Preflight, EndMain, DecidePermute, PermPreflight, EndPerm, Stop, NoPass
<1>3. FlightOnce'
  <2>1. CASE UNCHANGED pass
    BY <2>1 DEF OnceInv, FlightOnce
  <2>2. CASE \E list, from, parents, deep, cap : pass' = NewPass(list, from, parents, deep, cap)
    BY <2>2, NewPassFields DEF FlightOnce
  <2>3. QED BY <1>2, <2>1, <2>2
<1>4. ASSUME NEW h, WrittenOnce(h) PROVE WrittenOnce(h)'
  BY <1>1, <1>4 DEF WrittenOnce, Fresh, Scanning, Preflight, EndMain, DecidePermute, PermPreflight, EndPerm, Stop
<1>5. QED BY <1>1, <1>3, <1>4 DEF OnceInv, NoneTwice, WrittenBefore

LEMMA BeginOnce ==
  ASSUME BudgetInv, OnceInv, BeginTarget
  PROVE  OnceInv'
<1>1. /\ UNCHANGED <<at, again, resume, pass>> /\ phase = "next" /\ Running /\ at \in Nat
      /\ phase' \in AtWork /\ phase \notin AtWork
  BY DEF BeginTarget, diskVars, BudgetInv, RunShape, AtWork, Running
<1>2. \A g \in out : g[1] \in Nat /\ g[1] <= at /\ g[1] # at
  BY <1>1 DEF OnceInv, WrittenBefore
<1>3. out' = out \/ (Resuming /\ out' = out \cup {<<at, h>> : h \in Saved.results})
  BY DEF BeginTarget, Restore
<1>4. \A h \in Saved.results : Resuming => WrittenOnce(h)'
  BY <1>1 DEF WrittenOnce, Fresh, Resuming, Saved
<1>5. WrittenBefore'
  <2> SUFFICES ASSUME NEW g \in out'
               PROVE  g[1] \in Nat /\ g[1] <= at /\ (g[1] = at => WrittenOnce(g[2])')
    BY <1>1 DEF WrittenBefore
  <2>1. CASE g \in out
    BY <1>2, <2>1
  <2>2. CASE Resuming /\ \E h \in Saved.results : g = <<at, h>>
    BY <1>1, <1>4, <2>2
  <2>3. QED BY <1>3, <2>1, <2>2
<1>6. QED BY <1>1, <1>5 DEF OnceInv, NoneTwice, FlightOnce

LEMMA NextOnce ==
  ASSUME BudgetInv, OnceInv, SkipFinished \/ SetStatus
  PROVE  OnceInv'
<1>1. /\ UNCHANGED <<again, pass>> /\ Running /\ at \in Nat /\ at' = at + 1
      /\ \A g \in out : g[1] \in Nat /\ g[1] <= at
  BY DEF SkipFinished, SetStatus, BudgetInv, RunShape, Running, OnceInv, WrittenBefore
<1>2. \A g \in out' : g[1] \in Nat /\ g[1] <= at
  <2>1. CASE SkipFinished
    <3>1. out' = out \cup {<<at, h>> : h \in Saved.results}
      BY <2>1 DEF SkipFinished, Restore
    <3>2. QED BY <1>1, <3>1
  <2>2. CASE SetStatus
    BY <1>1, <2>2 DEF SetStatus
  <2>3. QED BY <2>1, <2>2
<1>3. \A g \in out' : g[1] <= at' /\ g[1] # at'
  BY <1>1, <1>2
<1>4. QED BY <1>1, <1>2, <1>3 DEF OnceInv, NoneTwice, FlightOnce, WrittenBefore

LEMMA SettleOnce ==
  ASSUME BudgetInv, OnceInv, Loop \/ Finish \/ CommitResults \/ Signal \/ Cancel \/ Kill
  PROVE  OnceInv'
<1>1. CASE Kill
  <2>1. FlightOnce'
    BY <1>1, NewPassFields DEF Kill, NoPass, FlightOnce
  <2>2. QED BY <1>1, <2>1 DEF Kill, OnceInv, NoneTwice, WrittenBefore, Running
<1>2. CASE Signal \/ Cancel
  <2>1. UNCHANGED <<at, phase, out, again, resume, pass>>
    BY <1>2 DEF Signal, Cancel, diskVars
  <2>2. QED BY <2>1 DEF OnceInv, NoneTwice, FlightOnce, WrittenBefore, Running, WrittenOnce, Fresh, Scanning
<1>3. CASE Loop \/ Finish \/ CommitResults
  <2>1. UNCHANGED <<at, out, again, pass>> /\ phase \notin AtWork /\ Running
    BY <1>3 DEF Loop, Finish, CommitResults, AtWork, Running
  <2>2. QED BY <2>1 DEF OnceInv, NoneTwice, FlightOnce, WrittenBefore
<1>4. QED BY <1>1, <1>2, <1>3

LEMMA StartOnce ==
  ASSUME pass = NoPass, out = {}, again = {}
  PROVE  OnceInv
<1>1. pass.flight = {}
  BY DEF NoPass, NewPass
<1>2. QED BY <1>1 DEF OnceInv, NoneTwice, FlightOnce, WrittenBefore

LEMMA RestartOnce ==
  ASSUME Restart
  PROVE  OnceInv'
<1>1. pass' = NoPass /\ out' = {} /\ again' = {}
  BY DEF Restart
<1>2. FlightOnce'
  BY <1>1, NewPassFields DEF NoPass, FlightOnce
<1>3. QED BY <1>1, <1>2 DEF OnceInv, NoneTwice, WrittenBefore

LEMMA NextWritesOnce == BudgetInv /\ OnceInv /\ [Next]_vars => OnceInv'
<1> SUFFICES ASSUME BudgetInv, OnceInv, [Next]_vars PROVE OnceInv'
  OBVIOUS
<1>1. CASE UNCHANGED vars
  BY <1>1 DEF vars, OnceInv, NoneTwice, FlightOnce, WrittenBefore, Running, WrittenOnce, Fresh, Scanning
<1>2. CASE Scan
  BY <1>2, DispatchOnce, AnswerOnce, ReportOnce DEF Scan
<1>3. CASE Run
  BY <1>3, WorkOnce, BeginOnce, NextOnce, SettleOnce DEF Run
<1>4. CASE Signal \/ Cancel \/ Kill
  BY <1>4, SettleOnce
<1>5. CASE Restart
  BY <1>5, RestartOnce
<1>6. QED BY <1>1, <1>2, <1>3, <1>4, <1>5 DEF Next

(* No run writes a name twice, restored or found again, whatever the scan, its *)
(* duplicates in the list included, and however often it was interrupted.      *)
THEOREM NoNameTwice == Spec => []NoneTwice
<1>1. Spec => []BudgetInv
  BY InitInBudget, NextKeepsBudget, PTL DEF Spec
<1>2. Init => OnceInv
  BY StartOnce DEF Init
<1>3. OnceInv => NoneTwice
  BY DEF OnceInv
<1>4. QED BY <1>1, <1>2, <1>3, NextWritesOnce, PTL DEF Spec
-----------------------------------------------------------------------------
(***************************************************************************)
(* What a scan finds.  The names of a recursive scan come level by level:  *)
(* the entries that resolve, then those that resolve below a name of the   *)
(* level before.  They are the least set that holds the former and, with a *)
(* name above the depth limit, the latter.                                 *)
(***************************************************************************)
LEMMA PickedAre ==
  ASSUME NEW list, NEW ks \in SUBSET Nat, IsFiniteSet(ks)
  PROVE  Names(Picked(list, ks)) = {list[k] : k \in ks}
<1> DEFINE n == Cardinality(ks)
           upTo(k) == {m \in ks : m <= k}
           rank == [k \in ks |-> Cardinality(upTo(k))]
<1>1. n \in Nat /\ IsFiniteSet(1..n) /\ Cardinality(1..n) = n
  <2>1. n \in Nat
    BY FS_CardinalityType
  <2>2. IsFiniteSet(1..n) /\ Cardinality(1..n) = IF 1 > n THEN 0 ELSE n - 1 + 1
    BY <2>1, FS_Interval
  <2>3. QED BY <2>1, <2>2
<1>2. ASSUME NEW k \in ks
      PROVE  IsFiniteSet(upTo(k)) /\ rank[k] \in 1..n
  <2>1. upTo(k) \in SUBSET ks /\ k \in upTo(k)
    OBVIOUS
  <2>2. IsFiniteSet(upTo(k)) /\ Cardinality(upTo(k)) <= n
    BY <2>1, FS_Subset
  <2>3. Cardinality(upTo(k)) \in Nat /\ Cardinality(upTo(k)) # 0
    BY <2>1, <2>2, FS_CardinalityType, FS_EmptySet
  <2>4. QED BY <1>1, <2>2, <2>3
<1>3. ASSUME NEW k \in ks, NEW l \in ks, k < l
      PROVE  rank[k] # rank[l]
  <2>1. ~(l <= k) /\ l <= l /\ \A m \in ks : m <= k => m <= l
    BY <1>3
  <2>2. upTo(k) \in SUBSET upTo(l) /\ l \in upTo(l) /\ l \notin upTo(k)
    BY <2>1, Zenon
  <2>3. Cardinality(upTo(l)) # Cardinality(upTo(k))
    BY <1>2, <2>2, FS_Subset
  <2>4. QED BY <2>3
<1>4. rank \in Injection(ks, 1..n)
  <2>1. rank \in [ks -> 1..n]
    BY <1>2
  <2>2. \A k, l \in ks : rank[k] = rank[l] => k = l
    BY <1>3
  <2>3. QED BY <2>1, <2>2 DEF Injection, IsInjective
<1>5. rank \in Surjection(ks, 1..n)
  <2> HIDE DEF rank, n
  <2>1. Cardinality(ks) = Cardinality(1..n)
    BY <1>1 DEF n
  <2>2. QED BY <1>1, <1>4, <2>1, FS_Injection
<1> DEFINE at_(j) == CHOOSE k \in ks : Cardinality({m \in ks : m <= k}) = j
<1>6. \A j \in 1..n : at_(j) \in ks /\ rank[at_(j)] = j
  <2>1. \A j \in 1..n : \E k \in ks : rank[k] = j
    BY <1>5 DEF Surjection
  <2>2. QED BY <2>1
<1>7. \A k \in ks : rank[k] \in 1..n /\ at_(rank[k]) = k
  BY <1>2, <1>4, <1>6 DEF Injection, IsInjective
<1>8. Picked(list, ks) = [j \in 1..n |-> list[at_(j)]]
  BY DEF Picked
<1> HIDE DEF n, rank, at_
<1>9. Names(Picked(list, ks)) = {list[at_(j)] : j \in 1..n}
  BY <1>8 DEF Names
<1>10. QED BY <1>6, <1>7, <1>9

LEMMA EverythingIs ==
  ASSUME world \in World
  PROVE  /\ Len(WholeList) \in Nat
         /\ Everything = {WholeList[m] : m \in 1..Len(WholeList)}
<1>1. PICK S : WholeList \in Seq(S)
  BY WholeListIsSequence
<1>2. DOMAIN WholeList = 1..Len(WholeList) /\ Len(WholeList) \in Nat
  BY <1>1
<1>3. QED BY <1>2 DEF Everything, Names

Levels(L, k) == L = [d \in 1..k |-> IF d = 1 THEN FirstLevel ELSE NextLevel(L[d - 1])]

LEMMA LeastExists ==
  ASSUME NEW T \in SUBSET Nat, T # {}
  PROVE  \E x \in T : \A y \in T : ~(y < x)
<1>1. IsWellFoundedOn(OpToRel(<, Nat), Nat)
  BY NatLessThanWellFounded
<1>2. PICK x \in T : \A y \in T : ~(<<y, x>> \in OpToRel(<, Nat))
  BY <1>1, WFMin
<1>3. QED BY <1>2 DEF OpToRel

LEMMA LevelsExist ==
  ASSUME NEW k \in Nat
  PROVE  \E L : Levels(L, k)
<1> DEFINE T == {m \in Nat : ~\E L : Levels(L, m)}
<1> SUFFICES ASSUME T # {} PROVE FALSE
  OBVIOUS
<1>1. PICK x \in T : \A y \in T : ~(y < x)
  <2> HIDE DEF T
  <2>1. T \in SUBSET Nat
    BY DEF T
  <2>2. QED BY <2>1, LeastExists
<1>2. x \in Nat /\ x \in T
  OBVIOUS
<1>3. x \in Nat /\ \A y \in Nat : y < x => \E L : Levels(L, y)
  BY <1>1
<1>4. CASE x = 0
  <2> DEFINE L == [d \in 1..0 |-> IF d = 1 THEN FirstLevel ELSE {}]
  <2>1. Levels(L, 0)
    BY DEF Levels
  <2>2. QED BY <1>2, <1>4, <2>1
<1>5. CASE x # 0
  <2>1. PICK y \in Nat : x = y + 1
    <3>1. x - 1 \in Nat /\ x = (x - 1) + 1
      BY <1>3, <1>5
    <3>2. QED BY <3>1
  <2>2. PICK L : Levels(L, y)
    BY <1>3, <2>1
  <2> DEFINE M == [d \in 1..(y + 1) |-> IF d = 1 THEN FirstLevel ELSE NextLevel(L[d - 1])]
  <2>3. \A d \in 1..y : M[d] = L[d]
    <3>1. \A d \in 1..y : L[d] = IF d = 1 THEN FirstLevel ELSE NextLevel(L[d - 1])
      BY <2>2 DEF Levels
    <3>2. \A d \in 1..y : d \in 1..(y + 1)
      OBVIOUS
    <3>3. QED BY <3>1, <3>2
  <2>4. \A d \in 1..(y + 1) : d # 1 => d - 1 \in 1..y
    OBVIOUS
  <2>5. \A d \in 1..(y + 1) : M[d] = IF d = 1 THEN FirstLevel ELSE NextLevel(M[d - 1])
    BY <2>3, <2>4
  <2>6. Levels(M, y + 1)
    <3>1. M = [d \in 1..(y + 1) |-> M[d]]
      OBVIOUS
    <3> HIDE DEF M
    <3>2. QED BY <2>5, <3>1 DEF Levels
  <2>7. QED BY <1>2, <2>1, <2>6
<1>6. QED BY <1>4, <1>5

LEMMA MainHitsByLevel ==
  ASSUME world \in World, world.recursive
  PROVE  \E L : Levels(L, world.depth) /\ MainHits = UNION {L[d] : d \in 1..world.depth}
<1> DEFINE M == CHOOSE L : Levels(L, world.depth)
<1>1. Levels(M, world.depth)
  BY LevelsExist DEF World
<1>2. MainHits = UNION {M[d] : d \in 1..world.depth}
  BY DEF MainHits, Levels
<1>3. QED BY <1>1, <1>2

(* The names of a scan are sequences of labels. *)
LEMMA EntriesAreNames ==
  ASSUME world \in World
  PROVE  Everything \subseteq Seq(Label)
<1> DEFINE list == world.logNames
           ks == {k \in DOMAIN list : list[k] \notin Names(Entries)}
           some == Picked(list, ks)
<1>1. list \in Seq(Name \ {<<>>}) /\ Entries \in Seq(Name \ {<<>>})
  BY ResumeAssumption DEF World
<1>2. DOMAIN list = 1..Len(list) /\ Len(list) \in Nat
  BY <1>1
<1>3. ks \in SUBSET Nat /\ IsFiniteSet(ks) /\ ks \subseteq DOMAIN list
  <2>1. IsFiniteSet(1..Len(list))
    BY <1>2, FS_Interval
  <2>2. QED BY <1>2, <2>1, FS_Subset
<1>4. Names(some) = {list[k] : k \in ks}
  BY <1>3, PickedAre
<1>5. \A k \in DOMAIN list : list[k] \in Name
  BY <1>1, <1>2
<1>6. Names(some) \subseteq Name
  BY <1>3, <1>4, <1>5
<1>7. WholeList = Entries \o some
  BY DEF WholeList, Candidates, NewNames
<1> HIDE DEF list, ks
<1>8. PICK S : some \in Seq(S)
  BY <1>3, PickedIsSequence
<1> HIDE DEF some
<1>9. ASSUME NEW m \in 1..Len(WholeList) PROVE WholeList[m] \in Name
  <2>1. CASE m <= Len(Entries)
    BY <1>1, <1>7, <1>8, <2>1
  <2>2. CASE m > Len(Entries)
    <3>1. WholeList[m] = some[m - Len(Entries)] /\ m - Len(Entries) \in DOMAIN some
      <4>1. Entries \in Seq(Name \cup S) /\ some \in Seq(Name \cup S)
        BY <1>1, <1>8
      <4>2. Len(WholeList) = Len(Entries) + Len(some) /\ Len(Entries) \in Nat /\ Len(some) \in Nat
        BY <1>7, <4>1
      <4>3. QED BY <1>7, <2>2, <4>1, <4>2
    <3>2. QED BY <1>6, <3>1 DEF Names
  <2>3. Len(Entries) \in Nat
    BY <1>1
  <2>4. QED BY <2>1, <2>2, <2>3
<1>10. QED BY <1>9, EverythingIs DEF Name

LEMMA NextLevelIs ==
  ASSUME NEW names, NEW n \in NextLevel(names)
  PROVE  \E e \in Everything, p \in names : n = e \o p /\ Resolves(n)
<1> DEFINE Join(e, p) == e \o p
           some == names \ world.wild
<1>1. n \in {Join(e, p) : e \in Everything, p \in some} /\ Resolves(n)
  BY DEF NextLevel
<1>2. PICK e \in Everything, p \in some : n = Join(e, p)
  <2> HIDE DEF Join, some
  <2>1. QED BY <1>1
<1>3. n = e \o p /\ Resolves(n) /\ p \in names
  BY <1>1, <1>2
<1> HIDE DEF Join
<1>4. QED BY <1>3, Zenon

LEMMA BelowIsName ==
  ASSUME world \in World, Undotted, NEW e \in Everything, NEW p \in Seq(Label)
  PROVE  e \o p \in Seq(Label) /\ Len(e \o p) = Len(p) + 1 /\ Len(p) \in Nat
<1>1. e \in Seq(Label) /\ Len(e) = 1
  BY EntriesAreNames DEF Undotted
<1>2. e \o p \in Seq(Label) /\ Len(e \o p) = Len(e) + Len(p)
  BY <1>1, ConcatProperties
<1>3. Len(p) \in Nat
  BY LenProperties
<1>4. QED BY <1>1, <1>2, <1>3

LEMMA LevelsAre ==
  ASSUME world \in World, Calm, world.recursive, NEW L, Levels(L, world.depth), NEW d \in 1..world.depth
  PROVE  \A q \in L[d] : Resolves(q) /\ q \in Seq(Label) /\ Len(q) = d
<1> DEFINE Fine(c) == \A q \in L[c] : Resolves(q) /\ q \in Seq(Label) /\ Len(q) = c
           T == {c \in 1..world.depth : ~Fine(c)}
<1>1. world.depth \in Nat
  BY DEF World
<1> SUFFICES ASSUME T # {} PROVE FALSE
  OBVIOUS
<1>2. PICK x \in T : \A y \in T : ~(y < x)
  <2>1. T \in SUBSET Nat
    BY <1>1
  <2> HIDE DEF T
  <2>2. QED BY <2>1, LeastExists
<1>3. x \in 1..world.depth /\ ~Fine(x) /\ \A y \in 1..world.depth : y < x => Fine(y)
  BY <1>2
<1>4. L[x] = IF x = 1 THEN FirstLevel ELSE NextLevel(L[x - 1])
  BY <1>3 DEF Levels
<1>5. CASE x = 1
  <2>1. \A n \in Everything : n \in Seq(Label) /\ Len(n) = 1
    BY EntriesAreNames DEF Calm, Undotted
  <2>2. QED BY <1>3, <1>4, <1>5, <2>1 DEF FirstLevel
<1>6. CASE x # 1
  <2>1. PICK y \in 1..world.depth : x = y + 1
    <3>1. x - 1 \in 1..world.depth /\ x = (x - 1) + 1
      BY <1>1, <1>3, <1>6
    <3>2. QED BY <3>1
  <2>2. Fine(y) /\ L[x] = NextLevel(L[y])
    BY <1>3, <1>4, <1>6, <2>1
  <2>3. ASSUME NEW n \in L[x] PROVE Resolves(n) /\ n \in Seq(Label) /\ Len(n) = x
    <3>1. PICK e \in Everything, p \in L[y] : n = e \o p /\ Resolves(n)
      <4>1. n \in NextLevel(L[y])
        BY <2>2, <2>3, Zenon
      <4>2. QED BY <4>1, NextLevelIs
    <3>2. p \in Seq(Label) /\ Len(p) = y
      BY <2>2
    <3>3. n \in Seq(Label) /\ Len(n) = Len(p) + 1
      BY <3>1, <3>2, BelowIsName DEF Calm
    <3>4. QED BY <2>1, <3>1, <3>2, <3>3
  <2>4. QED BY <1>3, <2>3
<1>7. QED BY <1>5, <1>6

LEMMA MainHitsAre ==
  ASSUME world \in World, Calm
  PROVE  /\ \A n \in Everything : Resolves(n) => n \in MainHits
         /\ \A q \in MainHits : Resolves(q)
         /\ world.recursive => \A q \in MainHits : q \in Seq(Label) /\ Len(q) \in 1..world.depth
         /\ world.recursive => \A q \in MainHits, e \in Everything :
              Len(q) < world.depth => Len(e \o q) = Len(q) + 1 /\ (Resolves(e \o q) => e \o q \in MainHits)
<1>1. CASE ~world.recursive
  BY <1>1 DEF MainHits, FirstLevel
<1>2. CASE world.recursive
  <2>1. PICK L : Levels(L, world.depth) /\ MainHits = UNION {L[d] : d \in 1..world.depth}
    BY <1>2, MainHitsByLevel
  <2>2. world.depth \in Nat /\ 1 \in 1..world.depth
    BY DEF World
  <2>3. \A n \in Everything : Resolves(n) => n \in MainHits
    <3>1. L[1] = FirstLevel
      BY <2>1, <2>2 DEF Levels
    <3>2. QED BY <2>1, <2>2, <3>1 DEF FirstLevel
  <2>4. ASSUME NEW q \in MainHits
        PROVE  Resolves(q) /\ q \in Seq(Label) /\ Len(q) \in 1..world.depth /\ q \in L[Len(q)]
    <3>1. PICK d \in 1..world.depth : q \in L[d]
      BY <2>1
    <3>2. Resolves(q) /\ q \in Seq(Label) /\ Len(q) = d
      BY <1>2, <2>1, <3>1, LevelsAre
    <3>3. QED BY <3>1, <3>2
  <2>5. ASSUME NEW q \in MainHits, NEW e \in Everything, Len(q) < world.depth
        PROVE  Len(e \o q) = Len(q) + 1 /\ (Resolves(e \o q) => e \o q \in MainHits)
    <3>1. q \in L[Len(q)] /\ q \in Seq(Label) /\ Len(q) \in Nat /\ Len(e \o q) = Len(q) + 1
      BY <1>2, <2>4, BelowIsName DEF Calm
    <3>2. Len(q) + 1 \in 1..world.depth /\ Len(q) + 1 # 1 /\ (Len(q) + 1) - 1 = Len(q)
      BY <2>2, <2>4, <2>5, <3>1
    <3>3. PICK k \in 1..world.depth : k = Len(q) + 1 /\ L[k] = NextLevel(L[Len(q)])
      BY <2>1, <3>2 DEF Levels
    <3>4. Resolves(e \o q) => e \o q \in NextLevel(L[Len(q)])
      <4>1. q \in L[Len(q)] \ world.wild
        BY <3>1 DEF Calm, Unhindered
      <4>2. QED BY <4>1 DEF NextLevel
    <3>5. Resolves(e \o q) => e \o q \in MainHits
      BY <2>1, <3>3, <3>4
    <3>6. QED BY <3>1, <3>5
  <2>6. QED BY <2>3, <2>4, <2>5
<1>3. QED BY <1>1, <1>2

(* Names that are all found, and everything below them, are all there are. *)
LEMMA MainHitsAreLeast ==
  ASSUME world \in World, Calm, NEW S, \A n \in Everything : Resolves(n) => n \in S,
         world.recursive => \A q \in S \cap MainHits, e \in Everything :
           Len(q) < world.depth /\ Resolves(e \o q) => e \o q \in S
  PROVE  MainHits \subseteq S
<1>1. CASE ~world.recursive
  BY <1>1 DEF MainHits, FirstLevel
<1>2. CASE world.recursive
  <2>1. PICK L : Levels(L, world.depth) /\ MainHits = UNION {L[d] : d \in 1..world.depth}
    BY <1>2, MainHitsByLevel
  <2>2. world.depth \in Nat
    BY DEF World
  <2> DEFINE T == {c \in 1..world.depth : ~(L[c] \subseteq S)}
  <2> SUFFICES ASSUME T # {} PROVE FALSE
    BY <2>1
  <2>3. PICK x \in T : \A y \in T : ~(y < x)
    <3>1. T \in SUBSET Nat
      BY <2>2
    <3> HIDE DEF T
    <3>2. QED BY <3>1, LeastExists
  <2>4. x \in 1..world.depth /\ ~(L[x] \subseteq S) /\ \A y \in 1..world.depth : y < x => L[y] \subseteq S
    BY <2>3
  <2>5. L[x] = IF x = 1 THEN FirstLevel ELSE NextLevel(L[x - 1])
    BY <2>1, <2>4 DEF Levels
  <2>6. CASE x = 1
    BY <2>4, <2>5, <2>6 DEF FirstLevel
  <2>7. CASE x # 1
    <3>1. PICK y \in 1..world.depth : x = y + 1
      <4>1. x - 1 \in 1..world.depth /\ x = (x - 1) + 1
        BY <2>2, <2>4, <2>7
      <4>2. QED BY <4>1
    <3>2. L[y] \subseteq S /\ L[x] = NextLevel(L[y]) /\ y < world.depth
      BY <2>2, <2>4, <2>5, <2>7, <3>1
    <3>3. ASSUME NEW n \in L[x] PROVE n \in S
      <4>1. PICK e \in Everything, p \in L[y] : n = e \o p /\ Resolves(n)
        BY <3>2, <3>3, NextLevelIs
      <4>2. p \in MainHits /\ p \in S /\ Len(p) = y
        BY <1>2, <2>1, <3>2, LevelsAre
      <4>3. QED BY <1>2, <3>2, <4>1, <4>2
    <3>4. QED BY <2>4, <3>3
  <2>8. QED BY <2>6, <2>7
<1>3. QED BY <1>1, <1>2

-----------------------------------------------------------------------------
(***************************************************************************)
(* Nothing is left out.  When no lookup fails and no query is capped, a    *)
(* pass that is not stopped comes to the end of its list and of all that   *)
(* is found below it, and has written all that resolves; and what a state  *)
(* file saves is whole up to the points it names, in the main pass and in  *)
(* the permutations, whose list does not depend on the run that makes it.  *)
(***************************************************************************)
FullPerms == PermNames(MainHits \cup Names(world.logNames), Everything)

Whole(hits) == ExpectedHits \subseteq hits
MainWhole(hits) == MainHits \subseteq MainNames(hits)
PermCovers(k, hits) == \A m \in 1..k : Resolves(FullPerms[m]) => FullPerms[m] \in AllNames(hits)

(* Of a permutation pass that was begun: the main hits were all there, it took *)
(* the whole list, and told what it settled.                                   *)
PermTold(i, perm, hits) ==
  /\ seeds[i] = FullPerms /\ MainWhole(hits)
  /\ perm.rootDone \in 0..Len(FullPerms) /\ PermCovers(perm.rootDone, hits)

(* What is saved of a target is true, covers its points, and is whole if done. *)
SavedWhole(t, i) ==
  /\ t.results \subseteq ExpectedHits
  /\ t.perm.started => PermTold(i, t.perm, t.results)
  /\ t.done => Whole(t.results)

DiskWhole ==
  /\ DOMAIN seeds = TargetIndex
  /\ resume # NoState => \A i \in TargetIndex : SavedWhole(resume[i], i)
  /\ file # NoState => \A i \in TargetIndex : SavedWhole(file[i], i)

KeptWhole ==
  \A i \in TargetIndex :
    /\ kept[i] \subseteq ExpectedHits
    /\ status[i] = "ok" => Whole(kept[i])
    /\ Running /\ result[i].perm.done => i < at \/ (i = at /\ phase = "status")
    /\ i < at /\ result[i].perm.done => PermTold(i, result[i].perm, kept[i])

WorkWhole ==
  phase \in AtWork =>
    /\ cur \subseteq ExpectedHits
    /\ phase = "preflight" => cur = IF Resuming THEN Saved.results ELSE {}
    /\ result[at].perm.done => PermTold(at, result[at].perm, cur)
    /\ phase \in {"permPreflight", "perm"} => world.permute /\ MainWhole(cur)
    /\ phase = "permute" /\ ~signal => result[at].done /\ MainWhole(cur)
    /\ phase = "status" /\ ~signal => Whole(cur)

(* A job is the entry at its index, or the child of a name found in a main pass. *)
Below(n) == \E e \in Everything, q \in MainHits : Len(q) < world.depth /\ n = e \o q

Rooted(job) ==
  IF job.root = -1
  THEN phase = "main" /\ world.recursive /\ Below(job.name)
  ELSE job.root \in pass.from..(pass.next - 1) /\ pass.list[job.root + 1] = job.name

(* Of a pass that is not stopped no entry handed out is lost. *)
PassRoots ==
  Scanning =>
    /\ Placed /\ pass.cap = 0
    /\ \A job \in pass.flight : Rooted(job)
    /\ \A pair \in pass.heard : Rooted(pair[1])
    /\ \A job \in pass.kids : Rooted(job) /\ job.root = -1
    /\ ~ctx => \A m \in pass.from..(pass.next - 1) :
         \/ m \in pass.marks
         \/ \E job \in pass.flight : job.root = m
         \/ \E pair \in pass.heard : pair[1].root = m
    /\ pass.deep = (phase = "main" /\ world.recursive)
    /\ phase = "perm" =>
         /\ ListTold /\ pass.list = FullPerms /\ seeds[at] = FullPerms
         /\ pass.from = IF PermSaved THEN Saved.perm.rootDone ELSE 0

(* Of a name found in a recursive pass that is not stopped the children are    *)
(* handed out or queued, unless its worker has not reported back yet.          *)
Deepened(q) == \A e \in Everything : e \o q \in pass.seen \/ \E job \in pass.kids : job.name = e \o q

PassDeep ==
  phase = "main" /\ world.recursive =>
    /\ \A job \in pass.flight : job.depth = Len(job.name)
    /\ \A pair \in pass.heard : pair[1].depth = Len(pair[1].name) /\ (pair[2] => Resolves(pair[1].name))
    /\ \A job \in pass.kids : job.depth = Len(job.name)
    /\ \A n \in pass.seen : Told(n) \/ \E job \in pass.flight : job.name = n
    /\ ~ctx => \A q \in MainNames(cur) : Len(q) < world.depth =>
         Deepened(q) \/ \E pair \in pass.heard : pair[2] /\ pair[1].name = q

AllEnded == phase \in {"commit", "exited"} /\ ~signal => \A i \in TargetIndex : status[i] = "ok"
AllWritten == phase # "killed" => \A i \in TargetIndex : Written(i) = Gathered(i)

WholeInv == DiskWhole /\ KeptWhole /\ WorkWhole /\ PassRoots /\ PassDeep /\ AllEnded /\ AllWritten

(* A permutation is none of the names it was made of, and no entry. *)
LEMMA PermNamesAreNew ==
  ASSUME world \in World, NEW names, NEW entries, NEW n \in Names(PermNames(names, entries))
  PROVE  n \notin names /\ n \notin entries
<1> DEFINE list == [k \in DOMAIN world.perms |-> world.perms[k].name]
           ks == {k \in DOMAIN list : world.perms[k].seed \in names /\ list[k] \notin names \cup entries}
<1>1. PermNames(names, entries) = Picked(list, ks)
  BY DEF PermNames
<1>2. ks \in SUBSET Nat /\ IsFiniteSet(ks)
  <2>1. PICK len \in Nat : DOMAIN world.perms = 1..len
    BY DEF World
  <2>2. IsFiniteSet(1..len) /\ 1..len \in SUBSET Nat
    BY FS_Interval
  <2>3. ks \in SUBSET (1..len)
    BY <2>1
  <2> HIDE DEF ks
  <2>4. QED BY <2>2, <2>3, FS_Subset
<1>3. \A k \in ks : list[k] \notin names /\ list[k] \notin entries
  OBVIOUS
<1> HIDE DEF list, ks
<1>4. Names(Picked(list, ks)) = {list[k] : k \in ks}
  BY <1>2, PickedAre
<1>5. n \in {list[k] : k \in ks}
  BY <1>1, <1>4, Zenon
<1>6. QED BY <1>3, <1>5

LEMMA SameExpected ==
  ASSUME UNCHANGED world
  PROVE  /\ ExpectedHits' = ExpectedHits /\ Everything' = Everything /\ FullPerms' = FullPerms
         /\ MainHits' = MainHits /\ TargetIndex' = TargetIndex /\ \A n : Resolves(n)' = Resolves(n)
<1>1. Everything' = Everything /\ \A n : Resolves(n)' = Resolves(n)
  BY DEF Everything, WholeList, Resolves
<1>2. MainHits' = MainHits
  BY DEF MainHits, FirstLevel, NextLevel, Everything, WholeList, Resolves
<1>3. FullPerms' = FullPerms
  BY <1>1, <1>2 DEF FullPerms, PermNames
<1>4. PermHits' = IF ~world.permute THEN {} ELSE {n \in Names(FullPerms) : Resolves(n)}
  BY <1>1, <1>3 DEF PermHits, FullPerms
<1>5. PermHits' = PermHits
  BY <1>4 DEF PermHits, FullPerms
<1>6. QED BY <1>1, <1>2, <1>3, <1>5 DEF ExpectedHits, TargetIndex

(* What stays the same of a target when its seeds stay, or become the whole list. *)
LEMMA SameWhole ==
  ASSUME UNCHANGED world, NEW i, seeds'[i] \in {seeds[i], FullPerms}
  PROVE  /\ \A hits : Whole(hits)' = Whole(hits) /\ MainWhole(hits)' = MainWhole(hits)
         /\ \A perm, hits : PermTold(i, perm, hits) => PermTold(i, perm, hits)'
         /\ \A t : SavedWhole(t, i) => SavedWhole(t, i)'
  BY SameExpected DEF Whole, MainWhole, PermTold, PermCovers, SavedWhole, AllNames, MainNames

(* The hits: names of the main pass, and permutations that are none of them. *)
LEMMA HitsAre ==
  ASSUME world \in World
  PROVE  /\ \A n \in MainHits : [name |-> n, perm |-> FALSE] \in ExpectedHits
         /\ \A n \in Names(FullPerms) : world.permute /\ Resolves(n) => [name |-> n, perm |-> TRUE] \in ExpectedHits
         /\ \A h \in ExpectedHits :
              \/ h = [name |-> h.name, perm |-> FALSE] /\ h.name \in MainHits
              \/ /\ h = [name |-> h.name, perm |-> TRUE] /\ world.permute
                 /\ h.name \in Names(FullPerms) /\ Resolves(h.name)
                 /\ h.name \notin MainHits /\ h.name \notin Everything
<1>1. PermHits = IF ~world.permute THEN {} ELSE {n \in Names(FullPerms) : Resolves(n)}
  BY DEF PermHits, FullPerms
<1>2. \A n \in Names(FullPerms) : n \notin MainHits /\ n \notin Everything
  BY PermNamesAreNew DEF FullPerms
<1>3. ExpectedHits = {[name |-> n, perm |-> FALSE] : n \in MainHits} \cup
                     {[name |-> n, perm |-> TRUE] : n \in PermHits}
  BY DEF ExpectedHits
<1>4. /\ \A n \in MainHits : [name |-> n, perm |-> FALSE] \in ExpectedHits
      /\ \A n \in PermHits : [name |-> n, perm |-> TRUE] \in ExpectedHits
  BY <1>3
<1>5. ASSUME NEW h \in ExpectedHits
      PROVE  \/ h = [name |-> h.name, perm |-> FALSE] /\ h.name \in MainHits
             \/ h = [name |-> h.name, perm |-> TRUE] /\ h.name \in PermHits
  <2>1. CASE \E n \in MainHits : h = [name |-> n, perm |-> FALSE]
    BY <2>1
  <2>2. CASE \E n \in PermHits : h = [name |-> n, perm |-> TRUE]
    BY <2>2
  <2>3. QED BY <1>3, <1>5, <2>1, <2>2
<1>6. \A n \in PermHits : n \in Names(FullPerms) /\ Resolves(n) /\ world.permute
  BY <1>1
<1>7. QED BY <1>1, <1>2, <1>4, <1>5, <1>6

(* Of what was found, the names of the main pass are those that are main hits. *)
LEMMA MainNamesAre ==
  ASSUME world \in World, NEW hits \in SUBSET ExpectedHits
  PROVE  MainNames(hits) = MainHits \cap AllNames(hits)
<1>1. ASSUME NEW n \in MainNames(hits) PROVE n \in MainHits /\ n \in AllNames(hits)
  <2>1. PICK h \in hits : h.name = n /\ ~h.perm
    BY DEF MainNames
  <2>2. h \in ExpectedHits
    OBVIOUS
  <2>3. h.name \in MainHits
    BY <2>1, <2>2, HitsAre
  <2>4. QED BY <2>1, <2>3 DEF AllNames
<1>2. ASSUME NEW n \in MainHits, n \in AllNames(hits) PROVE n \in MainNames(hits)
  <2>1. PICK h \in hits : h.name = n
    BY <1>2 DEF AllNames
  <2>2. h \in ExpectedHits
    OBVIOUS
  <2>3. ~h.perm
    BY <2>1, <2>2, HitsAre
  <2>4. QED BY <2>1, <2>3 DEF MainNames
<1>3. QED BY <1>1, <1>2

(* Once the main hits are all there, the permutations to try are the whole list. *)
LEMMA MainIsWhole ==
  ASSUME world \in World, NEW hits \in SUBSET ExpectedHits, MainWhole(hits)
  PROVE  MainNames(hits) = MainHits /\ PermList(hits) = FullPerms
<1>1. MainNames(hits) = MainHits
  BY MainNamesAre DEF MainWhole
<1>2. QED BY <1>1 DEF PermList, FullPerms, Everything

(* With all permutations that resolve, or none wanted, the hits are whole. *)
LEMMA AllIsWhole ==
  ASSUME world \in World, NEW hits \in SUBSET ExpectedHits, MainWhole(hits),
         world.permute => \A n \in Names(FullPerms) : Resolves(n) => n \in AllNames(hits)
  PROVE  Whole(hits)
<1> SUFFICES ASSUME NEW h \in ExpectedHits PROVE h \in hits
  BY DEF Whole
<1>1. CASE h.name \in MainHits
  <2>1. h.name \in MainNames(hits)
    BY <1>1 DEF MainWhole
  <2>2. PICK g \in hits : g.name = h.name
    BY <2>1 DEF MainNames
  <2>3. g \in ExpectedHits
    OBVIOUS
  <2>4. g = [name |-> g.name, perm |-> FALSE] /\ h = [name |-> h.name, perm |-> FALSE]
    BY <1>1, <2>2, <2>3, HitsAre
  <2>5. QED BY <2>2, <2>4
<1>2. CASE h.name \notin MainHits
  <2>1. /\ h = [name |-> h.name, perm |-> TRUE] /\ world.permute
        /\ h.name \in Names(FullPerms) /\ Resolves(h.name)
    BY <1>2, HitsAre
  <2>2. PICK g \in hits : g.name = h.name
    BY <2>1 DEF AllNames
  <2>3. g \in ExpectedHits
    OBVIOUS
  <2>4. g = [name |-> g.name, perm |-> TRUE]
    BY <1>2, <2>2, <2>3, HitsAre
  <2>5. QED BY <2>1, <2>2, <2>4
<1>3. QED BY <1>1, <1>2

LEMMA MoreIsTold ==
  ASSUME NEW some, NEW more, some \subseteq more
  PROVE  /\ AllNames(some) \subseteq AllNames(more) /\ (MainWhole(some) => MainWhole(more))
         /\ \A i, perm : PermTold(i, perm, some) => PermTold(i, perm, more)
<1>1. AllNames(some) \subseteq AllNames(more) /\ MainNames(some) \subseteq MainNames(more)
  BY DEF AllNames, MainNames
<1>2. QED BY <1>1 DEF MainWhole, PermTold, PermCovers

(***************************************************************************)
(* The steps of a scan.  First what each changes of the pass.              *)
(***************************************************************************)
LEMMA DispatchFields ==
  ASSUME Placed, Dispatch, \A job \in pass.kids : job.root = -1
  PROVE  \E job :
    /\ \/ /\ pass.next < Len(pass.list) /\ job = [name |-> pass.list[pass.next + 1], depth |-> 1, root |-> pass.next]
          /\ pass'.next = pass.next + 1 /\ pass'.kids = pass.kids
       \/ /\ pass.next = Len(pass.list) /\ job \in pass.kids
          /\ pass'.next = pass.next /\ pass'.kids = pass.kids \ {job}
    /\ pass'.list = pass.list /\ pass'.from = pass.from /\ pass'.cap = pass.cap /\ pass'.deep = pass.deep
    /\ pass'.heard = pass.heard /\ DOMAIN pass' = PassFields
    /\ IF job.name \in pass.seen
       THEN /\ pass'.seen = pass.seen /\ pass'.flight = pass.flight
            /\ pass'.marks = IF job.root = -1 THEN pass.marks ELSE pass.marks \cup {job.root}
       ELSE /\ pass'.seen = pass.seen \cup {job.name} /\ pass'.flight = pass.flight \cup {job}
            /\ pass'.marks = pass.marks
<1> DEFINE Fields(job, next, kids) ==
             /\ pass'.next = next /\ pass'.kids = kids
             /\ pass'.list = pass.list /\ pass'.from = pass.from /\ pass'.cap = pass.cap /\ pass'.deep = pass.deep
             /\ pass'.heard = pass.heard /\ DOMAIN pass' = PassFields
             /\ IF job.name \in pass.seen
                THEN /\ pass'.seen = pass.seen /\ pass'.flight = pass.flight
                     /\ pass'.marks = IF job.root = -1 THEN pass.marks ELSE pass.marks \cup {job.root}
                ELSE /\ pass'.seen = pass.seen \cup {job.name} /\ pass'.flight = pass.flight \cup {job}
                     /\ pass'.marks = pass.marks
<1>1. DOMAIN pass = PassFields
  BY DEF Placed
<1>2. ASSUME NEW job, NEW next, NEW kids, Hand(job, next, kids) PROVE Fields(job, next, kids)
  <2>1. CASE job.name \in pass.seen
    <3>1. pass' = [pass EXCEPT !.next = next, !.kids = kids,
                     !.marks = IF job.root = -1 THEN @ ELSE @ \cup {job.root}]
      BY <1>2, <2>1 DEF Hand
    <3>2. QED BY <1>1, <2>1, <3>1 DEF PassFields
  <2>2. CASE job.name \notin pass.seen
    <3>1. pass' = [pass EXCEPT !.next = next, !.kids = kids, !.begun = @ + 1,
                     !.seen = @ \cup {job.name}, !.flight = @ \cup {job}]
      BY <1>2, <2>2 DEF Hand
    <3>2. QED BY <1>1, <2>2, <3>1 DEF PassFields
  <2>3. QED BY <2>1, <2>2
<1>3. CASE pass.next < Len(pass.list)
  <2> DEFINE job == [name |-> pass.list[pass.next + 1], depth |-> 1, root |-> pass.next]
  <2>1. Hand(job, pass.next + 1, pass.kids)
    BY <1>3 DEF Dispatch, Placed
  <2>2. Fields(job, pass.next + 1, pass.kids)
    BY <1>2, <2>1
  <2>3. job = [name |-> pass.list[pass.next + 1], depth |-> 1, root |-> pass.next]
    OBVIOUS
  <2> HIDE DEF job
  <2>4. QED BY <1>3, <2>2, <2>3
<1>4. CASE ~(pass.next < Len(pass.list))
  <2>1. pass.next = Len(pass.list)
    BY <1>4 DEF Placed
  <2>2. PICK job \in pass.kids : Hand(job, pass.next, pass.kids \ {job})
    BY <1>4 DEF Dispatch
  <2>3. Fields(job, pass.next, pass.kids \ {job})
    BY <1>2, <2>2
  <2>4. QED BY <2>1, <2>2, <2>3
<1>5. QED BY <1>3, <1>4

LEMMA AnswerFields ==
  ASSUME DOMAIN pass = PassFields, NEW job, NEW o, Answer(job, o)
  PROVE  /\ pass'.list = pass.list /\ pass'.from = pass.from /\ pass'.next = pass.next /\ pass'.cap = pass.cap
         /\ pass'.deep = pass.deep /\ pass'.seen = pass.seen /\ pass'.kids = pass.kids /\ pass'.marks = pass.marks
         /\ pass'.flight = pass.flight \ {job} /\ pass'.heard = pass.heard \cup {<<job, o = "found">>}
         /\ DOMAIN pass' = PassFields
<1>1. pass' = [pass EXCEPT !.flight = @ \ {job}, !.counted = @ + 1,
                 !.failures = @ \/ o = "failed", !.heard = @ \cup {<<job, o = "found">>}]
  BY DEF Answer
<1>2. QED BY <1>1 DEF PassFields

Grows(job, isHit) == isHit /\ pass.deep /\ job.depth < world.depth /\ job.name \notin world.wild

LEMMA CompleteFields ==
  ASSUME DOMAIN pass = PassFields, NEW job, NEW isHit, Complete(job, isHit)
  PROVE  /\ pass'.list = pass.list /\ pass'.from = pass.from /\ pass'.next = pass.next /\ pass'.cap = pass.cap
         /\ pass'.deep = pass.deep /\ pass'.seen = pass.seen /\ pass'.flight = pass.flight
         /\ pass'.heard = pass.heard \ {<<job, isHit>>} /\ DOMAIN pass' = PassFields
         /\ \/ /\ pass'.marks = IF job.root = -1 THEN pass.marks ELSE pass.marks \cup {job.root}
               /\ pass'.kids = IF Grows(job, isHit) THEN pass.kids \cup Children(pass.list, job.name, job.depth + 1)
                               ELSE pass.kids
            \/ Stopping /\ pass'.marks = pass.marks /\ pass'.kids = pass.kids
<1> DEFINE kids == IF Grows(job, isHit) THEN pass.kids \cup Children(pass.list, job.name, job.depth + 1)
                   ELSE pass.kids
           marks == IF job.root = -1 THEN pass.marks ELSE pass.marks \cup {job.root}
<1>1. CASE pass' = [pass EXCEPT !.heard = @ \ {<<job, isHit>>}, !.marks = marks, !.kids = kids]
  BY <1>1 DEF PassFields
<1>2. CASE Stopping /\ pass' = [pass EXCEPT !.heard = @ \ {<<job, isHit>>}]
  BY <1>2 DEF PassFields
<1>3. QED BY <1>1, <1>2 DEF Complete, Grows

LEMMA ChildIs ==
  ASSUME NEW list, NEW parent, NEW depth, NEW job \in Children(list, parent, depth)
  PROVE  \E e \in Names(list) : job.name = e \o parent /\ job.depth = depth /\ job.root = -1
<1>1. PICK k \in DOMAIN list : job = [name |-> list[k] \o parent, depth |-> depth, root |-> -1]
  BY DEF Children
<1>2. job.name = list[k] \o parent /\ job.depth = depth /\ job.root = -1
  BY <1>1
<1>3. list[k] \in Names(list)
  BY DEF Names
<1>4. QED BY <1>2, <1>3, Zenon

LEMMA ChildExists ==
  ASSUME NEW list, NEW parent, NEW depth, NEW e \in Names(list)
  PROVE  \E job \in Children(list, parent, depth) : job.name = e \o parent
<1>1. PICK k \in DOMAIN list : e = list[k]
  BY DEF Names
<1>2. [name |-> list[k] \o parent, depth |-> depth, root |-> -1] \in Children(list, parent, depth)
  BY DEF Children
<1>3. QED BY <1>1, <1>2

LEMMA RootedStays ==
  ASSUME UNCHANGED <<world, phase>>, pass'.list = pass.list, pass'.from = pass.from, Placed,
         pass'.next \in {pass.next, pass.next + 1}, NEW job, Rooted(job)
  PROVE  Rooted(job)'
<1>1. Below(job.name)' = Below(job.name)
  BY SameExpected DEF Below
<1>2. CASE job.root = -1
  BY <1>1, <1>2 DEF Rooted
<1>3. CASE job.root # -1
  <2>1. job.root \in pass.from..(pass.next - 1) /\ pass.list[job.root + 1] = job.name
    BY <1>3 DEF Rooted
  <2>2. PICK n : n = pass'.next
    OBVIOUS
  <2>3. job.root \in pass.from..(n - 1)
    BY <2>1, <2>2 DEF Placed
  <2>4. QED BY <1>3, <2>1, <2>2, <2>3 DEF Rooted
<1>4. QED BY <1>2, <1>3

LEMMA DispatchRoots ==
  ASSUME BudgetInv, PassRoots, UNCHANGED world, Dispatch
  PROVE  PassRoots'
<1>1. UNCHANGED <<world, phase, at, resume, seeds, ctx, cur>> /\ Scanning
  BY DEF Dispatch, ctlVars, diskVars
<1>2. /\ Placed /\ pass.cap = 0
      /\ \A job \in pass.flight : Rooted(job)
      /\ \A pair \in pass.heard : Rooted(pair[1])
      /\ \A job \in pass.kids : Rooted(job) /\ job.root = -1
      /\ ~ctx => \A m \in pass.from..(pass.next - 1) :
           \/ m \in pass.marks
           \/ \E job \in pass.flight : job.root = m
           \/ \E pair \in pass.heard : pair[1].root = m
      /\ pass.deep = (phase = "main" /\ world.recursive)
      /\ phase = "perm" =>
           /\ ListTold /\ pass.list = FullPerms /\ seeds[at] = FullPerms
           /\ pass.from = IF PermSaved THEN Saved.perm.rootDone ELSE 0
  BY <1>1 DEF PassRoots
<1>3. PICK job :
    /\ \/ /\ pass.next < Len(pass.list) /\ job = [name |-> pass.list[pass.next + 1], depth |-> 1, root |-> pass.next]
          /\ pass'.next = pass.next + 1 /\ pass'.kids = pass.kids
       \/ /\ pass.next = Len(pass.list) /\ job \in pass.kids
          /\ pass'.next = pass.next /\ pass'.kids = pass.kids \ {job}
    /\ pass'.list = pass.list /\ pass'.from = pass.from /\ pass'.cap = pass.cap /\ pass'.deep = pass.deep
    /\ pass'.heard = pass.heard /\ DOMAIN pass' = PassFields
    /\ IF job.name \in pass.seen
       THEN /\ pass'.seen = pass.seen /\ pass'.flight = pass.flight
            /\ pass'.marks = IF job.root = -1 THEN pass.marks ELSE pass.marks \cup {job.root}
       ELSE /\ pass'.seen = pass.seen \cup {job.name} /\ pass'.flight = pass.flight \cup {job}
            /\ pass'.marks = pass.marks
  BY <1>2, DispatchFields
<1>4. PICK n : n = pass'.next
  OBVIOUS
<1>5. /\ n \in {pass.next, pass.next + 1} /\ n \in pass.from..Len(pass.list)
      /\ \A m \in pass.from..(n - 1) : m \in pass.from..(pass.next - 1) \/ (m = pass.next /\ n = pass.next + 1)
      /\ pass.from..(pass.next - 1) \subseteq pass.from..(n - 1)
      /\ n = pass.next + 1 => pass.next \in pass.from..(n - 1) /\ pass.next # -1
  BY <1>2, <1>3, <1>4 DEF Placed
<1>6. n = pass.next + 1 => job.root = pass.next /\ pass.list[job.root + 1] = job.name
  BY <1>2, <1>3, <1>4 DEF Placed
<1>7. n = pass.next => job \in pass.kids
  BY <1>2, <1>3, <1>4 DEF Placed
<1>8. \A j : Rooted(j) => Rooted(j)'
  BY <1>1, <1>2, <1>3, <1>4, <1>5, RootedStays
<1>9. Rooted(job)'
  <2>1. CASE n = pass.next
    BY <1>2, <1>7, <1>8, <2>1
  <2>2. CASE n = pass.next + 1
    BY <1>3, <1>4, <1>5, <1>6, <2>2 DEF Rooted
  <2>3. QED BY <1>5, <2>1, <2>2
<1>10. pass'.marks \subseteq pass.from..(n - 1)
  <2>1. pass.marks \subseteq pass.from..(n - 1)
    BY <1>2, <1>5 DEF Placed
  <2>2. job.root # -1 => job.root \in pass.from..(n - 1)
    BY <1>2, <1>5, <1>6, <1>7
  <2>3. QED BY <1>3, <2>1, <2>2
<1>11. Placed'
  BY <1>2, <1>3, <1>4, <1>5, <1>10 DEF Placed
<1>12. ASSUME ~ctx, NEW m \in pass.from..(n - 1)
       PROVE  \/ m \in pass'.marks
              \/ \E j \in pass'.flight : j.root = m
              \/ \E pair \in pass'.heard : pair[1].root = m
  <2>1. CASE m \in pass.from..(pass.next - 1)
    <3>1. pass.marks \subseteq pass'.marks /\ pass.flight \subseteq pass'.flight /\ pass'.heard = pass.heard
      BY <1>3
    <3>2. QED BY <1>2, <1>12, <2>1, <3>1
  <2>2. CASE m = pass.next /\ n = pass.next + 1
    <3>1. job.root = m /\ m # -1
      BY <1>5, <1>6, <2>2
    <3>2. QED BY <1>3, <3>1
  <2>3. QED BY <1>5, <2>1, <2>2
<1>13. phase = "perm" => ListTold'
  BY <1>1, <1>2, DispatchTells
<1>14. /\ \A j \in pass'.flight : Rooted(j)'
       /\ \A pair \in pass'.heard : Rooted(pair[1])'
       /\ \A j \in pass'.kids : Rooted(j)' /\ j.root = -1
  BY <1>2, <1>3, <1>8, <1>9
<1>15. phase = "perm" => pass'.list = FullPerms' /\ seeds'[at'] = FullPerms'
                         /\ pass'.from = IF PermSaved' THEN Saved'.perm.rootDone ELSE 0
  BY <1>1, <1>2, <1>3, SameExpected DEF PermSaved, Resuming, Saved
<1>16. QED BY <1>1, <1>2, <1>3, <1>4, <1>11, <1>12, <1>13, <1>14, <1>15 DEF PassRoots

LEMMA AnswerRoots ==
  ASSUME BudgetInv, SurviveInv, PassRoots, Quiet, UNCHANGED world, NEW job \in pass.flight,
         NEW o \in {"found", "nxdomain", "failed"}, Answer(job, o)
  PROVE  PassRoots'
<1>1. UNCHANGED <<world, phase, at, resume, seeds, ctx>> /\ Scanning
  BY DEF Answer, ctlVars, diskVars
<1>2. /\ Placed /\ pass.cap = 0
      /\ \A j \in pass.flight : Rooted(j)
      /\ \A pair \in pass.heard : Rooted(pair[1])
      /\ \A j \in pass.kids : Rooted(j) /\ j.root = -1
      /\ ~ctx => \A m \in pass.from..(pass.next - 1) :
           \/ m \in pass.marks
           \/ \E j \in pass.flight : j.root = m
           \/ \E pair \in pass.heard : pair[1].root = m
      /\ pass.deep = (phase = "main" /\ world.recursive)
      /\ phase = "perm" =>
           /\ ListTold /\ pass.list = FullPerms /\ seeds[at] = FullPerms
           /\ pass.from = IF PermSaved THEN Saved.perm.rootDone ELSE 0
  BY <1>1 DEF PassRoots
<1>3. /\ pass'.list = pass.list /\ pass'.from = pass.from /\ pass'.next = pass.next /\ pass'.cap = pass.cap
      /\ pass'.deep = pass.deep /\ pass'.seen = pass.seen /\ pass'.kids = pass.kids /\ pass'.marks = pass.marks
      /\ pass'.flight = pass.flight \ {job} /\ pass'.heard = pass.heard \cup {<<job, o = "found">>}
      /\ DOMAIN pass' = PassFields
  BY <1>2, AnswerFields DEF Placed
<1>4. <<job, o = "found">>[1] = job
  OBVIOUS
<1>5. \A j : Rooted(j) => Rooted(j)'
  BY <1>1, <1>2, <1>3, RootedStays
<1>6. Placed'
  BY <1>2, <1>3 DEF Placed
<1>7. /\ \A j \in pass'.flight : Rooted(j)'
      /\ \A pair \in pass'.heard : Rooted(pair[1])'
      /\ \A j \in pass'.kids : Rooted(j)' /\ j.root = -1
  BY <1>2, <1>3, <1>4, <1>5
<1>8. ASSUME ~ctx, NEW m \in pass.from..(pass.next - 1)
      PROVE  \/ m \in pass'.marks
             \/ \E j \in pass'.flight : j.root = m
             \/ \E pair \in pass'.heard : pair[1].root = m
  <2>1. CASE \E j \in pass.flight : j.root = m
    BY <1>3, <1>4, <2>1
  <2>2. CASE \E pair \in pass.heard : pair[1].root = m
    BY <1>3, <2>2
  <2>3. QED BY <1>2, <1>3, <1>8, <2>1, <2>2
<1>9. phase = "perm" => ListTold'
  BY <1>1, <1>2, AnswerTells
<1>10. phase = "perm" => pass'.list = FullPerms' /\ seeds'[at'] = FullPerms'
                         /\ pass'.from = IF PermSaved' THEN Saved'.perm.rootDone ELSE 0
  BY <1>1, <1>2, <1>3, SameExpected DEF PermSaved, Resuming, Saved
<1>11. QED BY <1>1, <1>2, <1>3, <1>6, <1>7, <1>8, <1>9, <1>10 DEF PassRoots

(* A name that a main pass finds is one of the main hits. *)
LEMMA FoundIsMain ==
  ASSUME BudgetInv, PointInv, PassRoots, Calm, phase = "main", NEW job, Rooted(job), Resolves(job.name)
  PROVE  job.name \in MainHits
<1>1. world \in World /\ pass.list = WholeList
  BY DEF PointInv, PassPoint, BudgetInv, RunShape
<1>2. CASE job.root = -1
  <2>1. world.recursive /\ Below(job.name)
    BY <1>2 DEF Rooted
  <2>2. PICK e \in Everything, q \in MainHits : Len(q) < world.depth /\ job.name = e \o q
    BY <2>1 DEF Below
  <2>3. QED BY <1>1, <2>1, <2>2, MainHitsAre
<1>3. CASE job.root # -1
  <2>1. job.root + 1 \in 1..Len(WholeList) /\ WholeList[job.root + 1] = job.name
    BY <1>1, <1>3 DEF Rooted, PassRoots, Placed, Scanning
  <2>2. job.name \in Everything
    BY <1>1, <2>1, EverythingIs
  <2>3. QED BY <1>1, <2>2, MainHitsAre
<1>4. QED BY <1>2, <1>3

(* A child that is queued stands below a name found above the depth limit. *)
LEMMA KidsAreRooted ==
  ASSUME BudgetInv, PointInv, PassRoots, PassDeep, Calm, phase = "main",
         NEW job, NEW isHit, <<job, isHit>> \in pass.heard, Grows(job, isHit),
         NEW kid \in Children(pass.list, job.name, job.depth + 1)
  PROVE  Rooted(kid) /\ kid.root = -1 /\ kid.depth = Len(kid.name)
<1>1. <<job, isHit>>[1] = job /\ <<job, isHit>>[2] = isHit
  OBVIOUS
<1>2. world.recursive /\ world \in World /\ pass.list = WholeList /\ Rooted(job)
  BY <1>1 DEF PassRoots, Scanning, Grows, PointInv, PassPoint, BudgetInv, RunShape
<1>3. job.depth = Len(job.name) /\ Resolves(job.name) /\ job.depth < world.depth
  BY <1>1, <1>2 DEF PassDeep, Grows
<1>4. job.name \in MainHits
  BY <1>2, <1>3, FoundIsMain
<1>5. PICK e \in Everything : kid.name = e \o job.name /\ kid.depth = job.depth + 1 /\ kid.root = -1
  BY <1>2, ChildIs DEF Everything
<1>6. Len(kid.name) = job.depth + 1
  BY <1>2, <1>3, <1>4, <1>5, MainHitsAre
<1>7. Below(kid.name)
  BY <1>3, <1>4, <1>5, Zenon DEF Below
<1>8. QED BY <1>2, <1>5, <1>6, <1>7 DEF Rooted

LEMMA CompleteRoots ==
  ASSUME BudgetInv, PointInv, ToldInv, PassRoots, PassDeep, Calm, UNCHANGED world,
         NEW pair \in pass.heard, Complete(pair[1], pair[2])
  PROVE  PassRoots'
<1> DEFINE job == pair[1]
           isHit == pair[2]
<1>1. UNCHANGED <<world, phase, at, resume, seeds, ctx>> /\ Scanning /\ <<job, isHit>> \in pass.heard
      /\ (Stopping => ctx) /\ <<job, isHit>>[1] = job
  BY DEF Complete, ctlVars, diskVars, Stopping, ToldInv, NothingFails
<1>2. /\ Placed /\ pass.cap = 0
      /\ \A j \in pass.flight : Rooted(j)
      /\ \A p \in pass.heard : Rooted(p[1])
      /\ \A j \in pass.kids : Rooted(j) /\ j.root = -1
      /\ ~ctx => \A m \in pass.from..(pass.next - 1) :
           \/ m \in pass.marks
           \/ \E j \in pass.flight : j.root = m
           \/ \E p \in pass.heard : p[1].root = m
      /\ pass.deep = (phase = "main" /\ world.recursive)
      /\ phase = "perm" =>
           /\ ListTold /\ pass.list = FullPerms /\ seeds[at] = FullPerms
           /\ pass.from = IF PermSaved THEN Saved.perm.rootDone ELSE 0
  BY <1>1 DEF PassRoots
<1>3. /\ pass'.list = pass.list /\ pass'.from = pass.from /\ pass'.next = pass.next /\ pass'.cap = pass.cap
      /\ pass'.deep = pass.deep /\ pass'.seen = pass.seen /\ pass'.flight = pass.flight
      /\ pass'.heard = pass.heard \ {<<job, isHit>>} /\ DOMAIN pass' = PassFields
      /\ \/ /\ pass'.marks = IF job.root = -1 THEN pass.marks ELSE pass.marks \cup {job.root}
            /\ pass'.kids = IF Grows(job, isHit) THEN pass.kids \cup Children(pass.list, job.name, job.depth + 1)
                            ELSE pass.kids
         \/ Stopping /\ pass'.marks = pass.marks /\ pass'.kids = pass.kids
  BY <1>2, CompleteFields DEF Placed
<1>4. Rooted(job)
  BY <1>2
<1> HIDE DEF job, isHit
<1>5. \A j : Rooted(j) => Rooted(j)'
  BY <1>1, <1>2, <1>3, RootedStays
<1>6. pass'.marks \subseteq pass.from..(pass.next - 1)
  BY <1>2, <1>3, <1>4 DEF Placed, Rooted
<1>7. Placed'
  BY <1>2, <1>3, <1>6 DEF Placed
<1>8. ASSUME NEW j \in pass'.kids PROVE Rooted(j)' /\ j.root = -1
  <2>1. CASE j \in pass.kids
    BY <1>2, <1>5, <2>1
  <2>2. CASE j \notin pass.kids
    <3>1. Grows(job, isHit) /\ j \in Children(pass.list, job.name, job.depth + 1)
      BY <1>3, <1>8, <2>2
    <3>2. phase = "main"
      BY <1>1, <1>2, <3>1 DEF Scanning, Grows, PassRoots
    <3>3. QED BY <1>1, <1>5, <3>1, <3>2, KidsAreRooted
  <2>3. QED BY <2>1, <2>2
<1>9. ASSUME ~ctx, NEW m \in pass.from..(pass.next - 1)
      PROVE  \/ m \in pass'.marks
             \/ \E j \in pass'.flight : j.root = m
             \/ \E p \in pass'.heard : p[1].root = m
  <2>1. pass'.marks = IF job.root = -1 THEN pass.marks ELSE pass.marks \cup {job.root}
    BY <1>1, <1>3, <1>9
  <2>2. m # -1
    BY <1>2, <1>9 DEF Placed
  <2>3. CASE m = job.root
    BY <2>1, <2>2, <2>3
  <2>4. CASE m # job.root
    <3>1. \A p \in pass.heard : p[1].root = m => p \in pass'.heard
      BY <1>1, <1>3, <2>4
    <3>2. m \in pass.marks => m \in pass'.marks
      BY <2>1
    <3>3. QED BY <1>2, <1>3, <1>9, <3>1, <3>2
  <2>5. QED BY <2>3, <2>4
<1>10. phase = "perm" => ListTold'
  <2>1. \A p \in pass.heard : p[1].root # -1 => pass.list[p[1].root + 1] = p[1].name
    BY <1>2 DEF Rooted
  <2>2. QED BY <1>1, <1>2, <2>1, CompleteTells DEF Placed
<1>11. phase = "perm" => pass'.list = FullPerms' /\ seeds'[at'] = FullPerms'
                         /\ pass'.from = IF PermSaved' THEN Saved'.perm.rootDone ELSE 0
  BY <1>1, <1>2, <1>3, SameExpected DEF PermSaved, Resuming, Saved
<1>12. /\ \A j \in pass'.flight : Rooted(j)'
       /\ \A p \in pass'.heard : Rooted(p[1])'
  BY <1>2, <1>3, <1>5
<1>13. QED BY <1>1, <1>2, <1>3, <1>7, <1>8, <1>9, <1>10, <1>11, <1>12 DEF PassRoots

(* A recursive pass: what is looked up and what has been found below it. *)
LEMMA DispatchDeep ==
  ASSUME BudgetInv, PointInv, PassRoots, PassDeep, Calm, UNCHANGED world, Dispatch
  PROVE  PassDeep'
<1> SUFFICES ASSUME phase' = "main", world'.recursive PROVE PassDeep'
  BY DEF PassDeep
<1>1. UNCHANGED <<world, phase, at, resume, ctx, cur>> /\ Scanning /\ phase = "main" /\ world.recursive
      /\ world \in World
  BY DEF Dispatch, ctlVars, diskVars, BudgetInv, RunShape
<1>2. /\ \A job \in pass.flight : job.depth = Len(job.name)
      /\ \A pair \in pass.heard : pair[1].depth = Len(pair[1].name) /\ (pair[2] => Resolves(pair[1].name))
      /\ \A job \in pass.kids : job.depth = Len(job.name)
      /\ \A n \in pass.seen : Told(n) \/ \E job \in pass.flight : job.name = n
      /\ ~ctx => \A q \in MainNames(cur) : Len(q) < world.depth =>
           Deepened(q) \/ \E pair \in pass.heard : pair[2] /\ pair[1].name = q
  BY <1>1 DEF PassDeep
<1>3. Placed /\ pass.list = WholeList /\ \A job \in pass.kids : job.root = -1
  BY <1>1 DEF PassRoots, PointInv, PassPoint
<1>4. PICK job :
    /\ \/ /\ pass.next < Len(pass.list) /\ job = [name |-> pass.list[pass.next + 1], depth |-> 1, root |-> pass.next]
          /\ pass'.next = pass.next + 1 /\ pass'.kids = pass.kids
       \/ /\ pass.next = Len(pass.list) /\ job \in pass.kids
          /\ pass'.next = pass.next /\ pass'.kids = pass.kids \ {job}
    /\ pass'.list = pass.list /\ pass'.from = pass.from /\ pass'.cap = pass.cap /\ pass'.deep = pass.deep
    /\ pass'.heard = pass.heard /\ DOMAIN pass' = PassFields
    /\ IF job.name \in pass.seen
       THEN /\ pass'.seen = pass.seen /\ pass'.flight = pass.flight
            /\ pass'.marks = IF job.root = -1 THEN pass.marks ELSE pass.marks \cup {job.root}
       ELSE /\ pass'.seen = pass.seen \cup {job.name} /\ pass'.flight = pass.flight \cup {job}
            /\ pass'.marks = pass.marks
  BY <1>3, DispatchFields
<1>5. job.depth = Len(job.name)
  <2>1. CASE job \in pass.kids
    BY <1>2, <2>1
  <2>2. CASE job \notin pass.kids
    <3>1. job.depth = 1 /\ job.name = WholeList[pass.next + 1] /\ pass.next < Len(WholeList)
      BY <1>3, <1>4, <2>2
    <3>2. pass.next + 1 \in 1..Len(WholeList)
      BY <1>3, <3>1 DEF Placed
    <3>3. job.name \in Everything
      BY <1>1, <3>1, <3>2, EverythingIs
    <3>4. QED BY <1>1, <3>1, <3>3 DEF Calm, Undotted
  <2>3. QED BY <2>1, <2>2
<1>6. pass.seen \subseteq pass'.seen /\ job.name \in pass'.seen /\ pass.flight \subseteq pass'.flight
      /\ \A kid \in pass.kids : kid \in pass'.kids \/ kid = job
  BY <1>4
<1>7. \A q : Deepened(q) => Deepened(q)'
  BY <1>1, <1>6, SameExpected DEF Deepened
<1>8. \A n \in pass'.seen : Told(n) \/ \E j \in pass'.flight : j.name = n
  <2>1. \A n \in pass'.seen : n \in pass.seen \/ (n = job.name /\ job \in pass'.flight)
    BY <1>4
  <2>2. QED BY <1>2, <1>6, <2>1
<1>9. \A n : Told(n)' = Told(n) /\ Resolves(n)' = Resolves(n)
  BY <1>1, SameExpected DEF Told
<1>10. /\ \A j \in pass'.flight : j.depth = Len(j.name)
       /\ \A j \in pass'.kids : j.depth = Len(j.name)
  BY <1>2, <1>4, <1>5
<1>11. MainNames(cur') = MainNames(cur) /\ pass'.heard = pass.heard
  BY <1>1, <1>4
<1>12. QED BY <1>1, <1>2, <1>7, <1>8, <1>9, <1>10, <1>11 DEF PassDeep, MainNames

LEMMA AnsweredIsTold ==
  ASSUME BudgetInv, SurviveInv, Quiet, UNCHANGED world, NEW job, NEW o \in {"found", "nxdomain", "failed"},
         Answer(job, o)
  PROVE  Told(job.name)'
<1>1. phase \in AtWork
  BY DEF Answer, Scanning, AtWork
<1>2. CASE o = "found"
  <2> DEFINE hit == [name |-> job.name, perm |-> phase = "perm"]
  <2>1. Emit(hit) /\ hit.name = job.name
    BY <1>2 DEF Answer
  <2> HIDE DEF hit
  <2>2. job.name \in AllNames(cur')
    BY <1>1, <2>1, HitIsTold
  <2>3. QED BY <2>2 DEF Told, AllNames
<1>3. CASE o = "nxdomain"
  BY <1>3 DEF Answer, Told, Resolves
<1>4. QED BY <1>2, <1>3 DEF Answer, Quiet

LEMMA AnswerDeep ==
  ASSUME BudgetInv, SurviveInv, PassRoots, PassDeep, Quiet, UNCHANGED world, NEW job \in pass.flight,
         NEW o \in {"found", "nxdomain", "failed"}, Answer(job, o)
  PROVE  PassDeep'
<1> SUFFICES ASSUME phase' = "main", world'.recursive PROVE PassDeep'
  BY DEF PassDeep
<1>1. UNCHANGED <<world, phase, at, resume, ctx>> /\ Scanning /\ phase = "main" /\ world.recursive
      /\ cur \subseteq cur' /\ (o = "found" => Resolves(job.name))
  BY DEF Answer, ctlVars, diskVars, Emit
<1>2. /\ \A j \in pass.flight : j.depth = Len(j.name)
      /\ \A pair \in pass.heard : pair[1].depth = Len(pair[1].name) /\ (pair[2] => Resolves(pair[1].name))
      /\ \A j \in pass.kids : j.depth = Len(j.name)
      /\ \A n \in pass.seen : Told(n) \/ \E j \in pass.flight : j.name = n
      /\ ~ctx => \A q \in MainNames(cur) : Len(q) < world.depth =>
           Deepened(q) \/ \E pair \in pass.heard : pair[2] /\ pair[1].name = q
  BY <1>1 DEF PassDeep
<1>3. /\ pass'.seen = pass.seen /\ pass'.kids = pass.kids
      /\ pass'.flight = pass.flight \ {job} /\ pass'.heard = pass.heard \cup {<<job, o = "found">>}
  BY <1>1, AnswerFields DEF PassRoots, Placed
<1>4. <<job, o = "found">>[1] = job /\ <<job, o = "found">>[2] = (o = "found")
  OBVIOUS
<1>5. \A q : Deepened(q)' = Deepened(q)
  BY <1>1, <1>3, SameExpected DEF Deepened
<1>6. Told(job.name)' /\ \A n : (Told(n) => Told(n)') /\ Resolves(n)' = Resolves(n)
  BY <1>1, AnsweredIsTold, SameTold, SameExpected
<1>7. \A n \in pass'.seen : Told(n)' \/ \E j \in pass'.flight : j.name = n
  <2> SUFFICES ASSUME NEW n \in pass'.seen PROVE Told(n)' \/ \E j \in pass'.flight : j.name = n
    OBVIOUS
  <2>1. CASE Told(n)
    BY <1>6, <2>1
  <2>2. CASE \E j \in pass.flight : j.name = n
    BY <1>3, <1>6, <2>2
  <2>3. QED BY <1>2, <1>3, <2>1, <2>2
<1>8. \A q \in MainNames(cur') : q \in MainNames(cur) \/ (o = "found" /\ q = job.name)
  <2>1. CASE cur' = cur
    BY <2>1
  <2>2. CASE cur' # cur
    <3>1. o = "found" /\ cur' = cur \cup {[name |-> job.name, perm |-> phase = "perm"]}
      BY <2>2 DEF Answer, Emit
    <3>2. QED BY <3>1 DEF MainNames
  <2>3. QED BY <2>1, <2>2
<1>9. ASSUME ~ctx, NEW q \in MainNames(cur'), Len(q) < world.depth
      PROVE  Deepened(q) \/ \E pair \in pass'.heard : pair[2] /\ pair[1].name = q
  <2>1. CASE q \in MainNames(cur)
    BY <1>2, <1>3, <1>9, <2>1
  <2>2. CASE o = "found" /\ q = job.name
    <3>1. <<job, o = "found">> \in pass'.heard
      BY <1>3
    <3>2. QED BY <1>4, <2>2, <3>1
  <2>3. QED BY <1>8, <2>1, <2>2
<1>10. /\ \A j \in pass'.flight : j.depth = Len(j.name)
       /\ \A pair \in pass'.heard : pair[1].depth = Len(pair[1].name) /\ (pair[2] => Resolves(pair[1].name))
       /\ \A j \in pass'.kids : j.depth = Len(j.name)
  <2> SUFFICES ASSUME NEW pair \in pass'.heard
               PROVE  pair[1].depth = Len(pair[1].name) /\ (pair[2] => Resolves(pair[1].name))
    BY <1>2, <1>3
  <2>1. CASE pair \in pass.heard
    BY <1>2, <2>1
  <2>2. CASE pair = <<job, o = "found">>
    <3>1. pair[1] = job /\ (pair[2] => o = "found")
      BY <1>4, <2>2
    <3>2. QED BY <1>1, <1>2, <3>1
  <2>3. QED BY <1>3, <2>1, <2>2
<1>11. MainNames(cur)' = MainNames(cur')
  BY DEF MainNames
<1>12. QED BY <1>1, <1>5, <1>6, <1>7, <1>9, <1>10, <1>11 DEF PassDeep

LEMMA CompleteDeep ==
  ASSUME BudgetInv, PointInv, ToldInv, PassRoots, PassDeep, Calm, UNCHANGED world,
         NEW pair \in pass.heard, Complete(pair[1], pair[2])
  PROVE  PassDeep'
<1> SUFFICES ASSUME phase' = "main", world'.recursive PROVE PassDeep'
  BY DEF PassDeep
<1> DEFINE job == pair[1]
           isHit == pair[2]
<1>1. UNCHANGED <<world, phase, at, resume, ctx, cur>> /\ Scanning /\ phase = "main" /\ world.recursive
      /\ <<job, isHit>> \in pass.heard /\ (Stopping => ctx) /\ <<job, isHit>>[1] = job /\ <<job, isHit>>[2] = isHit
  BY DEF Complete, ctlVars, diskVars, Stopping, ToldInv, NothingFails
<1>2. /\ \A j \in pass.flight : j.depth = Len(j.name)
      /\ \A p \in pass.heard : p[1].depth = Len(p[1].name) /\ (p[2] => Resolves(p[1].name))
      /\ \A j \in pass.kids : j.depth = Len(j.name)
      /\ \A n \in pass.seen : Told(n) \/ \E j \in pass.flight : j.name = n
      /\ ~ctx => \A q \in MainNames(cur) : Len(q) < world.depth =>
           Deepened(q) \/ \E p \in pass.heard : p[2] /\ p[1].name = q
  BY <1>1 DEF PassDeep
<1>3. pass.list = WholeList /\ pass.deep /\ DOMAIN pass = PassFields
  BY <1>1 DEF PassRoots, PointInv, PassPoint, Placed
<1>4. /\ pass'.seen = pass.seen /\ pass'.flight = pass.flight /\ pass'.heard = pass.heard \ {<<job, isHit>>}
      /\ \/ pass'.kids = IF Grows(job, isHit) THEN pass.kids \cup Children(pass.list, job.name, job.depth + 1)
                         ELSE pass.kids
         \/ Stopping /\ pass'.kids = pass.kids
  BY <1>3, CompleteFields
<1> HIDE DEF job, isHit
<1>5. ASSUME NEW j \in pass'.kids PROVE j.depth = Len(j.name)
  <2>1. CASE j \in pass.kids
    BY <1>2, <2>1
  <2>2. CASE j \notin pass.kids
    <3>1. Grows(job, isHit) /\ j \in Children(pass.list, job.name, job.depth + 1)
      BY <1>4, <1>5, <2>2
    <3>2. QED BY <1>1, <3>1, KidsAreRooted
  <2>3. QED BY <2>1, <2>2
<1>6. \A q : Deepened(q) => Deepened(q)'
  <2>1. pass.kids \subseteq pass'.kids
    BY <1>4
  <2>2. QED BY <1>1, <1>4, <2>1, SameExpected DEF Deepened
<1>7. ASSUME ~ctx, NEW q \in MainNames(cur), Len(q) < world.depth
      PROVE  Deepened(q)' \/ \E p \in pass'.heard : p[2] /\ p[1].name = q
  <2>1. CASE isHit /\ job.name = q
    <3>1. Grows(job, isHit)
      BY <1>1, <1>2, <1>3, <1>7, <2>1 DEF Grows, Calm, Unhindered
    <3>2. Children(pass.list, job.name, job.depth + 1) \subseteq pass'.kids
      BY <1>1, <1>4, <1>7, <3>1
    <3>3. \A e \in Everything : \E kid \in pass'.kids : kid.name = e \o q
      BY <1>3, <2>1, <3>2, ChildExists DEF Everything
    <3>4. QED BY <1>1, <3>3, SameExpected DEF Deepened
  <2>2. CASE ~(isHit /\ job.name = q)
    <3>1. \A p \in pass.heard : p[2] /\ p[1].name = q => p \in pass'.heard
      BY <1>1, <1>4, <2>2
    <3>2. QED BY <1>2, <1>6, <1>7, <3>1
  <2>3. QED BY <2>1, <2>2
<1>8. \A n : Told(n)' = Told(n) /\ Resolves(n)' = Resolves(n)
  BY <1>1, SameExpected DEF Told
<1>9. /\ \A j \in pass'.flight : j.depth = Len(j.name)
      /\ \A p \in pass'.heard : p[1].depth = Len(p[1].name) /\ (p[2] => Resolves(p[1].name))
      /\ \A n \in pass'.seen : Told(n) \/ \E j \in pass'.flight : j.name = n
  BY <1>2, <1>4
<1>10. MainNames(cur)' = MainNames(cur)
  BY <1>1 DEF MainNames
<1>11. QED BY <1>1, <1>5, <1>7, <1>8, <1>9, <1>10 DEF PassDeep

(***************************************************************************)
(* The steps of the target loop, and of all runs.                          *)
(***************************************************************************)
LEMMA CalmIs ==
  ASSUME Calm
  PROVE  /\ Quiet /\ ~world.flaky /\ ~world.logsFail /\ world.maxQueries = 0
         /\ \A processed : ~Spent(processed)
  BY DEF Calm, Unhindered, Quiet, Spent

LEMMA NotYetPermuted ==
  ASSUME BudgetInv, WholeInv, phase \in AtWork \ {"status"}
  PROVE  ~result[at].perm.done
<1>1. at \in TargetIndex /\ Running /\ ~(at < at)
  BY TargetOrder DEF BudgetInv, RunShape, Running, AtWork
<1>2. QED BY <1>1 DEF WholeInv, KeptWhole

(* What a pass of permutations works on. *)
LEMMA FullPermsAre ==
  ASSUME world \in World, NEW hits \in SUBSET ExpectedHits, MainWhole(hits)
  PROVE  Len(FullPerms) \in Nat /\ DOMAIN FullPerms = 1..Len(FullPerms)
<1>1. PermList(hits) = FullPerms
  BY MainIsWhole
<1>2. QED BY <1>1, PermListHasLength

LEMMA PassHits ==
  ASSUME BudgetInv, PointInv, WholeInv, Calm, Scanning, NEW job \in pass.flight, Resolves(job.name)
  PROVE  [name |-> job.name, perm |-> phase = "perm"] \in ExpectedHits
<1>1. Placed /\ Rooted(job) /\ phase \in AtWork /\ world \in World /\ PassRoots
  BY DEF WholeInv, PassRoots, Scanning, AtWork, BudgetInv, RunShape
<1>2. CASE phase = "main"
  <2>1. job.name \in MainHits
    BY <1>1, <1>2, FoundIsMain
  <2>2. QED BY <1>1, <1>2, <2>1, HitsAre
<1>3. CASE phase = "perm"
  <2>1. pass.list = FullPerms /\ world.permute /\ cur \subseteq ExpectedHits /\ MainWhole(cur)
    BY <1>1, <1>3 DEF PassRoots, Scanning, WholeInv, WorkWhole
  <2>2. job.root \in pass.from..(pass.next - 1) /\ FullPerms[job.root + 1] = job.name
    BY <1>1, <1>3, <2>1 DEF Rooted
  <2>3. job.root + 1 \in 1..Len(FullPerms)
    BY <1>1, <2>1, <2>2 DEF Placed
  <2>4. job.name \in Names(FullPerms)
    BY <1>1, <2>1, <2>2, <2>3, FullPermsAre DEF Names
  <2>5. QED BY <1>1, <1>3, <2>1, <2>4, HitsAre
<1>4. QED BY <1>2, <1>3 DEF Scanning

(* A hit is written as it is gathered. *)
LEMMA HitIsWritten ==
  ASSUME BudgetInv, WholeInv, UNCHANGED <<world, at, phase, kept>>, phase \in AtWork,
         UNCHANGED <<cur, out>> \/ \E hit : Emit(hit)
  PROVE  AllWritten'
<1>1. at \in TargetIndex /\ ~(at < at) /\ TargetIndex' = TargetIndex /\ phase # "killed"
  BY TargetOrder DEF BudgetInv, RunShape, TargetIndex, AtWork
<1>2. \A i \in TargetIndex : Written(i) = Gathered(i)
  BY <1>1 DEF WholeInv, AllWritten
<1>3. CASE UNCHANGED <<cur, out>>
  BY <1>1, <1>2, <1>3 DEF AllWritten, Written, Gathered
<1>4. ASSUME NEW hit, cur' = cur \cup {hit}, out' = out \cup {<<at, hit>>}, NEW i \in TargetIndex
      PROVE  (Written(i) = Gathered(i))'
  <2>1. <<at, hit>>[1] = at /\ <<at, hit>>[2] = hit
    OBVIOUS
  <2>2. CASE i = at
    <3>1. Written(i)' = Written(i) \cup {hit}
      BY <1>4, <2>1, <2>2 DEF Written
    <3>2. Gathered(i)' = Gathered(i) \cup {hit}
      BY <1>1, <1>4, <2>2 DEF Gathered
    <3>3. QED BY <1>2, <3>1, <3>2
  <2>3. CASE i # at
    <3>1. Written(i)' = Written(i)
      BY <1>4, <2>1, <2>3 DEF Written
    <3>2. Gathered(i)' = Gathered(i)
      BY <1>4, <2>3 DEF Gathered
    <3>3. QED BY <1>2, <3>1, <3>2
  <2>4. QED BY <2>2, <2>3
<1>5. QED BY <1>1, <1>3, <1>4 DEF Emit, AllWritten

(* The target's own work leaves what is kept and saved as it was. *)
LEMMA WorkRests ==
  ASSUME BudgetInv, WholeInv, UNCHANGED <<world, at, status, kept, resume, file, signal>>,
         phase \in AtWork, phase' \in AtWork, DOMAIN seeds' = TargetIndex,
         \A i \in TargetIndex : seeds'[i] \in {seeds[i], FullPerms},
         \A i \in TargetIndex : i # at => result'[i] = result[i],
         result'[at].perm.done => phase' = "status"
  PROVE  DiskWhole' /\ KeptWhole' /\ AllEnded'
<1>1. /\ ExpectedHits' = ExpectedHits /\ TargetIndex' = TargetIndex /\ world \in World
      /\ at \in TargetIndex /\ Running
  BY SameExpected DEF BudgetInv, RunShape, Running, AtWork
<1>2. \A i \in TargetIndex : /\ \A hits : Whole(hits)' = Whole(hits)
                             /\ \A perm, hits : PermTold(i, perm, hits) => PermTold(i, perm, hits)'
                             /\ \A t : SavedWhole(t, i) => SavedWhole(t, i)'
  BY SameWhole
<1>3. DiskWhole'
  <2>1. resume # NoState => \A i \in TargetIndex : SavedWhole(resume[i], i)'
    BY <1>2 DEF WholeInv, DiskWhole, SavedWhole
  <2>2. file # NoState => \A i \in TargetIndex : SavedWhole(file[i], i)'
    BY <1>2 DEF WholeInv, DiskWhole, SavedWhole
  <2>3. QED BY <1>1, <2>1, <2>2 DEF DiskWhole
<1>4. KeptWhole'
  <2>1. ASSUME NEW i \in TargetIndex
        PROVE  /\ kept[i] \subseteq ExpectedHits
               /\ status[i] = "ok" => Whole(kept[i])
               /\ result'[i].perm.done => i < at \/ (i = at /\ phase' = "status")
               /\ i < at /\ result'[i].perm.done => PermTold(i, result'[i].perm, kept[i])
    <3>1. i < at => i # at
      BY <1>1, TargetOrder
    <3>2. QED BY <1>1, <3>1 DEF WholeInv, KeptWhole
  <2>2. QED BY <1>1, <1>2, <2>1 DEF KeptWhole
<1>5. AllEnded'
  BY DEF AllEnded, AtWork
<1>6. QED BY <1>3, <1>4, <1>5

LEMMA ScanStaysWhole ==
  ASSUME BudgetInv, SurviveInv, PointInv, ToldInv, WholeInv, Calm, UNCHANGED world, Scan
  PROVE  WholeInv'
<1>1. /\ UNCHANGED <<at, status, kept, resume, file, result, phase, signal, seeds>>
      /\ Scanning /\ phase \in AtWork /\ Quiet
  BY CalmIs DEF Scan, Dispatch, Answer, Complete, Trip, ctlVars, diskVars, endVars, Scanning, AtWork
<1>2. UNCHANGED <<cur, out>> \/ \E hit \in ExpectedHits : Emit(hit)
  <2>1. ASSUME NEW job \in pass.flight, NEW o, Answer(job, o), o = "found"
        PROVE  \E hit \in ExpectedHits : Emit(hit)
    <3>1. Resolves(job.name) /\ Emit([name |-> job.name, perm |-> phase = "perm"])
      BY <2>1 DEF Answer
    <3>2. QED BY <1>1, <3>1, PassHits
  <2>2. QED BY <2>1 DEF Scan, Dispatch, Answer, Complete, Trip
<1>3. AllWritten'
  BY <1>1, <1>2, HitIsWritten
<1>4. cur \subseteq cur' /\ cur' \subseteq ExpectedHits
  BY <1>1, <1>2 DEF Emit, WholeInv, WorkWhole
<1>5. ~result[at].perm.done
  BY <1>1, NotYetPermuted DEF Scanning
<1>6. WorkWhole'
  <2>1. ExpectedHits' = ExpectedHits /\ MainWhole(cur') = MainWhole(cur)' /\ (MainWhole(cur) => MainWhole(cur'))
    <3>1. ExpectedHits' = ExpectedHits /\ MainHits' = MainHits
      BY SameExpected
    <3>2. QED BY <1>4, <3>1, MoreIsTold DEF MainWhole, MainNames
  <2>2. QED BY <1>1, <1>4, <1>5, <2>1 DEF WholeInv, WorkWhole, Scanning
<1>7. DiskWhole' /\ KeptWhole' /\ AllEnded'
  <2>1. DOMAIN seeds' = TargetIndex
    BY <1>1 DEF WholeInv, DiskWhole
  <2>2. QED BY <1>1, <1>5, <2>1, WorkRests
<1>8. PassRoots' /\ PassDeep'
  <2>1. PassRoots /\ PassDeep /\ ~Trip
    BY TripTells DEF WholeInv
  <2>2. CASE Dispatch
    BY <1>1, <2>1, <2>2, DispatchRoots, DispatchDeep
  <2>3. ASSUME NEW job \in pass.flight, NEW o \in {"found", "nxdomain", "failed"}, Answer(job, o)
        PROVE  PassRoots' /\ PassDeep'
    BY <1>1, <2>1, <2>3, AnswerRoots, AnswerDeep
  <2>4. ASSUME NEW pair \in pass.heard, Complete(pair[1], pair[2])
        PROVE  PassRoots' /\ PassDeep'
    BY <1>1, <2>1, <2>4, CompleteRoots, CompleteDeep
  <2>5. QED BY <2>1, <2>2, <2>3, <2>4 DEF Scan
<1>9. QED BY <1>3, <1>6, <1>7, <1>8 DEF WholeInv

(* The target's own steps between its passes. *)
LEMMA ResultStaysWhole ==
  ASSUME BudgetInv, WholeInv, UNCHANGED <<world, at, status, kept, cur, out, resume, file, signal>>,
         DOMAIN seeds' = TargetIndex, \A i \in TargetIndex : seeds'[i] \in {seeds[i], FullPerms},
         phase \in AtWork, phase' \in AtWork \ {"preflight"}, PassRoots', PassDeep',
         NEW r, result' = [result EXCEPT ![at] = r] \/ (UNCHANGED result /\ r = result[at]),
         r.perm.done => phase' = "status" /\ PermTold(at, r.perm, cur),
         phase' \in {"permPreflight", "perm"} => world.permute /\ MainWhole(cur),
         phase' = "permute" /\ ~signal => r.done /\ MainWhole(cur),
         phase' = "status" /\ ~signal => Whole(cur)
  PROVE  WholeInv'
<1>1. at \in TargetIndex /\ DOMAIN result = TargetIndex
  BY DEF BudgetInv, RunShape
<1>2. \A i \in TargetIndex : result'[i] = IF i = at THEN r ELSE result[i]
  BY <1>1
<1>3. DiskWhole' /\ KeptWhole' /\ AllEnded'
  BY <1>1, <1>2, WorkRests
<1>4. /\ MainWhole(cur)' = MainWhole(cur) /\ Whole(cur)' = Whole(cur) /\ ExpectedHits' = ExpectedHits
      /\ PermTold(at, r.perm, cur) => PermTold(at, r.perm, cur)'
  <2>1. /\ \A hits : Whole(hits)' = Whole(hits) /\ MainWhole(hits)' = MainWhole(hits)
        /\ \A perm, hits : PermTold(at, perm, hits) => PermTold(at, perm, hits)'
    BY <1>1, SameWhole
  <2>2. QED BY <2>1, SameExpected
<1>5. WorkWhole'
  <2>1. result'[at] = r /\ cur' \subseteq ExpectedHits
    BY <1>1, <1>2 DEF WholeInv, WorkWhole
  <2>2. QED BY <1>4, <2>1 DEF WorkWhole
<1>6. AllWritten'
  <2>1. TargetIndex' = TargetIndex
    BY SameExpected
  <2>2. QED BY <2>1 DEF WholeInv, AllWritten, Written, Gathered, AtWork
<1>7. QED BY <1>3, <1>5, <1>6 DEF WholeInv

LEMMA StopStaysWhole ==
  ASSUME BudgetInv, SurviveInv, WholeInv,
         UNCHANGED <<world, at, status, kept, cur, out, resume, file, signal>>,
         phase \in {"preflight", "permPreflight"}, NEW next \in {"permute", "status"}, Stop(FALSE, next)
  PROVE  WholeInv'
<1> DEFINE r == [result[at] EXCEPT !.failed = @ \/ FALSE]
<1>1. phase' = next /\ UNCHANGED seeds /\ result' = [result EXCEPT ![at] = r] /\ signal
  BY DEF Stop, SurviveInv, Concluded
<1>2. DOMAIN result[at] = ResultFields /\ phase \in AtWork /\ ~result[at].perm.done
  BY NotYetPermuted DEF BudgetInv, RunShape, AtWork
<1>3. r.perm = result[at].perm
  BY <1>2 DEF ResultFields
<1> HIDE DEF r
<1>4. phase' \in AtWork \ {"preflight"} /\ PassRoots' /\ PassDeep' /\ phase' \notin {"permPreflight", "perm"}
  BY <1>1 DEF AtWork, PassRoots, PassDeep, Scanning
<1>5. DOMAIN seeds' = TargetIndex
  BY <1>1 DEF WholeInv, DiskWhole
<1>6. QED BY <1>1, <1>2, <1>3, <1>4, <1>5, ResultStaysWhole

(* A pass begins with the children of what the target has found before. *)
LEMMA NewPassKids ==
  ASSUME NEW list, NEW from, NEW parents, NEW deep, NEW cap,
         pass' = NewPass(list, from, parents, deep, cap)
  PROVE  /\ pass'.deep = deep
         /\ pass'.kids = IF deep
                         THEN UNION {Children(list, p, Len(p) + 1) : p \in {q \in parents : Expandable(q)}}
                         ELSE {}
  BY DEF NewPass

LEMMA PreflightMain ==
  ASSUME BudgetInv, PointInv, WholeInv, Calm, Preflight, phase' = "main"
  PROVE  \E from \in 0..Len(WholeList) :
           pass' = NewPass(WholeList, from, MainNames(cur), world.recursive, 0)
<1>1. phase = "preflight" /\ phase \in AtWork /\ at \in TargetIndex
  BY DEF Preflight, AtWork, BudgetInv, RunShape
<1>2. Candidates(logs[at]) = WholeList
  BY <1>1 DEF PointInv, LogsKnown, Candidates, WholeList
<1>3. cur = IF Resuming THEN Saved.results ELSE {}
  BY <1>1 DEF WholeInv, WorkWhole
<1>4. MainNames({}) = {}
  BY DEF MainNames
<1>5. Resuming => Saved.rootDone \in 0..Len(WholeList)
  BY <1>1 DEF PointInv, PointsIn, Positions, Resuming, Saved
<1>6. 0 \in 0..Len(WholeList)
  BY WholeListHasLength DEF BudgetInv, RunShape
<1>7. QED BY <1>2, <1>3, <1>4, <1>5, <1>6, CalmIs DEF Preflight, Stop

LEMMA PreflightStaysWhole ==
  ASSUME BudgetInv, SurviveInv, PointInv, WholeInv, Calm, UNCHANGED world, Preflight
  PROVE  WholeInv'
<1>1. /\ UNCHANGED <<at, status, kept, cur, out, resume, file, signal>> /\ phase = "preflight"
      /\ phase \in AtWork /\ at \in TargetIndex /\ world \in World /\ ~world.flaky /\ cur \subseteq ExpectedHits
  BY CalmIs DEF Preflight, ctlVars, diskVars, outputVars, AtWork, BudgetInv, RunShape, WholeInv, WorkWhole
<1>2. CASE Stop(FALSE, "permute")
  BY <1>1, <1>2, StopStaysWhole
<1>3. CASE ~Stop(FALSE, "permute")
  <2>1. UNCHANGED <<result, seeds>> /\ phase' = "main" /\ phase' \in AtWork \ {"preflight"}
    BY <1>1, <1>3 DEF Preflight, AtWork
  <2>2. PICK from \in 0..Len(WholeList) :
          pass' = NewPass(WholeList, from, MainNames(cur), world.recursive, 0)
    BY <2>1, PreflightMain
  <2>3. /\ pass'.list = WholeList /\ pass'.from = from /\ pass'.next = from /\ pass'.cap = 0
        /\ pass'.marks = {} /\ pass'.flight = {} /\ pass'.heard = {} /\ pass'.seen = {}
        /\ DOMAIN pass' = PassFields /\ pass'.deep = world.recursive
        /\ pass'.kids = IF world.recursive
                        THEN UNION {Children(WholeList, p, Len(p) + 1) : p \in {q \in MainNames(cur) : Expandable(q)}}
                        ELSE {}
    <3>1. Start(from, WholeList) = from
      BY <1>1, WholeListHasLength DEF Start
    <3>2. /\ pass'.list = WholeList /\ pass'.from = from /\ pass'.next = from
          /\ pass'.marks = {} /\ pass'.flight = {} /\ pass'.heard = {} /\ pass'.seen = {}
      BY <2>2, <3>1, NewPassFields
    <3>3. DOMAIN pass' = PassFields /\ pass'.cap = 0
      BY <2>2, NewPassCounts
    <3> DEFINE parents == MainNames(cur)
    <3>4. pass' = NewPass(WholeList, from, parents, world.recursive, 0)
      BY <2>2
    <3> HIDE DEF parents
    <3>5. /\ pass'.deep = world.recursive
          /\ pass'.kids = IF world.recursive
                          THEN UNION {Children(WholeList, p, Len(p) + 1) : p \in {q \in parents : Expandable(q)}}
                          ELSE {}
      BY <3>4, NewPassKids, Zenon
    <3>6. QED BY <3>2, <3>3, <3>5 DEF parents
  <2>4. Len(WholeList) \in Nat /\ from \in Nat /\ from <= Len(WholeList) /\ \A m : m \notin from..(from - 1)
    BY <1>1, WholeListHasLength
  <2>5. Placed'
    BY <2>3, <2>4 DEF Placed
  <2>6. \A q \in MainNames(cur) : q \in MainHits
    BY <1>1, MainNamesAre
  <2>7. ASSUME NEW job \in pass'.kids
        PROVE  world.recursive /\ Below(job.name) /\ job.root = -1 /\ job.depth = Len(job.name)
    <3>1. world.recursive
      BY <2>3, <2>7
    <3>2. PICK q \in MainNames(cur) : Expandable(q) /\ job \in Children(WholeList, q, Len(q) + 1)
      BY <2>3, <2>7, <3>1
    <3>3. PICK e \in Everything : job.name = e \o q /\ job.depth = Len(q) + 1 /\ job.root = -1
      BY <3>2, ChildIs DEF Everything
    <3>4. q \in MainHits /\ Len(q) < world.depth
      BY <1>1, <2>6, <3>1, <3>2, MainHitsAre DEF Expandable, World
    <3>5. Len(job.name) = Len(q) + 1
      BY <1>1, <3>1, <3>3, <3>4, MainHitsAre
    <3>6. Below(job.name)
      BY <3>3, <3>4, Zenon DEF Below
    <3>7. QED BY <3>1, <3>3, <3>5, <3>6
  <2>8. /\ ExpectedHits' = ExpectedHits /\ Everything' = Everything
        /\ \A n : Below(n)' = Below(n)
    BY <1>1, SameExpected DEF Below
  <2>9. \A job \in pass'.kids : Rooted(job)' /\ job.root = -1
    BY <2>1, <2>7, <2>8 DEF Rooted
  <2>10. PassRoots'
    <3>1. (phase' = "main" /\ world.recursive) = world.recursive
      BY <1>1, <2>1 DEF World
    <3>2. QED BY <2>1, <2>3, <2>4, <2>5, <2>9, <3>1 DEF PassRoots
  <2>11. ASSUME world.recursive, NEW q \in MainNames(cur), Len(q) < world.depth PROVE Deepened(q)'
    <3>1. Expandable(q)
      BY <1>1, <2>6, <2>11, MainHitsAre DEF Expandable, World
    <3>2. ASSUME NEW e \in Everything PROVE \E job \in pass'.kids : job.name = e \o q
      <4>1. e \in Names(WholeList)
        BY DEF Everything
      <4>2. PICK job \in Children(WholeList, q, Len(q) + 1) : job.name = e \o q
        BY <4>1, ChildExists
      <4>3. job \in pass'.kids
        BY <2>3, <2>11, <3>1
      <4>4. QED BY <4>2, <4>3
    <3>3. QED BY <2>8, <3>2 DEF Deepened
  <2>12. PassDeep'
    <3>1. MainNames(cur)' = MainNames(cur)
      BY <1>1 DEF MainNames
    <3>2. QED BY <2>3, <2>7, <2>11, <3>1 DEF PassDeep
  <2>13. ~result[at].perm.done /\ DOMAIN seeds' = TargetIndex
    BY <1>1, <2>1, NotYetPermuted DEF WholeInv, DiskWhole
  <2>14. QED BY <1>1, <2>1, <2>10, <2>12, <2>13, ResultStaysWhole
<1>4. QED BY <1>2, <1>3

(* A pass that is not stopped settles its whole list, and all that is queued. *)
LEMMA PassIsOver ==
  ASSUME BudgetInv, SurviveInv, ToldInv, PassRoots, Scanning, Ended, ~signal
  PROVE  Watermark = Len(pass.list) /\ pass.flight = {} /\ pass.heard = {} /\ pass.kids = {} /\ ~ctx
<1>1. Placed /\ ~Stopping /\ ~ctx /\ pass.cap = 0
  BY DEF SurviveInv, Concluded, Stopping, ToldInv, NothingFails, PassRoots
<1>2. pass.flight = {} /\ pass.heard = {} /\ pass.next = Len(pass.list) /\ pass.kids = {}
  BY <1>1 DEF Ended, Drained, CapReached
<1>3. \A m \in pass.from..(Len(pass.list) - 1) : m \in pass.marks
  BY <1>1, <1>2 DEF PassRoots
<1>4. Watermark \in pass.from..Len(pass.list) /\ Watermark \notin pass.marks
  BY <1>1, WatermarkIsLeast DEF Placed
<1>5. Watermark = Len(pass.list)
  BY <1>1, <1>3, <1>4 DEF Placed
<1>6. QED BY <1>1, <1>2, <1>5

(* So a main pass that is not stopped has found all main hits: every entry was *)
(* looked up, and below every name it found every child.                       *)
LEMMA MainIsOver ==
  ASSUME BudgetInv, SurviveInv, PointInv, ToldInv, WholeInv, Calm, phase = "main", Ended, ~signal
  PROVE  MainWhole(cur)
<1>1. /\ Scanning /\ phase \in AtWork /\ world \in World /\ pass.list = WholeList /\ PassRoots /\ PassDeep
      /\ cur \subseteq ExpectedHits
  BY DEF Scanning, AtWork, BudgetInv, RunShape, PointInv, PassPoint, WholeInv, WorkWhole
<1>2. Watermark = Len(pass.list) /\ pass.flight = {} /\ pass.heard = {} /\ pass.kids = {} /\ ~ctx
  BY <1>1, PassIsOver
<1>3. MainNames(cur) = MainHits \cap AllNames(cur)
  BY <1>1, MainNamesAre
<1>4. ASSUME NEW n \in Everything, Resolves(n) PROVE n \in MainNames(cur)
  <2>1. Covers(Len(WholeList), cur)
    BY <1>1, <1>2, WatermarkCovers
  <2>2. n \in AllNames(cur)
    BY <1>1, <1>4, <2>1, EverythingIs DEF Covers
  <2>3. n \in MainHits
    BY <1>1, <1>4, MainHitsAre
  <2>4. QED BY <1>3, <2>2, <2>3
<1>5. ASSUME world.recursive, NEW q \in MainNames(cur) \cap MainHits, NEW e \in Everything,
             Len(q) < world.depth, Resolves(e \o q)
      PROVE  e \o q \in MainNames(cur)
  <2>1. Deepened(q)
    BY <1>1, <1>2, <1>5 DEF PassDeep
  <2>2. e \o q \in pass.seen
    BY <1>2, <2>1 DEF Deepened
  <2>3. Told(e \o q)
    BY <1>1, <1>2, <1>5, <2>2 DEF PassDeep
  <2>4. e \o q \in AllNames(cur)
    BY <1>5, <2>3 DEF Told
  <2>5. e \o q \in MainHits
    BY <1>1, <1>5, MainHitsAre
  <2>6. QED BY <1>3, <2>4, <2>5
<1>6. MainHits \subseteq MainNames(cur)
  <2> DEFINE S == MainNames(cur)
  <2>1. \A n \in Everything : Resolves(n) => n \in S
    BY <1>4
  <2>2. world.recursive => \A q \in S \cap MainHits, e \in Everything :
          Len(q) < world.depth /\ Resolves(e \o q) => e \o q \in S
    BY <1>5
  <2> HIDE DEF S
  <2>3. MainHits \subseteq S
    BY <1>1, <2>1, <2>2, MainHitsAreLeast
  <2>4. QED BY <2>3 DEF S
<1>7. QED BY <1>6 DEF MainWhole

LEMMA EndMainStaysWhole ==
  ASSUME BudgetInv, SurviveInv, PointInv, ToldInv, WholeInv, Calm, UNCHANGED world, EndMain
  PROVE  WholeInv'
<1>1. /\ UNCHANGED <<at, status, kept, cur, out, resume, file, signal, seeds>> /\ phase = "main" /\ Ended
      /\ phase' = "permute" /\ phase \in AtWork /\ phase' \in AtWork /\ DOMAIN result[at] = ResultFields
  BY DEF EndMain, ctlVars, diskVars, outputVars, AtWork, BudgetInv, RunShape
<1> DEFINE r == [result[at] EXCEPT !.done = TRUE, !.abort = pass.tripped, !.failed = pass.tripped,
                   !.rootDone = Watermark,
                   !.processed = pass.counted + IF Resuming THEN Saved.processed ELSE 0]
<1>2. result' = [result EXCEPT ![at] = r]
  BY DEF EndMain
<1>3. r.done = TRUE /\ r.perm = result[at].perm
  BY <1>1 DEF ResultFields
<1> HIDE DEF r
<1>4. ~result[at].perm.done /\ PassRoots' /\ PassDeep' /\ DOMAIN seeds' = TargetIndex
  BY <1>1, NotYetPermuted DEF PassRoots, PassDeep, Scanning, WholeInv, DiskWhole
<1>5. ~signal => MainWhole(cur)
  BY <1>1, MainIsOver
<1>6. QED BY <1>1, <1>2, <1>3, <1>4, <1>5, ResultStaysWhole

(* The list the permutation pass takes is made of the names found. *)
LEMMA PermCandidatesAre ==
  ASSUME BudgetInv, PointInv, phase \in AtWork, cur \subseteq ExpectedHits, MainWhole(cur)
  PROVE  PermCandidates = FullPerms
<1>1. logs[at].names = world.logNames /\ Candidates(logs[at]) = WholeList
  BY DEF PointInv, LogsKnown, Candidates, WholeList
<1>2. PermCandidates = PermList(cur)
  BY <1>1 DEF PermCandidates, PermList
<1>3. QED BY <1>2, MainIsWhole DEF BudgetInv, RunShape

LEMMA DecideStaysWhole ==
  ASSUME BudgetInv, SurviveInv, PointInv, ToldInv, WholeInv, Calm, UNCHANGED world, DecidePermute
  PROVE  WholeInv'
<1>1. /\ UNCHANGED <<at, status, kept, cur, out, resume, file, signal, seeds>> /\ phase = "permute"
      /\ phase' \in {"status", "permPreflight"} /\ phase \in AtWork /\ phase' \in AtWork \ {"preflight"}
      /\ at \in TargetIndex /\ DOMAIN result[at] = ResultFields /\ world \in World
      /\ cur \subseteq ExpectedHits /\ DOMAIN seeds' = TargetIndex
  BY DEF DecidePermute, ctlVars, diskVars, outputVars, AtWork, BudgetInv, RunShape, WholeInv, WorkWhole, DiskWhole
<1>2. PassRoots' /\ PassDeep' /\ ~result[at].perm.done /\ ~result[at].abort
  BY <1>1, NotYetPermuted DEF PassRoots, PassDeep, Scanning, ToldInv, NothingFails
<1>3. ~signal => result[at].done /\ MainWhole(cur) /\ PermCandidates = FullPerms
  BY <1>1, PermCandidatesAre DEF WholeInv, WorkWhole
<1>4. CASE phase' = "status"
  <2>1. UNCHANGED result /\ (~PermWanted \/ PermCandidates = <<>>)
    BY <1>4, CalmIs DEF DecidePermute
  <2>2. ASSUME ~signal PROVE Whole(cur)
    <3>1. world.permute => Names(FullPerms) = {}
      BY <1>2, <1>3, <2>1, <2>2 DEF PermWanted, Names
    <3>2. QED BY <1>1, <1>3, <2>2, <3>1, AllIsWhole
  <2>3. QED BY <1>1, <1>2, <1>4, <2>1, <2>2, ResultStaysWhole
<1>5. CASE phase' = "permPreflight"
  <2> DEFINE r == [result[at] EXCEPT !.perm = [NoPerm EXCEPT !.started = TRUE]]
  <2>1. result' = [result EXCEPT ![at] = r] /\ world.permute /\ MainWhole(cur)
    BY <1>3, <1>5 DEF DecidePermute, PermWanted
  <2>2. r.perm.done = FALSE
    BY <1>1 DEF ResultFields, NoPerm
  <2> HIDE DEF r
  <2>3. QED BY <1>1, <1>2, <1>5, <2>1, <2>2, ResultStaysWhole
<1>6. QED BY <1>1, <1>4, <1>5

(* A pass of permutations that is resumed was told where it begins. *)
LEMMA PermSavedIsTold ==
  ASSUME WholeInv, PermSaved, at \in TargetIndex
  PROVE  PermTold(at, Saved.perm, Saved.results)
  BY DEF PermSaved, Resuming, Saved, WholeInv, DiskWhole, SavedWhole

LEMMA PermPreflightStaysWhole ==
  ASSUME BudgetInv, SurviveInv, PointInv, WholeInv, Calm, UNCHANGED world, PermPreflight
  PROVE  WholeInv'
<1>1. /\ UNCHANGED <<at, status, kept, cur, out, resume, file, signal>> /\ phase = "permPreflight"
      /\ phase \in AtWork /\ at \in TargetIndex /\ world \in World /\ ~world.flaky /\ DOMAIN seeds = TargetIndex
      /\ world.permute /\ cur \subseteq ExpectedHits /\ MainWhole(cur)
  BY CalmIs DEF PermPreflight, ctlVars, diskVars, outputVars, AtWork, BudgetInv, RunShape, WholeInv, WorkWhole,
     DiskWhole
<1>2. CASE Stop(FALSE, "status")
  BY <1>1, <1>2, StopStaysWhole
<1>3. CASE ~Stop(FALSE, "status")
  <2> DEFINE from == IF PermSaved THEN Saved.perm.rootDone ELSE 0
  <2>1. PermCandidates = FullPerms
    BY <1>1, PermCandidatesAre
  <2>2. /\ UNCHANGED result /\ phase' = "perm" /\ phase' \in AtWork \ {"preflight"}
        /\ seeds' = IF PermSaved THEN seeds ELSE [seeds EXCEPT ![at] = FullPerms]
        /\ pass' = NewPass(FullPerms, from, {}, FALSE, 0)
    BY <1>1, <1>3, <2>1, CalmIs DEF PermPreflight, AtWork
  <2>3. PermSaved => seeds[at] = FullPerms /\ Saved.perm.rootDone \in 0..Len(FullPerms)
    BY <1>1, PermSavedIsTold DEF PermTold
  <2>4. Len(FullPerms) \in Nat
    BY <1>1, FullPermsAre
  <2>5. /\ from \in Nat /\ from <= Len(FullPerms) /\ Start(from, FullPerms) = from
        /\ \A m : m \notin from..(from - 1)
    BY <2>3, <2>4 DEF Start
  <2>6. /\ DOMAIN seeds' = TargetIndex /\ seeds'[at] = FullPerms
        /\ \A i \in TargetIndex : seeds'[i] \in {seeds[i], FullPerms}
    BY <1>1, <2>2, <2>3
  <2>7. from = IF PermSaved' THEN Saved'.perm.rootDone ELSE 0
    BY <1>1 DEF PermSaved, Resuming, Saved
  <2> HIDE DEF from
  <2>8. /\ pass'.list = FullPerms /\ pass'.from = from /\ pass'.next = from /\ pass'.cap = 0
        /\ pass'.marks = {} /\ pass'.flight = {} /\ pass'.heard = {} /\ pass'.seen = {}
        /\ DOMAIN pass' = PassFields /\ pass'.deep = FALSE /\ pass'.kids = {}
    <3>1. /\ pass'.list = FullPerms /\ pass'.from = from /\ pass'.next = from
          /\ pass'.marks = {} /\ pass'.flight = {} /\ pass'.heard = {} /\ pass'.seen = {}
      BY <2>2, <2>5, NewPassFields
    <3>2. DOMAIN pass' = PassFields /\ pass'.cap = 0
      BY <2>2, NewPassCounts
    <3>3. pass'.deep = FALSE /\ pass'.kids = {}
      BY <2>2 DEF NewPass
    <3>4. QED BY <3>1, <3>2, <3>3
  <2>9. Placed'
    BY <2>4, <2>5, <2>8 DEF Placed
  <2>10. ListTold'
    BY <2>5, <2>8 DEF ListTold
  <2>11. PassRoots'
    <3>1. FullPerms' = FullPerms
      BY <1>1, SameExpected
    <3>2. QED BY <1>1, <2>2, <2>5, <2>6, <2>7, <2>8, <2>9, <2>10, <3>1 DEF PassRoots
  <2>12. PassDeep' /\ ~result[at].perm.done
    BY <1>1, <2>2, NotYetPermuted DEF PassDeep
  <2>13. QED BY <1>1, <2>2, <2>6, <2>11, <2>12, ResultStaysWhole
<1>4. QED BY <1>2, <1>3

(* What a permutation pass reports as settled is among the hits. *)
LEMMA PermIsCovered ==
  ASSUME BudgetInv, SurviveInv, WholeInv, phase = "perm"
  PROVE  Watermark \in 0..Len(FullPerms) /\ PermCovers(Watermark, cur)
<1>1. /\ Scanning /\ phase \in AtWork /\ at \in TargetIndex /\ Running /\ ListTold /\ Placed
      /\ pass.list = FullPerms /\ pass.from = IF PermSaved THEN Saved.perm.rootDone ELSE 0
  BY DEF BudgetInv, RunShape, Scanning, AtWork, Running, WholeInv, PassRoots
<1>2. PermCovers(pass.from, cur)
  <2>1. CASE PermSaved
    <3>1. PermTold(at, Saved.perm, Saved.results)
      BY <1>1, <2>1, PermSavedIsTold
    <3>2. Saved.results \subseteq cur
      BY <1>1, <2>1 DEF SurviveInv, Restored, PermSaved
    <3>3. PermTold(at, Saved.perm, cur)
      BY <3>1, <3>2, MoreIsTold
    <3>4. QED BY <1>1, <2>1, <3>3 DEF PermTold
  <2>2. CASE ~PermSaved
    BY <1>1, <2>2 DEF PermCovers
  <2>3. QED BY <2>1, <2>2
<1>3. /\ Watermark \in pass.from..Len(pass.list)
      /\ \A m \in 1..Watermark : m \in 1..pass.from \/ Told(pass.list[m])
  BY <1>1, SettledIsTold
<1>4. Watermark \in 0..Len(FullPerms)
  BY <1>1, <1>3 DEF Placed
<1>5. QED BY <1>1, <1>2, <1>3, <1>4 DEF PermCovers, Told

LEMMA EndPermStaysWhole ==
  ASSUME BudgetInv, SurviveInv, ToldInv, WholeInv, Calm, UNCHANGED world, EndPerm
  PROVE  WholeInv'
<1>1. /\ UNCHANGED <<at, status, kept, cur, out, resume, file, signal, seeds>> /\ phase = "perm"
      /\ phase' = "status" /\ phase \in AtWork /\ phase' \in AtWork \ {"preflight"}
      /\ DOMAIN result[at] = ResultFields /\ world \in World /\ Ended /\ Scanning /\ PassRoots
      /\ cur \subseteq ExpectedHits /\ MainWhole(cur) /\ DOMAIN seeds' = TargetIndex
  BY DEF EndPerm, ctlVars, diskVars, outputVars, AtWork, BudgetInv, RunShape, Scanning, WholeInv, WorkWhole, DiskWhole
<1> DEFINE p == [started |-> TRUE, done |-> TRUE, rootDone |-> Watermark,
                 processed |-> pass.counted + IF PermSaved THEN Saved.perm.processed ELSE 0]
           r == [result[at] EXCEPT !.failed = result[at].failed \/ pass.tripped, !.perm = p]
<1>2. result' = [result EXCEPT ![at] = r] /\ p.rootDone = Watermark
  BY <1>1 DEF EndPerm
<1> HIDE DEF p
<1>3. r.perm = p
  BY <1>1 DEF ResultFields
<1> HIDE DEF r
<1>4. pass.list = FullPerms /\ seeds[at] = FullPerms
  BY <1>1 DEF PassRoots
<1>5. Watermark \in 0..Len(FullPerms) /\ PermCovers(Watermark, cur)
  BY <1>1, PermIsCovered
<1>6. PermTold(at, r.perm, cur)
  BY <1>1, <1>2, <1>3, <1>4, <1>5 DEF PermTold
<1>7. ASSUME ~signal PROVE Whole(cur)
  <2>1. \A n \in Names(FullPerms) : Resolves(n) => n \in AllNames(cur)
    <3>1. Watermark = Len(FullPerms)
      BY <1>1, <1>4, <1>7, PassIsOver
    <3>2. DOMAIN FullPerms = 1..Len(FullPerms)
      BY <1>1, FullPermsAre
    <3>3. QED BY <1>5, <3>1, <3>2 DEF PermCovers, Names
  <2>2. QED BY <1>1, <2>1, AllIsWhole
<1>8. PassRoots' /\ PassDeep'
  BY <1>1 DEF PassRoots, PassDeep, Scanning
<1>9. QED BY <1>1, <1>2, <1>6, <1>7, <1>8, ResultStaysWhole

(* What a target restores goes to the output as its own. *)
LEMMA RestoredAreWritten ==
  ASSUME NEW hits, out' = out \cup {<<at, h>> : h \in hits}
  PROVE  /\ {h[2] : h \in {g \in out' : g[1] = at}} = Written(at) \cup hits
         /\ \A i : i # at => Written(i)' = Written(i)
<1>1. \A h : <<at, h>>[1] = at /\ <<at, h>>[2] = h
  OBVIOUS
<1>2. {g \in out' : g[1] = at} = {g \in out : g[1] = at} \cup {<<at, h>> : h \in hits}
  BY <1>1
<1>3. {h[2] : h \in {g \in out' : g[1] = at}} = Written(at) \cup hits
  <2> DEFINE old == {g \in out : g[1] = at}
             more == {<<at, h>> : h \in hits}
  <2>1. {h[2] : h \in more} = hits
    BY <1>1
  <2> HIDE DEF old, more
  <2>2. {h[2] : h \in old \cup more} = {h[2] : h \in old} \cup {h[2] : h \in more}
    OBVIOUS
  <2>3. QED BY <1>2, <2>1, <2>2 DEF Written, old, more
<1>4. ASSUME NEW i, i # at PROVE Written(i)' = Written(i)
  <2>1. {g \in out' : g[1] = i} = {g \in out : g[1] = i}
    BY <1>1, <1>4
  <2>2. QED BY <2>1 DEF Written
<1>5. QED BY <1>3, <1>4

(* What is saved stays whole while the lists of the permutations stay. *)
LEMMA DiskRests ==
  ASSUME WholeInv, UNCHANGED <<world, seeds, resume, file>>
  PROVE  DiskWhole'
<1>1. \A i \in TargetIndex : \A t : SavedWhole(t, i) => SavedWhole(t, i)'
  BY SameWhole
<1>2. resume # NoState => \A i \in TargetIndex : SavedWhole(resume[i], i)'
  BY <1>1 DEF WholeInv, DiskWhole
<1>3. file # NoState => \A i \in TargetIndex : SavedWhole(file[i], i)'
  BY <1>1 DEF WholeInv, DiskWhole
<1>4. QED BY <1>2, <1>3, SameExpected DEF WholeInv, DiskWhole

LEMMA BeginStaysWhole ==
  ASSUME BudgetInv, SurviveInv, WholeInv, Calm, UNCHANGED world, BeginTarget
  PROVE  WholeInv'
<1>1. /\ UNCHANGED <<at, status, kept, resume, file, seeds, signal>> /\ phase = "next" /\ Running
      /\ at \in TargetIndex /\ world \in World /\ phase \notin AtWork /\ DOMAIN result = TargetIndex
  BY DEF BeginTarget, ctlVars, diskVars, outputVars, AtWork, BudgetInv, RunShape, TargetIndex, World, Running
<1>2. phase' = "preflight" /\ phase' \in AtWork /\ result' = [result EXCEPT ![at] = Fresh0]
  BY CalmIs DEF BeginTarget, AtWork
<1> DEFINE hits == IF Resuming THEN Saved.results ELSE {}
<1>3. cur' = hits /\ hits \subseteq ExpectedHits /\ out' = out \cup {<<at, h>> : h \in hits}
  <2>1. CASE Resuming
    <3>1. Saved.results \subseteq ExpectedHits
      BY <1>1, <2>1 DEF Resuming, Saved, WholeInv, DiskWhole, SavedWhole
    <3>2. QED BY <2>1, <3>1 DEF BeginTarget, Restore
  <2>2. CASE ~Resuming
    <3>1. cur' = {} /\ out' = out \cup {<<at, h>> : h \in {}}
      BY <2>2 DEF BeginTarget
    <3>2. QED BY <2>2, <3>1
  <2>3. QED BY <2>1, <2>2
<1>4. hits = IF Resuming' THEN Saved'.results ELSE {}
  BY <1>1 DEF Resuming, Saved
<1> HIDE DEF hits
<1>5. /\ ExpectedHits' = ExpectedHits /\ TargetIndex' = TargetIndex
      /\ \A i \in TargetIndex : i < at => i # at
  BY <1>1, SameExpected, TargetOrder
<1>6. DiskWhole'
  BY <1>1, DiskRests
<1>7. \A i \in TargetIndex : result'[i] = IF i = at THEN Fresh0 ELSE result[i]
  BY <1>1, <1>2
<1>8. ~Fresh0.perm.done
  BY DEF Fresh0, NoPerm
<1>9. KeptWhole'
  <2>1. \A i \in TargetIndex : /\ \A h : Whole(h)' = Whole(h)
                               /\ \A perm, h : PermTold(i, perm, h) => PermTold(i, perm, h)'
    BY <1>1, SameWhole
  <2>2. ASSUME NEW i \in TargetIndex
        PROVE  /\ kept[i] \subseteq ExpectedHits
               /\ status[i] = "ok" => Whole(kept[i])
               /\ result'[i].perm.done => i < at
               /\ i < at /\ result'[i].perm.done => PermTold(i, result'[i].perm, kept[i])
    BY <1>1, <1>5, <1>7, <1>8 DEF WholeInv, KeptWhole
  <2>3. QED BY <1>1, <1>5, <2>1, <2>2 DEF KeptWhole
<1>10. WorkWhole'
  BY <1>1, <1>2, <1>3, <1>4, <1>5, <1>7, <1>8 DEF WorkWhole
<1>11. PassRoots' /\ PassDeep' /\ AllEnded'
  BY <1>2 DEF PassRoots, PassDeep, Scanning, AllEnded
<1>12. AllWritten'
  <2>1. \A i \in TargetIndex : Written(i) = Gathered(i)
    BY <1>1 DEF WholeInv, AllWritten
  <2>2. Written(at) = {} /\ ~(at < at)
    BY <1>1, <1>5, <2>1 DEF Gathered
  <2>3. Written(at)' = hits
    <3>1. Written(at)' = {h[2] : h \in {g \in out' : g[1] = at}}
      BY <1>1 DEF Written
    <3>2. QED BY <1>3, <2>2, <3>1, RestoredAreWritten
  <2>4. ASSUME NEW i \in TargetIndex PROVE Written(i)' = Gathered(i)'
    <3>1. CASE i = at
      BY <1>1, <1>2, <1>3, <2>2, <2>3, <3>1 DEF Gathered
    <3>2. CASE i # at
      <4>1. Written(i)' = Written(i)
        BY <1>3, <3>2, RestoredAreWritten
      <4>2. Gathered(i)' = Gathered(i)
        BY <1>1, <3>2 DEF Gathered
      <4>3. QED BY <2>1, <4>1, <4>2
    <3>3. QED BY <3>1, <3>2
  <2>5. QED BY <1>5, <2>4 DEF AllWritten
<1>13. QED BY <1>6, <1>9, <1>10, <1>11, <1>12 DEF WholeInv

(* Leaving a target behind: what it has gathered is kept, and whole if it is ok. *)
LEMMA LeavingStaysWhole ==
  ASSUME BudgetInv, WholeInv, UNCHANGED <<world, resume, file, seeds>>, Running,
         phase' \in {"next", "over"}, NEW t \in TargetIndex, at = t, at' = t + 1,
         NEW k, kept'[t] = k, k \subseteq ExpectedHits, status'[t] = "ok" => Whole(k),
         result'[t].perm.done => PermTold(t, result'[t].perm, k),
         \A i \in TargetIndex : i # t => result'[i] = result[i] /\ kept'[i] = kept[i] /\ status'[i] = status[i],
         Written(t)' = k, \A i : i # t => Written(i)' = Written(i)
  PROVE  WholeInv'
<1>1. /\ phase # "killed" /\ phase' \notin AtWork /\ world \in World
      /\ ExpectedHits' = ExpectedHits /\ TargetIndex' = TargetIndex
  BY SameExpected DEF Running, AtWork, BudgetInv, RunShape
<1>2. DiskWhole'
  BY DiskRests
<1>3. KeptWhole'
  <2>1. ASSUME NEW i \in TargetIndex
        PROVE  /\ kept'[i] \subseteq ExpectedHits
               /\ status'[i] = "ok" => Whole(kept'[i])
               /\ result'[i].perm.done => i < at'
               /\ i < at' /\ result'[i].perm.done => PermTold(i, result'[i].perm, kept'[i])
    <3>1. CASE i = t
      <4>1. i < at'
        BY <1>1, <3>1, TargetOrder
      <4>2. QED BY <3>1, <4>1
    <3>2. CASE i # t
      <4>1. (i < at') <=> (i < at)
        BY <1>1, <3>2, TargetOrder
      <4>2. QED BY <3>2, <4>1 DEF WholeInv, KeptWhole
    <3>3. QED BY <3>1, <3>2
  <2>2. \A i \in TargetIndex : /\ \A h : Whole(h)' = Whole(h)
                               /\ \A perm, h : PermTold(i, perm, h) => PermTold(i, perm, h)'
    BY SameWhole
  <2>3. QED BY <1>1, <2>1, <2>2 DEF KeptWhole
<1>4. WorkWhole' /\ PassRoots' /\ PassDeep' /\ AllEnded'
  BY <1>1 DEF WorkWhole, PassRoots, PassDeep, Scanning, AllEnded
<1>5. ASSUME NEW i \in TargetIndex PROVE Written(i)' = Gathered(i)'
  <2>1. CASE i = t
    <3>1. i < at'
      BY <1>1, <2>1, TargetOrder
    <3>2. QED BY <2>1, <3>1 DEF Gathered
  <2>2. CASE i # t
    <3>1. (i < at') <=> (i < at)
      BY <1>1, <2>2, TargetOrder
    <3>2. Gathered(i)' = Gathered(i)
      BY <1>1, <2>2, <3>1 DEF Gathered
    <3>3. QED BY <1>1, <2>2, <3>2 DEF WholeInv, AllWritten
  <2>3. QED BY <2>1, <2>2
<1>6. AllWritten'
  BY <1>1, <1>5 DEF AllWritten
<1>7. QED BY <1>2, <1>3, <1>4, <1>6 DEF WholeInv

LEMMA SkipStaysWhole ==
  ASSUME BudgetInv, SurviveInv, WholeInv, UNCHANGED world, SkipFinished
  PROVE  WholeInv'
<1>1. /\ UNCHANGED <<resume, file, seeds, phase>> /\ phase = "next" /\ Running /\ phase \notin AtWork
      /\ at \in TargetIndex /\ at' = at + 1 /\ resume # NoState /\ world \in World
  BY DEF SkipFinished, ctlVars, diskVars, outputVars, BudgetInv, RunShape, TargetIndex, World, Running, Resuming,
     AtWork
<1>2. PICK t \in TargetIndex : t = at
  BY <1>1
<1> DEFINE r == [Fresh0 EXCEPT !.done = TRUE, !.rootDone = Saved.rootDone, !.processed = Saved.processed]
           k == resume[t].results
<1>3. /\ status' = [status EXCEPT ![t] = "ok"] /\ result' = [result EXCEPT ![t] = r]
      /\ kept' = [kept EXCEPT ![t] = k] /\ out' = out \cup {<<at, h>> : h \in k} /\ resume[t].done
  BY <1>2 DEF SkipFinished, Restore, Saved
<1>4. r.perm.done = FALSE
  BY DEF Fresh0, NoPerm
<1> HIDE DEF r
<1>5. \A i \in TargetIndex : /\ status'[i] = IF i = t THEN "ok" ELSE status[i]
                             /\ result'[i] = IF i = t THEN r ELSE result[i]
                             /\ kept'[i] = IF i = t THEN k ELSE kept[i]
  BY <1>2, <1>3 DEF SurviveInv, Reached, BudgetInv, RunShape
<1>6. k \subseteq ExpectedHits /\ Whole(k)
  BY <1>1, <1>3 DEF WholeInv, DiskWhole, SavedWhole
<1>7. Written(t) = {}
  <2>1. Written(t) = Gathered(t) /\ ~(t < t)
    BY <1>1, TargetOrder DEF WholeInv, AllWritten
  <2>2. QED BY <1>1, <1>2, <2>1 DEF Gathered
<1> HIDE DEF k
<1>8. Written(t)' = k /\ \A i : i # t => Written(i)' = Written(i)
  <2>1. Written(t)' = {h[2] : h \in {g \in out' : g[1] = at}}
    BY <1>2 DEF Written
  <2>2. QED BY <1>2, <1>3, <1>7, <2>1, RestoredAreWritten
<1>9. ~result'[t].perm.done /\ kept'[t] = k
  BY <1>4, <1>5
<1>10. QED BY <1>1, <1>2, <1>5, <1>6, <1>8, <1>9, LeavingStaysWhole

LEMMA StatusStaysWhole ==
  ASSUME BudgetInv, SurviveInv, ToldInv, WholeInv, UNCHANGED world, SetStatus
  PROVE  WholeInv'
<1>1. /\ UNCHANGED <<resume, file, seeds, result, out>> /\ phase = "status" /\ Running /\ phase \in AtWork
      /\ at \in TargetIndex /\ at' = at + 1 /\ phase' \in {"next", "over"} /\ world \in World
  BY DEF SetStatus, ctlVars, diskVars, outputVars, BudgetInv, RunShape, AtWork, Running
<1>2. PICK t \in TargetIndex : t = at
  BY <1>1
<1>3. ~result[t].abort
  BY DEF ToldInv, NothingFails
<1>4. \A i \in TargetIndex : /\ status'[i] = IF i = t THEN Verdict ELSE status[i]
                             /\ kept'[i] = IF i = t THEN cur ELSE kept[i]
  BY <1>2, <1>3 DEF SetStatus, SurviveInv, Reached
<1>5. Verdict = "ok" => ~signal
  BY DEF Verdict
<1>6. /\ cur \subseteq ExpectedHits /\ (~signal => Whole(cur))
      /\ result[t].perm.done => PermTold(t, result[t].perm, cur)
  BY <1>1, <1>2 DEF WholeInv, WorkWhole
<1>7. Written(t)' = cur /\ \A i : Written(i)' = Written(i)
  <2>1. \A i : Written(i)' = Written(i)
    BY <1>1 DEF Written
  <2>2. Written(t) = Gathered(t) /\ ~(t < t)
    BY <1>1, TargetOrder DEF WholeInv, AllWritten
  <2>3. QED BY <1>1, <1>2, <2>1, <2>2 DEF Gathered
<1>8. QED BY <1>1, <1>2, <1>4, <1>5, <1>6, <1>7, LeavingStaysWhole

(* What is saved of a target: whole if done, and what its permutations cover. *)
LEMMA SavedStaysWhole ==
  ASSUME BudgetInv, SurviveInv, ToldInv, WholeInv, phase = "over", NEW i \in TargetIndex
  PROVE  SavedWhole(SavedTarget(i), i)
<1>1. Running /\ phase \notin AtWork
  BY DEF Running, AtWork
<1>2. resume # NoState => SavedWhole(resume[i], i)
  BY DEF WholeInv, DiskWhole
<1>3. CASE Unreached(i)
  BY <1>2, <1>3 DEF SavedTarget, Unreached, Resuming
<1>4. CASE ~Unreached(i)
  <2>1. /\ SavedTarget(i).results = kept[i]
        /\ SavedTarget(i).perm = IF result[i].perm.done THEN result[i].perm
                                 ELSE IF Resuming THEN resume[i].perm ELSE NoPerm
        /\ SavedTarget(i).done => status[i] = "ok"
    BY <1>4 DEF SavedTarget
  <2>2. kept[i] \subseteq ExpectedHits /\ (status[i] = "ok" => Whole(kept[i]))
    BY DEF WholeInv, KeptWhole
  <2>3. CASE result[i].perm.done
    <3>1. i < at
      BY <1>1, <2>3 DEF WholeInv, KeptWhole
    <3>2. PermTold(i, result[i].perm, kept[i])
      BY <2>3, <3>1 DEF WholeInv, KeptWhole
    <3>3. QED BY <2>1, <2>2, <2>3, <3>2 DEF SavedWhole
  <2>4. CASE ~result[i].perm.done /\ Resuming
    <3>1. i < at
      BY <1>4, <2>4 DEF Unreached, SurviveInv, Reached, ToldInv, NothingFails
    <3>2. resume[i].results \subseteq kept[i]
      BY <1>1, <2>4, <3>1 DEF SurviveInv, Restored
    <3>3. resume[i].perm.started => PermTold(i, resume[i].perm, kept[i])
      BY <1>2, <2>4, <3>2, MoreIsTold DEF SavedWhole, Resuming
    <3>4. QED BY <2>1, <2>2, <2>4, <3>3 DEF SavedWhole
  <2>5. CASE ~result[i].perm.done /\ ~Resuming
    <3>1. SavedTarget(i).perm.started = FALSE
      BY <2>1, <2>5 DEF NoPerm
    <3>2. QED BY <2>1, <2>2, <3>1 DEF SavedWhole
  <2>6. QED BY <2>3, <2>4, <2>5
<1>5. QED BY <1>3, <1>4

(* Steps after which no target is worked on keep what is kept. *)
LEMMA KeptRests ==
  ASSUME WholeInv, UNCHANGED <<world, seeds, at, status, kept, result>>,
         Running' => Running /\ (phase = "status" => phase' = "status")
  PROVE  KeptWhole'
<1>1. \A i \in TargetIndex : /\ \A h : Whole(h)' = Whole(h)
                             /\ \A perm, h : PermTold(i, perm, h) => PermTold(i, perm, h)'
  BY SameWhole
<1>2. ExpectedHits' = ExpectedHits /\ TargetIndex' = TargetIndex
  BY SameExpected
<1>3. ASSUME NEW i \in TargetIndex
      PROVE  /\ kept[i] \subseteq ExpectedHits
             /\ status[i] = "ok" => Whole(kept[i])
             /\ Running' /\ result[i].perm.done => i < at \/ (i = at /\ phase' = "status")
             /\ i < at /\ result[i].perm.done => PermTold(i, result[i].perm, kept[i])
  BY DEF WholeInv, KeptWhole
<1>4. QED BY <1>1, <1>2, <1>3 DEF KeptWhole

LEMMA FinishStaysWhole ==
  ASSUME BudgetInv, SurviveInv, PointInv, ToldInv, WholeInv, UNCHANGED world, Finish
  PROVE  WholeInv'
<1>1. /\ UNCHANGED <<at, status, kept, resume, result, out, signal, seeds>> /\ phase = "over" /\ phase' = "commit"
      /\ Running /\ phase \notin AtWork /\ phase' \notin AtWork /\ world \in World /\ at \in Nat
  BY DEF Finish, ctlVars, endVars, Running, AtWork, BudgetInv, RunShape
<1>2. ExpectedHits' = ExpectedHits /\ TargetIndex' = TargetIndex
  BY <1>1, SameExpected
<1>3. KeptWhole'
  BY <1>1, KeptRests
<1>4. WorkWhole' /\ PassRoots' /\ PassDeep'
  BY <1>1 DEF WorkWhole, PassRoots, PassDeep, Scanning
<1>5. DiskWhole'
  <2>1. \A i \in TargetIndex : \A t : SavedWhole(t, i) => SavedWhole(t, i)'
    BY <1>1, SameWhole
  <2>2. resume # NoState => \A i \in TargetIndex : SavedWhole(resume[i], i)'
    BY <1>1, <2>1 DEF WholeInv, DiskWhole
  <2>3. file' # NoState => \A i \in TargetIndex : SavedWhole(file'[i], i)
    <3>1. CASE file' = [i \in TargetIndex |-> SavedTarget(i)]
      BY <1>1, <3>1, SavedStaysWhole
    <3>2. CASE file' = file
      BY <3>2 DEF WholeInv, DiskWhole
    <3>3. QED BY <3>1, <3>2 DEF Finish
  <2>4. QED BY <1>1, <1>2, <2>1, <2>2, <2>3 DEF WholeInv, DiskWhole
<1>6. AllEnded'
  <2>1. ASSUME ~signal, NEW i \in TargetIndex PROVE status[i] = "ok"
    <3>1. ~ctx /\ ~AnyFailed
      BY <2>1 DEF SurviveInv, Concluded, ToldInv, NothingFails, AnyFailed
    <3>2. at > world.targets
      BY <1>1, <3>1 DEF SurviveInv, Concluded
    <3>3. i < at
      <4>1. world.targets \in Nat
        BY <1>1 DEF World
      <4>2. QED BY <1>1, <3>2, <4>1 DEF TargetIndex
    <3>4. QED BY <1>1, <2>1, <3>3 DEF PointInv, DoneStays, ToldInv, NothingFails
  <2>2. QED BY <1>1, <1>2, <2>1 DEF AllEnded
<1>7. AllWritten'
  BY <1>1, <1>2 DEF WholeInv, AllWritten, Written, Gathered
<1>8. QED BY <1>3, <1>4, <1>5, <1>6, <1>7 DEF WholeInv

LEMMA SamePassRoots ==
  ASSUME PassRoots, PassDeep, UNCHANGED <<world, phase, at, cur, pass, resume, seeds>>, ctx => ctx'
  PROVE  PassRoots' /\ PassDeep'
<1>1. /\ ExpectedHits' = ExpectedHits /\ FullPerms' = FullPerms /\ Everything' = Everything
      /\ \A n : Below(n)' = Below(n)
  BY SameExpected DEF Below
<1>2. /\ \A n : Told(n)' = Told(n)
      /\ \A n : Resolves(n)' = Resolves(n)
      /\ \A q : Deepened(q)' = Deepened(q)
  BY <1>1, SameExpected DEF Told, AllNames, Deepened
<1>3. /\ \A job : Rooted(job)' = Rooted(job)
      /\ Placed' = Placed /\ Scanning' = Scanning
  BY <1>1 DEF Rooted, Placed, Scanning
<1>4. ListTold' = ListTold /\ PermSaved' = PermSaved /\ Saved' = Saved
  BY <1>2 DEF ListTold, Waiting, PermSaved, Resuming, Saved
<1>5. PassRoots'
  BY <1>1, <1>3, <1>4 DEF PassRoots
<1>6. PassDeep'
  BY <1>2 DEF PassDeep, MainNames
<1>7. QED BY <1>5, <1>6

LEMMA SettleStaysWhole ==
  ASSUME BudgetInv, WholeInv, UNCHANGED world, Loop \/ CommitResults \/ Signal \/ Cancel \/ Kill
  PROVE  WholeInv'
<1>1. /\ UNCHANGED <<at, status, kept, resume, file, result, seeds>> /\ Running /\ (signal => signal') /\ (ctx => ctx')
      /\ phase' # "killed" => UNCHANGED out /\ (phase' \in AtWork => UNCHANGED <<phase, pass, cur>>)
      /\ phase' \in {"commit", "exited"} => phase \in {"commit", "exited"}
      /\ phase' # "killed" => (phase \in AtWork <=> phase' \in AtWork)
      /\ Running' => (phase = "status" => phase' = "status")
  BY DEF Loop, CommitResults, Signal, Cancel, Kill, Running, ctlVars, diskVars, outputVars, endVars, AtWork
<1>2. ExpectedHits' = ExpectedHits /\ TargetIndex' = TargetIndex
  BY SameExpected
<1>3. DiskWhole' /\ KeptWhole' /\ AllEnded'
  <2>1. DiskWhole' /\ KeptWhole'
    BY <1>1, DiskRests, KeptRests
  <2>2. QED BY <1>1, <1>2, <2>1 DEF WholeInv, AllEnded
<1>4. AllWritten'
  <2>1. CASE phase' # "killed"
    <3>1. \A i \in TargetIndex : Written(i)' = Written(i)
      BY <1>1, <2>1 DEF Written
    <3>2. \A i \in TargetIndex : Gathered(i)' = Gathered(i)
      BY <1>1, <2>1 DEF Gathered
    <3>3. \A i \in TargetIndex : Written(i) = Gathered(i)
      BY <1>1 DEF WholeInv, AllWritten, Running
    <3>4. QED BY <1>2, <3>1, <3>2, <3>3 DEF AllWritten
  <2>2. QED BY <2>1 DEF AllWritten
<1>5. CASE phase' \in AtWork
  <2>1. UNCHANGED <<phase, pass, cur>>
    BY <1>1, <1>5 DEF AtWork
  <2>2. WorkWhole'
    <3>1. /\ \A h : Whole(h)' = Whole(h) /\ MainWhole(h)' = MainWhole(h)
          /\ \A perm, h : PermTold(at, perm, h) => PermTold(at, perm, h)'
      BY <1>1, SameWhole
    <3>2. Whole(cur)' = Whole(cur) /\ MainWhole(cur)' = MainWhole(cur)
      BY <2>1, <3>1
    <3>3. result[at].perm.done /\ PermTold(at, result[at].perm, cur) => PermTold(at, result[at].perm, cur)'
      BY <1>1, <2>1, <3>1
    <3>4. (IF Resuming THEN Saved.results ELSE {})' = IF Resuming THEN Saved.results ELSE {}
      BY <1>1 DEF Resuming, Saved
    <3>5. QED BY <1>1, <1>2, <2>1, <3>2, <3>3, <3>4 DEF WholeInv, WorkWhole
  <2>3. PassRoots' /\ PassDeep'
    BY <1>1, <2>1, SamePassRoots DEF WholeInv
  <2>4. QED BY <1>3, <1>4, <2>2, <2>3 DEF WholeInv
<1>6. CASE phase' \notin AtWork
  <2>1. PassRoots' /\ PassDeep' /\ WorkWhole'
    BY <1>6 DEF PassRoots, PassDeep, WorkWhole, Scanning, AtWork
  <2>2. QED BY <1>3, <1>4, <2>1 DEF WholeInv
<1>7. QED BY <1>5, <1>6

LEMMA RestartStaysWhole ==
  ASSUME BudgetInv, WholeInv, UNCHANGED world, Restart
  PROVE  WholeInv'
<1>1. /\ UNCHANGED <<file, seeds>> /\ resume' = file /\ phase' = "next" /\ at' = 1 /\ file # NoState /\ out' = {}
      /\ status' = Each("") /\ result' = Each(Fresh0) /\ kept' = Each({}) /\ world \in World
  BY DEF Restart, outputVars, BudgetInv, RunShape
<1>2. /\ ExpectedHits' = ExpectedHits /\ TargetIndex' = TargetIndex
      /\ phase' \notin AtWork /\ \A i \in TargetIndex : ~(i < at')
  BY <1>1, SameExpected, NoneBeforeFirst DEF AtWork
<1>3. DiskWhole'
  <2>1. \A i \in TargetIndex : seeds'[i] \in {seeds[i], FullPerms}
    BY <1>1
  <2>2. \A i \in TargetIndex : \A t : SavedWhole(t, i) => SavedWhole(t, i)'
    BY <2>1, SameWhole
  <2>3. \A i \in TargetIndex : SavedWhole(file[i], i)
    BY <1>1 DEF WholeInv, DiskWhole
  <2>4. QED BY <1>1, <1>2, <2>2, <2>3 DEF WholeInv, DiskWhole
<1>4. \A i \in TargetIndex : kept'[i] = {} /\ status'[i] = "" /\ result'[i] = Fresh0 /\ ~Fresh0.perm.done
  BY <1>1 DEF Each, Fresh0, NoPerm
<1>5. KeptWhole'
  BY <1>2, <1>4 DEF KeptWhole
<1>6. WorkWhole' /\ PassRoots' /\ PassDeep' /\ AllEnded'
  BY <1>1, <1>2 DEF WorkWhole, PassRoots, PassDeep, Scanning, AllEnded
<1>7. AllWritten'
  BY <1>1, <1>2 DEF AllWritten, Written, Gathered
<1>8. QED BY <1>3, <1>5, <1>6, <1>7 DEF WholeInv

LEMMA InitWhole == Init => WholeInv
<1> SUFFICES ASSUME Init PROVE WholeInv
  OBVIOUS
<1>1. /\ file = NoState /\ resume = NoState /\ phase = "next" /\ at = 1 /\ world \in World /\ out = {}
      /\ status = Each("") /\ kept = Each({}) /\ result = Each(Fresh0) /\ seeds = Each(<<>>)
  BY ResumeAssumption DEF Init
<1>2. phase \notin AtWork
      /\ \A i \in TargetIndex : ~(i < at) /\ kept[i] = {} /\ status[i] = "" /\ ~result[i].perm.done
  BY <1>1, NoneBeforeFirst DEF AtWork, Each, Fresh0, NoPerm
<1>3. DiskWhole /\ KeptWhole
  BY <1>1, <1>2 DEF DiskWhole, KeptWhole, Each
<1>4. WorkWhole /\ PassRoots /\ PassDeep /\ AllEnded
  BY <1>1, <1>2 DEF WorkWhole, PassRoots, PassDeep, Scanning, AllEnded
<1>5. AllWritten
  BY <1>1, <1>2 DEF AllWritten, Written, Gathered
<1>6. QED BY <1>3, <1>4, <1>5 DEF WholeInv

LEMMA NextStaysWhole ==
  ASSUME BudgetInv, SurviveInv, PointInv, ToldInv, WholeInv, Calm, [Next]_vars
  PROVE  WholeInv'
<1>1. CASE UNCHANGED vars
  <2>1. UNCHANGED <<world, phase, at, signal, ctx, status, result, kept, cur, resume, file, out, pass, seeds>>
    BY <1>1 DEF vars
  <2>2. ExpectedHits' = ExpectedHits /\ TargetIndex' = TargetIndex
    BY <2>1, SameExpected
  <2>3. DiskWhole' /\ KeptWhole' /\ PassRoots' /\ PassDeep'
    BY <2>1, DiskRests, KeptRests, SamePassRoots DEF WholeInv, Running
  <2>4. WorkWhole'
    <3>1. phase \in AtWork => at \in TargetIndex
      BY DEF BudgetInv, RunShape
    <3>2. phase \in AtWork => /\ Whole(cur)' = Whole(cur) /\ MainWhole(cur)' = MainWhole(cur)
                              /\ PermTold(at, result[at].perm, cur) => PermTold(at, result[at].perm, cur)'
      BY <2>1, <3>1, SameWhole
    <3>3. (IF Resuming THEN Saved.results ELSE {})' = IF Resuming THEN Saved.results ELSE {}
      BY <2>1 DEF Resuming, Saved
    <3>4. QED BY <2>1, <2>2, <3>2, <3>3 DEF WholeInv, WorkWhole
  <2>5. AllEnded' /\ AllWritten'
    BY <2>1, <2>2 DEF WholeInv, AllEnded, AllWritten, Written, Gathered
  <2>6. QED BY <2>3, <2>4, <2>5 DEF WholeInv
<1>2. CASE Scan /\ UNCHANGED world
  BY <1>2, ScanStaysWhole
<1>3. CASE Run /\ UNCHANGED world
  BY <1>3, BeginStaysWhole, SkipStaysWhole, PreflightStaysWhole, EndMainStaysWhole, DecideStaysWhole,
     PermPreflightStaysWhole, EndPermStaysWhole, StatusStaysWhole, FinishStaysWhole, SettleStaysWhole DEF Run
<1>4. CASE (Signal \/ Cancel \/ Kill) /\ UNCHANGED world
  BY <1>4, SettleStaysWhole
<1>5. CASE Restart /\ UNCHANGED world
  BY <1>5, RestartStaysWhole
<1>6. QED BY <1>1, <1>2, <1>3, <1>4, <1>5 DEF Next

(* What is whole is all there is, no more. *)
LEMMA WholeIsAll ==
  ASSUME SurviveInv, WholeInv
  PROVE  AllFound
<1>1. ASSUME FinishedClean, NEW i \in TargetIndex PROVE Written(i) = ExpectedHits
  <2>1. status[i] = "ok" /\ Written(i) = Gathered(i)
    BY <1>1 DEF FinishedClean, WholeInv, AllEnded, AllWritten
  <2>2. Gathered(i) = kept[i]
    BY <2>1 DEF SurviveInv, Reached, Gathered
  <2>3. QED BY <2>1, <2>2 DEF WholeInv, KeptWhole, Whole
<1>2. ASSUME file # NoState, NEW i \in TargetIndex, file[i].done PROVE file[i].results = ExpectedHits
  BY <1>2 DEF WholeInv, DiskWhole, SavedWhole, Whole
<1>3. QED BY <1>1, <1>2 DEF AllFound

LEMMA WholeStays ==
  ASSUME BudgetInv, SurviveInv, ~world.logsFail => PointInv, Quiet => ToldInv, Calm => WholeInv, [Next]_vars
  PROVE  (~world.logsFail => PointInv)' /\ (Quiet => ToldInv)' /\ (Calm => WholeInv)'
<1>1. world' = world
  BY DEF Next, vars
<1>2. (~world.logsFail => PointInv)'
  BY <1>1, NextKeepsPoints
<1>3. (Quiet => ToldInv)'
  BY <1>1, <1>2, NextTells DEF Quiet
<1>4. (Calm => WholeInv)'
  <2>1. Calm' = Calm
    BY <1>1, SameExpected DEF Calm, Unhindered, Undotted
  <2>2. QED BY <1>2, <2>1, CalmIs, NextStaysWhole
<1>5. QED BY <1>2, <1>3, <1>4

(* The invariant of the calm scans, of every run of them. *)
LEMMA AlwaysWhole == Spec => [](SurviveInv /\ (Calm => WholeInv))
<1> DEFINE Steady == ~world.logsFail => PointInv
           Telling == Quiet => ToldInv
           Filling == Calm => WholeInv
<1>1. Spec => []BudgetInv
  BY InitInBudget, NextKeepsBudget, PTL DEF Spec
<1>2. Spec => []SurviveInv
  BY <1>1, InitSurvives, NextKeepsResults, PTL DEF Spec
<1>3. Init => Steady /\ Telling /\ Filling
  BY InitPoints, InitTells, InitWhole
<1>4. BudgetInv /\ SurviveInv /\ Steady /\ Telling /\ Filling /\ [Next]_vars => Steady' /\ Telling' /\ Filling'
  BY WholeStays
<1>5. Filling => (Calm => WholeInv)
  OBVIOUS
<1> HIDE DEF Steady, Telling, Filling
<1>6. QED BY <1>1, <1>2, <1>3, <1>4, <1>5, PTL DEF Spec

(* However often a scan is interrupted, killed and resumed, the run that       *)
(* finishes has written what one uninterrupted run finds, no name twice: the   *)
(* main pass covers every entry, and every child of every name it found; the   *)
(* permutation pass every candidate of a list that does not depend on where    *)
(* the scan was interrupted.                                                   *)
THEOREM ScansComplete == Spec => []SameAsUninterrupted
<1>1. SurviveInv /\ (Calm => WholeInv) /\ NoneTwice => SameAsUninterrupted
  <2>1. ~Calm => AllFound
    BY DEF AllFound
  <2>2. QED BY <2>1, WholeIsAll DEF SameAsUninterrupted
<1>2. QED BY <1>1, AlwaysWhole, NoNameTwice, PTL

(* And in a calm scan, recursive or not, every run of a permutation pass takes *)
(* the list the first one was given.                                           *)
THEOREM CalmListIsRebuilt == Spec => [](Calm => PermListRebuilt)
<1>1. SurviveInv /\ (Calm => WholeInv) => (Calm => PermListRebuilt)
  BY DEF WholeInv, PassRoots, Scanning, PermListRebuilt
<1>2. QED BY <1>1, AlwaysWhole, PTL
=============================================================================
