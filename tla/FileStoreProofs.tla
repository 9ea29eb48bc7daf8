-------------------------- MODULE FileStoreProofs ---------------------------
(***************************************************************************)
(* Proofs about Cli and FileStore, for any operators, exports, hosts,      *)
(* spellings, targets and hand-written configs: a command whose load is    *)
(* current changes its own host only, and is refused exactly when it or    *)
(* the config at hand is at fault; the file store implements the object    *)
(* store, and a Load that no export disturbs returns the config last saved *)
(* in full.                                                                *)
(***************************************************************************)
EXTENDS FileStore, TLAPS

(***************************************************************************)
(* Cli                                                                     *)
(***************************************************************************)

-----------------------------------------------------------------------------
(* The edits *)

\* Upsert keeps configs configs, and every other host as it is.
LEMMA UpsertElsewhere ==
    ASSUME NEW config \in SUBSET Mapping, NEW h \in Hosts, NEW t \in Dests
    PROVE  /\ Upsert(config, h, t) \in SUBSET Mapping
           /\ \A g \in Hosts \ {h} : On(Upsert(config, h, t), g) = On(config, g)
<1> DEFINE X == IF On(config, h) = {} THEN {h} ELSE {m.host : m \in On(config, h)}
<1>1. X \subseteq Texts /\ \A x \in X : NormalizeHost(x) = h
  BY CliAssumption DEF CliAssumption, On, Mapping
<1>2. Upsert(config, h, t) = (config \ On(config, h)) \cup {[host |-> x, target |-> t] : x \in X}
  BY DEF Upsert
<1> HIDE DEF X
<1> QED
  BY <1>1, <1>2 DEF On, Mapping

\* So does Without.
LEMMA WithoutElsewhere ==
    ASSUME NEW config \in SUBSET Mapping, NEW h \in Hosts
    PROVE  /\ Without(config, h) \in SUBSET Mapping
           /\ \A g \in Hosts \ {h} : On(Without(config, h), g) = On(config, g)
BY DEF Without, On, Mapping

\* A config after a command.
Applied(config, c) ==
    IF c.command = "add" THEN Upsert(config, c.host, c.target) ELSE Without(config, c.host)

\* It differs at the command's host only.
LEMMA AppliedElsewhere ==
    ASSUME NEW config \in SUBSET Mapping, NEW c \in Order
    PROVE  /\ Applied(config, c) \in SUBSET Mapping
           /\ \A g \in Hosts \ {c.host} : On(Applied(config, c), g) = On(config, g)
BY UpsertElsewhere, WithoutElsewhere DEF Applied, Order

\* An edit is a command applied to the object.
LEMMA EditStep ==
    ASSUME NEW o \in Operators, Add(o) \/ Remove(o)
    PROVE  \E c \in Order : Edit(o, c, Applied(object, c))
<1>1. CASE Add(o)
  <2>1. PICK h \in Hosts, t \in Dests :
          Edit(o, [command |-> "add", host |-> h, target |-> t], Upsert(object, h, t))
    BY <1>1 DEF Add
  <2> DEFINE c == [command |-> "add", host |-> h, target |-> t]
  <2>2. c \in Order /\ Applied(object, c) = Upsert(object, h, t)
    BY DEF Order, Applied
  <2> QED
    BY <2>1, <2>2
<1>2. CASE Remove(o)
  <2>1. PICK h \in Hosts : Edit(o, [command |-> "remove", host |-> h], Without(object, h))
    BY <1>2 DEF Remove
  <2> DEFINE c == [command |-> "remove", host |-> h]
  <2>2. c \in Order /\ Applied(object, c) = Without(object, h)
    BY DEF Order, Applied
  <2> QED
    BY <2>1, <2>2
<1> QED
  BY <1>1, <1>2

\* A save ends its command, and writes its draft, a valid one, or nothing.
LEMMA SaveStep ==
    ASSUME NEW o \in Operators, Save(o) \/ SaveRefused(o) \/ SaveFails(o)
    PROVE  /\ stage[o] = "save" /\ Finish(o)
           /\ object' = object \/ (object' = draft[o] /\ Validate(draft[o]))
BY DEF Save, SaveRefused, SaveFails

-----------------------------------------------------------------------------
\* Every step keeps every variable's type.
LEMMA TypeStep ==
    ASSUME TypeOK, [Next]_vars
    PROVE  TypeOK'
<1>1. CASE WebWrite
  <2>1. object' \in SUBSET Mapping
    BY <1>1, CliAssumption DEF CliAssumption, WebWrite, Exported, Mapping
  <2> QED
    BY <1>1, <2>1 DEF WebWrite, Overtake, TypeOK
<1>2. ASSUME NEW o \in Operators, Add(o) \/ Remove(o) PROVE TypeOK'
  <2>1. PICK c \in Order : Edit(o, c, Applied(object, c))
    BY <1>2, EditStep
  <2>2. Applied(object, c) \in SUBSET Mapping
    BY AppliedElsewhere DEF TypeOK
  <2> QED
    BY <2>1, <2>2 DEF Edit, TypeOK
<1>3. ASSUME NEW o \in Operators, Save(o) \/ SaveRefused(o) \/ SaveFails(o)
      PROVE  TypeOK'
  BY <1>3, SaveStep DEF Finish, Overtake, TypeOK
<1>4. CASE UNCHANGED vars
  BY <1>4 DEF vars, cliVars, TypeOK
<1> QED
  BY <1>1, <1>2, <1>3, <1>4 DEF Next, OperatorStep

\* Every variable keeps its type.
THEOREM Typing == Spec => []TypeOK
<1>1. Init => TypeOK
  BY CliAssumption DEF CliAssumption, Init, TypeOK, Mapping
<1>2. TypeOK /\ [Next]_vars => TypeOK'
  BY TypeStep
<1> QED
  BY <1>1, <1>2, PTL DEF Spec

-----------------------------------------------------------------------------
\* The draft of a command that has not been overtaken is the command applied to
\* the object.
DraftCurrent ==
    \A o \in Operators \ overtaken, c \in Order :
        stage[o] = "save" /\ c \in order[o] => draft[o] = Applied(object, c)

\* A step that changes no command under way keeps it: either the object stays,
\* or everybody is overtaken.
LEMMA OvertakeStep ==
    ASSUME TypeOK, DraftCurrent, Overtake,
           \A o \in Operators : stage'[o] = "save" =>
               stage[o] = "save" /\ order'[o] = order[o] /\ draft'[o] = draft[o]
    PROVE  DraftCurrent'
<1>1. CASE object' = object
  <2>1. \A o \in Operators \ overtaken' : stage'[o] = "save" => o \notin overtaken
    BY <1>1 DEF Overtake
  <2> QED
    BY <1>1, <2>1 DEF DraftCurrent
<1>2. CASE object' # object
  <2>1. \A o \in Operators : stage'[o] = "save" => o \in overtaken'
    BY <1>2 DEF Overtake
  <2> QED
    BY <2>1 DEF DraftCurrent
<1> QED
  BY <1>1, <1>2

\* No interleaving of commands and web writes leaves a draft that is not the
\* command applied to the object as it is, unless the command has been marked as
\* overtaken.
THEOREM Currency == Spec => [](TypeOK /\ DraftCurrent)
<1>1. Init => DraftCurrent
  BY DEF Init, DraftCurrent
<1>2. TypeOK /\ DraftCurrent /\ [Next]_vars => DraftCurrent'
  <2> SUFFICES ASSUME TypeOK, DraftCurrent, [Next]_vars PROVE DraftCurrent'
    OBVIOUS
  <2>1. CASE WebWrite
    BY <2>1, OvertakeStep DEF WebWrite
  <2>2. ASSUME NEW o \in Operators, Add(o) \/ Remove(o) PROVE DraftCurrent'
    <3>1. PICK c \in Order : Edit(o, c, Applied(object, c))
      BY <2>2, EditStep
    <3>2. /\ stage'[o] = "save" /\ draft'[o] = Applied(object, c) /\ order'[o] = {c}
          /\ UNCHANGED <<object, overtaken>>
      BY <3>1 DEF Edit, TypeOK
    <3>3. \A p \in Operators \ {o} :
            stage'[p] = stage[p] /\ order'[p] = order[p] /\ draft'[p] = draft[p]
      BY <3>1 DEF Edit, TypeOK
    <3>4. ASSUME NEW p \in Operators \ overtaken', NEW d \in Order,
                 stage'[p] = "save", d \in order'[p]
          PROVE  draft'[p] = Applied(object', d)
      <4>1. CASE p = o
        BY <4>1, <3>2, <3>4
      <4>2. CASE p # o
        BY <4>2, <3>2, <3>3, <3>4 DEF DraftCurrent
      <4> QED
        BY <4>1, <4>2
    <3> QED
      BY <3>4 DEF DraftCurrent
  <2>3. ASSUME NEW o \in Operators, Save(o) \/ SaveRefused(o) \/ SaveFails(o)
        PROVE  DraftCurrent'
    <3>1. Finish(o)
      BY <2>3, SaveStep
    <3>2. \A p \in Operators : stage'[p] = "save" =>
            stage[p] = "save" /\ order'[p] = order[p] /\ draft'[p] = draft[p]
      BY <3>1 DEF Finish, TypeOK
    <3> QED
      BY <3>1, <3>2, OvertakeStep DEF Finish
  <2>4. CASE UNCHANGED vars
    BY <2>4 DEF vars, cliVars, DraftCurrent
  <2> QED
    BY <2>1, <2>2, <2>3, <2>4 DEF Next, OperatorStep
<1> QED
  BY <1>1, <1>2, Typing, PTL DEF Spec

\* A step that ends a command is the end of that command.
LEMMA WhoWrites ==
    ASSUME TypeOK, [Next]_vars, NEW o \in Operators, Writes(o)
    PROVE  Save(o) \/ SaveRefused(o) \/ SaveFails(o)
<1>1. stage[o] = "save" /\ stage'[o] = "idle"
  BY DEF Writes
<1>2. ASSUME NEW p \in Operators, Add(p) \/ Remove(p) PROVE FALSE
  BY <1>1, <1>2, EditStep DEF Edit, TypeOK
<1>3. PICK p \in Operators : Save(p) \/ SaveRefused(p) \/ SaveFails(p)
  BY <1>1, <1>2 DEF Next, OperatorStep, WebWrite, vars, cliVars
<1>4. p = o
  BY <1>1, <1>3, SaveStep DEF Finish, TypeOK
<1> QED
  BY <1>3, <1>4

\* A command that loaded the object as it is now leaves every other host alone.
THEOREM OwnHost == Spec => EditsOwnHost
<1>1. TypeOK /\ DraftCurrent /\ [Next]_vars =>
        [\A o \in Operators \ overtaken, c \in Order :
            Writes(o) /\ c \in order[o] =>
                \A h \in Hosts \ {c.host} : On(object', h) = On(object, h)]_vars
  <2> SUFFICES ASSUME TypeOK, DraftCurrent, [Next]_vars,
                      NEW o \in Operators \ overtaken, NEW c \in Order,
                      Writes(o), c \in order[o], NEW h \in Hosts \ {c.host}
               PROVE  On(object', h) = On(object, h)
    OBVIOUS
  <2>1. object' = draft[o] \/ object' = object
    BY WhoWrites, SaveStep
  <2>2. draft[o] = Applied(object, c)
    BY DEF DraftCurrent, Writes
  <2>3. On(Applied(object, c), h) = On(object, h)
    BY AppliedElsewhere DEF TypeOK
  <2> QED
    BY <2>1, <2>2, <2>3
<1> QED
  BY <1>1, Currency, PTL DEF Spec, EditsOwnHost

-----------------------------------------------------------------------------
(* Refusals *)

\* A config tells the mappings of a host apart by their spellings.
TextsUnique(config) == \A m, n \in config : m.host = n.host => m = n

\* So do all configs, saved or about to be.
TextsKept ==
    /\ TextsUnique(object)
    /\ \A o \in Operators : TextsUnique(draft[o])

\* A command keeps it.
LEMMA AppliedTexts ==
    ASSUME NEW config \in SUBSET Mapping, TextsUnique(config), NEW c \in Order
    PROVE  TextsUnique(Applied(config, c))
<1>1. CASE c.command = "add"
  <2> DEFINE h == c.host
             X == IF On(config, h) = {} THEN {h} ELSE {m.host : m \in On(config, h)}
             N == {[host |-> x, target |-> c.target] : x \in X}
  <2>1. \A x \in X : NormalizeHost(x) = h
    BY <1>1, CliAssumption DEF CliAssumption, On, Order
  <2>2. Applied(config, c) = (config \ On(config, h)) \cup N
    BY <1>1 DEF Applied, Upsert
  <2> HIDE DEF X, h
  <2>3. \A m \in N : NormalizeHost(m.host) = h
    BY <2>1
  <2>4. \A m, n \in N : m.host = n.host => m = n
    OBVIOUS
  <2> HIDE DEF N
  <2> QED
    BY <2>2, <2>3, <2>4 DEF TextsUnique, On
<1>2. CASE c.command # "add"
  BY <1>2 DEF Applied, Without, TextsUnique
<1> QED
  BY <1>1, <1>2

\* Whoever writes the object, and whatever is edited.
LEMMA Texting == Spec => [](TypeOK /\ TextsKept)
<1>1. Init => TextsKept
  <2>1. \A config \in Seeds : TextsUnique(config)
    BY SeedsAssumption DEF SeedsAssumption, TextsUnique
  <2> QED
    BY <2>1 DEF Init, TextsKept, TextsUnique
<1>2. TypeOK /\ TextsKept /\ [Next]_vars => TextsKept'
  <2> SUFFICES ASSUME TypeOK, TextsKept, [Next]_vars PROVE TextsKept'
    OBVIOUS
  <2>1. CASE WebWrite
    <3>1. TextsUnique(object')
      BY <2>1 DEF WebWrite, Exported, HostsUnique, TextsUnique
    <3> QED
      BY <2>1, <3>1 DEF WebWrite, TextsKept, TextsUnique
  <2>2. ASSUME NEW o \in Operators, Add(o) \/ Remove(o) PROVE TextsKept'
    <3>1. PICK c \in Order : Edit(o, c, Applied(object, c))
      BY <2>2, EditStep
    <3>2. TextsUnique(Applied(object, c))
      BY AppliedTexts DEF TypeOK, TextsKept
    <3> QED
      BY <3>1, <3>2 DEF Edit, TypeOK, TextsKept, TextsUnique
  <2>3. ASSUME NEW o \in Operators, Save(o) \/ SaveRefused(o) \/ SaveFails(o)
        PROVE  TextsKept'
    <3>1. TextsUnique(object')
      BY <2>3, SaveStep DEF TextsKept, TextsUnique
    <3>2. \A p \in Operators : draft'[p] = draft[p] \/ draft'[p] = {}
      BY <2>3, SaveStep DEF Finish, TypeOK
    <3> QED
      BY <3>1, <3>2 DEF TextsKept, TextsUnique
  <2>4. CASE UNCHANGED vars
    BY <2>4 DEF vars, cliVars, TextsKept, TextsUnique
  <2> QED
    BY <2>1, <2>2, <2>3, <2>4 DEF Next, OperatorStep
<1> QED
  BY <1>1, <1>2, Typing, PTL DEF Spec

\* Validate refuses what a command makes of a config exactly if the command or
\* the config is at fault.
LEMMA ValidUnlessFaulty ==
    ASSUME NEW config \in SUBSET Mapping, TextsUnique(config), NEW c \in Order
    PROVE  Validate(Applied(config, c)) <=> ~Faulty(config, c)
<1>1. CASE c.command # "add"
  BY <1>1 DEF Applied, Without, Faulty
<1>2. CASE c.command = "add"
  <2> DEFINE h == c.host
             t == c.target
             own == On(config, h)
             rest == config \ own
             X == IF own = {} THEN {h} ELSE {m.host : m \in own}
             N == {[host |-> x, target |-> t] : x \in X}
             applied == rest \cup N
  <2>1. \A x \in X : NormalizeHost(x) = h
    BY <1>2, CliAssumption DEF CliAssumption, On, Order
  <2>2. Applied(config, c) = applied
    BY <1>2 DEF Applied, Upsert
  <2>3. X # {}
    OBVIOUS
  <2>4. \A m, n \in own : m.host = n.host => m = n
    BY DEF On, TextsUnique
  <2>5. \A m \in rest : NormalizeHost(m.host) # h
    BY DEF On
  <2>6. \A m \in own : NormalizeHost(m.host) = h
    BY DEF On
  <2>7. (\A x, y \in X : x = y) <=> HostsUnique(own)
    BY <2>4, <2>6 DEF HostsUnique
  <2> HIDE DEF X, own, rest
  <2> HIDE DEF h, t
  <2>8. /\ \A m \in N : NormalizeHost(m.host) = h /\ m.target = t
        /\ N # {}
        /\ (\A m, n \in N : m = n) <=> \A x, y \in X : x = y
    <3> DEFINE entry(x) == [host |-> x, target |-> t]
    <3>1. \A x \in X : entry(x).host = x /\ entry(x).target = t /\ entry(x) \in N
      OBVIOUS
    <3>2. \A m \in N : \E x \in X : m = entry(x)
      OBVIOUS
    <3> HIDE DEF N, entry
    <3>3. \A m \in N : NormalizeHost(m.host) = h /\ m.target = t
      BY <2>1, <3>1, <3>2
    <3>4. N # {}
      BY <2>3, <3>1
    <3>5. (\A m, n \in N : m = n) <=> \A x, y \in X : x = y
      BY <3>1, <3>2
    <3> QED
      BY <3>3, <3>4, <3>5
  <2> HIDE DEF N
  <2>9. HostsUnique(applied) <=> HostsUnique(rest) /\ \A m, n \in N : m = n
    BY <2>5, <2>8 DEF HostsUnique
  <2>10. (\A m \in applied : NormalizeHost(m.host) \notin Dotless /\ m.target \notin Loose)
           <=> /\ \A m \in rest : NormalizeHost(m.host) \notin Dotless /\ m.target \notin Loose
               /\ h \notin Dotless /\ t \notin Loose
    BY <2>8
  <2> HIDE DEF applied
  <2>11. Validate(applied) <=>
           Validate(rest) /\ h \notin Dotless /\ t \notin Loose /\ HostsUnique(own)
    BY <2>7, <2>8, <2>9, <2>10 DEF Validate
  <2> QED
    BY <1>2, <2>2, <2>11 DEF Faulty, h, t, own, rest
<1> QED
  BY <1>1, <1>2

\* A command whose load is current is refused only if the command or the object
\* is at fault, and takes effect only if neither is.
THEOREM Refusals == Spec => RefusedWhenFaulty
<1>1. TypeOK /\ DraftCurrent /\ TextsKept /\ [Next]_vars =>
        [\A o \in Operators \ overtaken, c \in Order :
            c \in order[o] =>
                /\ SaveRefused(o) => Faulty(object, c)
                /\ Writes(o) /\ object' # object => ~Faulty(object, c)]_vars
  <2> SUFFICES ASSUME TypeOK, DraftCurrent, TextsKept, [Next]_vars,
                      NEW o \in Operators \ overtaken, NEW c \in Order, c \in order[o]
               PROVE  /\ SaveRefused(o) => Faulty(object, c)
                      /\ Writes(o) /\ object' # object => ~Faulty(object, c)
    OBVIOUS
  <2>1. stage[o] = "save" => draft[o] = Applied(object, c)
    BY DEF DraftCurrent
  <2>2. Validate(Applied(object, c)) <=> ~Faulty(object, c)
    BY ValidUnlessFaulty DEF TypeOK, TextsKept
  <2>3. SaveRefused(o) => Faulty(object, c)
    BY <2>1, <2>2 DEF SaveRefused
  <2>4. Writes(o) /\ object' # object => ~Faulty(object, c)
    BY <2>1, <2>2, WhoWrites, SaveStep DEF Writes
  <2> QED
    BY <2>3, <2>4
<1> QED
  BY <1>1, Currency, Texting, PTL DEF Spec, RefusedWhenFaulty

-----------------------------------------------------------------------------
(***************************************************************************)
(* FileStore                                                               *)
(***************************************************************************)

-----------------------------------------------------------------------------
(* The refinement: every step is a step of Cli or a stutter                  *)

\* Every step is one of Cli, or leaves all of Cli's variables alone.
LEMMA FileStepMaps ==
    ASSUME FileOK, [FNext]_fvars
    PROVE  [Next]_vars
<1>1. CASE Next \/ UNCHANGED fvars
  BY <1>1 DEF fvars
<1>2. ASSUME NEW o \in Operators, FileStep(o) PROVE [Next]_vars
  <2>1. CASE Command(o) \/ Invalid(o)
    BY <2>1 DEF Command, Invalid, Next, OperatorStep
  <2>2. CASE WriteTemp(o) \/ CloseTemp(o)
    BY <2>2 DEF WriteTemp, CloseTemp
  <2>3. CASE Rename(o)
    <3>1. Save(o)
      BY <2>3 DEF Rename, Save, FileOK
    <3> QED
      BY <3>1 DEF Next, OperatorStep
  <2>4. CASE SaveStops(o)
    <3>1. SaveFails(o)
      BY <2>4 DEF SaveStops, SaveFails
    <3> QED
      BY <3>1 DEF Next, OperatorStep
  <2> QED
    BY <1>2, <2>1, <2>2, <2>3, <2>4 DEF FileStep
<1>3. ASSUME NEW x \in Exports, ExportStep(x) PROVE [Next]_vars
  <2>1. CASE FillStops(x) \/ EndAdrift(x)
    BY <2>1 DEF FillStops, EndAdrift
  <2>2. CASE OpenFile(x) \/ FillPart(x) \/ FillAll(x) \/ FillOver(x)
    <3>1. object' \in Exported
      BY <2>2 DEF OpenFile, FillPart, FillAll, FillOver, Exported, HostsUnique
    <3> QED
      BY <2>2, <3>1 DEF OpenFile, FillPart, FillAll, FillOver, Web, WebWrite, Next
  <2> QED
    BY <1>3, <2>1, <2>2 DEF ExportStep
<1> QED
  BY <1>1, <1>2, <1>3 DEF FNext
-----------------------------------------------------------------------------
(***************************************************************************)
(* The inductive invariant: types, the temporary files that only commands  *)
(* on a file have, and the file itself.                                    *)
(***************************************************************************)

\* A command on the bucket has no temporary file.
BucketUntouched == ~local => \A o \in Operators : temp[o] = "none"

FInv == TypeOK /\ FileOK /\ BucketUntouched /\ SettledFile

\* On the bucket the file's variables stay, and no temporary file is left over.
LEMMA BucketStep ==
    ASSUME FInv, TypeOK', ~local, Next, UNCHANGED fileVars
    PROVE  FInv'
BY DEF FInv, FileOK, BucketUntouched, SettledFile, fileVars

\* A command's step: its temporary file exists while it is in its Save, and the
\* file changes by a rename only.
LEMMA CommandStep ==
    ASSUME FInv, TypeOK', local, NEW o \in Operators, FileStep(o)
    PROVE  FInv'
<1> USE DEF FInv, FileOK, BucketUntouched, SettledFile
<1>1. CASE Command(o)
  <2>1. /\ stage[o] = "idle" /\ UNCHANGED <<object, fileVars>>
        /\ \E config : draft' = [draft EXCEPT ![o] = config]
        /\ stage' = [stage EXCEPT ![o] = "save"]
    BY <1>1 DEF Command, Add, Remove, Edit
  <2> QED
    BY <2>1 DEF TypeOK, fileVars
<1>2. CASE Invalid(o)
  <2>1. /\ ~Validate(draft[o]) /\ UNCHANGED <<object, fileVars>>
        /\ Finish(o)
    BY <1>2 DEF Invalid, SaveRefused
  <2> QED
    BY <2>1 DEF TypeOK, fileVars, Finish
<1>3. CASE WriteTemp(o) \/ CloseTemp(o)
  BY <1>3 DEF WriteTemp, CloseTemp, vars, cliVars
<1>4. CASE Rename(o)
  BY <1>4 DEF Rename, TypeOK, Finish
<1>5. CASE SaveStops(o)
  BY <1>5 DEF SaveStops, TypeOK, Finish
<1> QED
  BY <1>1, <1>2, <1>3, <1>4, <1>5 DEF FileStep

\* A step of an export: while it has the file open nothing is promised, and it
\* leaves the file whole, or spoilt, or has lost it to a rename.
LEMMA ExportKeeps ==
    ASSUME FInv, TypeOK', local, NEW x \in Exports, ExportStep(x)
    PROVE  FInv'
<1> USE DEF FInv, FileOK, BucketUntouched, SettledFile
<1>1. CASE OpenFile(x)
  BY <1>1 DEF OpenFile, Web
<1>2. CASE FillPart(x)
  BY <1>2 DEF FillPart, Web
<1>3. CASE FillAll(x) \/ FillOver(x)
  <2>1. object' \in SUBSET Mapping
    BY DEF TypeOK
  <2> QED
    BY <1>3, <2>1 DEF FillAll, FillOver, Web
<1>4. CASE FillStops(x) \/ EndAdrift(x)
  BY <1>4 DEF FillStops, EndAdrift, vars, cliVars
<1> QED
  BY <1>1, <1>2, <1>3, <1>4 DEF ExportStep

\* The invariant holds in every behaviour.
THEOREM FileInvariance == FSpec => []FInv
<1>1. FInit => FInv
  BY CliAssumption DEF CliAssumption, FInit, Init, FInv, TypeOK, Mapping, FileOK,
     BucketUntouched, SettledFile
<1>2. FInv /\ [FNext]_fvars => FInv'
  <2> SUFFICES ASSUME FInv, [FNext]_fvars PROVE FInv'
    OBVIOUS
  <2>1. TypeOK'
    BY FileStepMaps, TypeStep DEF FInv
  <2>2. CASE UNCHANGED fvars
    BY <2>1, <2>2 DEF fvars, vars, cliVars, fileVars, FInv, FileOK, BucketUntouched,
       SettledFile
  <2> QED
    BY <2>1, <2>2, BucketStep, CommandStep, ExportKeeps DEF FNext
<1> QED
  BY <1>1, <1>2, PTL DEF FSpec

-----------------------------------------------------------------------------
\* On either store a command validates what it saves, and a save takes effect in
\* one step or not at all: what is proved of Cli holds of both stores.
THEOREM StoreImplements == FSpec => ImplementsCli
<1>1. FInit => Init
  BY DEF FInit
<1>2. FInv /\ [FNext]_fvars => [Next]_vars
  BY FileStepMaps DEF FInv
<1> QED
  BY <1>1, <1>2, FileInvariance, PTL DEF FSpec, ImplementsCli, Spec

\* With no export under way or spoilt, a Load of the file returns the config last
\* saved in full, wherever a Save or a command was interrupted.
THEOREM Settled == FSpec => []SettledFile
<1>1. FInv => SettledFile
  BY DEF FInv
<1> QED
  BY <1>1, FileInvariance, PTL

\* Every variable keeps its type; only a validated draft has a temporary file.
THEOREM FileTyping == FSpec => []FileOK
<1>1. FInv => FileOK
  BY DEF FInv
<1> QED
  BY <1>1, FileInvariance, PTL

\* On a file too, a command whose load was not overtaken changes its own host only.
THEOREM FileOwnHost == FSpec => EditsOwnHost
BY StoreImplements, OwnHost, PTL DEF ImplementsCli

\* And is refused for the same reasons.
THEOREM FileRefusals == FSpec => RefusedWhenFaulty
BY StoreImplements, Refusals, PTL DEF ImplementsCli
=============================================================================
