--------------------------- MODULE StartupProofs ---------------------------
(***************************************************************************)
(* Theorems about the start of the process, for any number of migrations   *)
(* and of faults.                                                          *)
(***************************************************************************)
EXTENDS Startup, FiniteSetTheorems, TLAPS

(* The inductive invariant behind the safety properties.                   *)

DirtyIsNumbered == dirty => version \in Versions

\* A statement is in hand only between the two writes of the table.
InHand ==
  /\ boot \in {"run", "clean"} => dirty
  /\ boot = "run" => version \notin applied

\* Skipped, counting a migration as soon as nobody has it in hand.
Lost ==
  {v \in Missing : Requires[v] \subseteq applied /\ ~(boot = "run" /\ v = version)}

StartupInv ==
  /\ TypeOK /\ DirtyIsNumbered /\ InHand
  /\ applied \subseteq 1..version
  /\ Cardinality(Lost) <= faults

-----------------------------------------------------------------------------
LEMMA LostIsFinite ==
  ASSUME TypeOK
  PROVE  IsFiniteSet(Lost) /\ Cardinality(Lost) \in Nat
  <1>1. IsFiniteSet(1..version)
    BY StartupAssumption, FS_Interval DEF TypeOK
  <1>2. Lost \subseteq 1..version
    BY DEF Lost, Missing
  <1> QED BY <1>1, <1>2, FS_Subset, FS_CardinalityType

\* Nothing new is lost.
LEMMA NoLoss ==
  ASSUME StartupInv, TypeOK', Lost' \subseteq Lost, faults <= faults'
  PROVE  (Cardinality(Lost) <= faults)'
  <1>1. Cardinality(Lost') <= Cardinality(Lost)
    BY LostIsFinite, FS_Subset DEF StartupInv
  <1>2. Cardinality(Lost) \in Nat /\ Cardinality(Lost') \in Nat
    BY LostIsFinite, FS_Subset, FS_CardinalityType DEF StartupInv
  <1> QED BY <1>1, <1>2 DEF StartupInv, TypeOK

\* One fault loses at most the migration that was in hand.
LEMMA OneLoss ==
  ASSUME StartupInv, TypeOK', Lost' \subseteq Lost \cup {version}, faults' = faults + 1
  PROVE  (Cardinality(Lost) <= faults)'
  <1>1. IsFiniteSet(Lost) /\ Cardinality(Lost) \in Nat
    BY LostIsFinite DEF StartupInv
  <1>2. /\ IsFiniteSet(Lost \cup {version})
        /\ Cardinality(Lost \cup {version}) \in Nat
        /\ Cardinality(Lost \cup {version}) <= Cardinality(Lost) + 1
    <2>1. CASE version \in Lost
      <3>1. Lost \cup {version} = Lost
        BY <2>1
      <3> QED BY <1>1, <3>1
    <2>2. CASE version \notin Lost
      BY <1>1, <2>2, FS_AddElement
    <2> QED BY <2>1, <2>2
  <1>3. Cardinality(Lost') <= Cardinality(Lost \cup {version}) /\ Cardinality(Lost') \in Nat
    BY <1>2, FS_Subset, FS_CardinalityType
  <1> QED BY <1>1, <1>2, <1>3 DEF StartupInv, TypeOK

LEMMA StartupInit == Init => StartupInv
  <1> SUFFICES ASSUME Init PROVE StartupInv
    OBVIOUS
  <1>1. applied = {} /\ version = 0 /\ dirty = FALSE /\ boot = "off" /\ faults = 0
    BY DEF Init
  <1>2. TypeOK
    <2>1. dirty \in BOOLEAN
      BY <1>1
    <2>2. applied \subseteq Versions /\ boot \in BootSteps \cup {"off", "failed", "serving"}
      BY <1>1
    <2>3. version \in 0..NumMigrations /\ faults \in Nat
      BY <1>1, StartupAssumption
    <2> QED BY <2>1, <2>2, <2>3 DEF TypeOK
  <1>3. DirtyIsNumbered /\ InHand /\ applied \subseteq 1..version
    BY <1>1 DEF DirtyIsNumbered, InHand
  <1>4. Lost = {}
    BY <1>1 DEF Lost, Missing
  <1>5. Cardinality(Lost) = 0
    BY <1>4, FS_EmptySet
  <1> QED BY <1>1, <1>2, <1>3, <1>5 DEF StartupInv

LEMMA StartupStep == StartupInv /\ [Next]_vars => StartupInv'
  <1> SUFFICES ASSUME StartupInv, [Next]_vars PROVE StartupInv'
    OBVIOUS
  <1> USE StartupAssumption DEF StartupInv
  <1>1. ASSUME boot # "run", boot' \notin {"run", "clean"},
               UNCHANGED <<applied, version>>, dirty' = FALSE \/ dirty' = dirty,
               boot' \in BootSteps \cup {"off", "failed", "serving"},
               faults' = faults \/ faults' = faults + 1
        PROVE  StartupInv'
    <2>1. TypeOK'
      <3>1. dirty' \in BOOLEAN
        BY <1>1 DEF TypeOK
      <3>2. /\ applied' \subseteq Versions /\ version' \in 0..NumMigrations
            /\ faults' \in Nat
        BY <1>1 DEF TypeOK
      <3> QED BY <1>1, <3>1, <3>2 DEF TypeOK
    <2>2. DirtyIsNumbered' /\ InHand' /\ (applied \subseteq 1..version)'
      BY <1>1 DEF DirtyIsNumbered, InHand
    <2>3. Lost' \subseteq Lost
      BY <1>1 DEF Lost, Missing
    <2>4. faults <= faults'
      BY <1>1 DEF TypeOK
    <2> QED BY <2>1, <2>2, <2>3, <2>4, NoLoss
  <1>2. CASE Start \/ Restart \/ Connect \/ MarkClean \/ ForceVersion \/ Shutdown
    BY <1>1, <1>2
    DEF Start, Restart, Connect, MarkClean, ForceVersion, Shutdown, dbVars, Fault, BootSteps
  <1>3. CASE Up
    <2>1. CASE boot = "up" /\ MarkNext /\ ~dirty
      <3>1. TypeOK' /\ DirtyIsNumbered' /\ InHand' /\ (applied \subseteq 1..version)'
        BY <2>1 DEF MarkNext, TypeOK, DirtyIsNumbered, InHand, BootSteps, Versions
      <3>2. Lost' \subseteq Lost
        <4>1. SUFFICES ASSUME NEW v \in Lost' PROVE v \in Lost
          OBVIOUS
        <4>2. v \in 1..version
          BY <2>1 DEF Lost, Missing, MarkNext, TypeOK
        <4> QED BY <2>1, <4>2 DEF Lost, Missing, MarkNext
      <3> QED BY <2>1, <3>1, <3>2, NoLoss DEF MarkNext, TypeOK
    <2>2. CASE /\ boot = "up" /\ boot' \in {"serving", "force"}
               /\ UNCHANGED <<dbVars, faults>>
      BY <1>1, <2>2 DEF dbVars, BootSteps
    <2> QED BY <1>3, <2>1, <2>2 DEF Up
  <1>4. CASE RunStatement
    <2>1. /\ boot = "run" /\ dirty /\ version \in Versions /\ version \notin applied
          /\ UNCHANGED <<version, dirty>>
      BY <1>4 DEF RunStatement, InHand, DirtyIsNumbered
    <2>2. CASE Requires[version] \subseteq applied /\ applied' = applied \cup {version}
               /\ boot' = "clean" /\ UNCHANGED faults
      <3>1. TypeOK' /\ DirtyIsNumbered' /\ InHand' /\ (applied \subseteq 1..version)'
        BY <2>1, <2>2 DEF TypeOK, DirtyIsNumbered, InHand, BootSteps, Versions
      <3>2. Lost' \subseteq Lost
        <4>1. SUFFICES ASSUME NEW v \in Lost' PROVE v \in Lost
          OBVIOUS
        <4>2. v \in 1..version /\ v \notin applied /\ v # version /\ v \in Versions
          BY <2>1, <2>2 DEF Lost, Missing, Versions
        <4>3. version \notin Requires[v]
          BY <2>1, <4>2 DEF Versions
        <4>4. Requires[v] \subseteq applied
          BY <2>2, <4>3 DEF Lost
        <4> QED BY <4>2, <4>4 DEF Lost, Missing
      <3> QED BY <2>2, <3>1, <3>2, NoLoss DEF TypeOK
    <2>3. CASE ~(Requires[version] \subseteq applied) /\ boot' = "failed"
               /\ UNCHANGED <<applied, faults>>
      <3>1. TypeOK' /\ DirtyIsNumbered' /\ InHand' /\ (applied \subseteq 1..version)'
        BY <2>1, <2>3 DEF TypeOK, DirtyIsNumbered, InHand
      <3>2. Lost' \subseteq Lost
        BY <2>1, <2>3 DEF Lost, Missing
      <3> QED BY <2>3, <3>1, <3>2, NoLoss DEF TypeOK
    <2>4. CASE Fault /\ boot' = "failed" /\ UNCHANGED applied
      <3>1. TypeOK' /\ DirtyIsNumbered' /\ InHand' /\ (applied \subseteq 1..version)'
        BY <2>1, <2>4 DEF TypeOK, DirtyIsNumbered, InHand, Fault
      <3>2. Lost' \subseteq Lost \cup {version}
        BY <2>1, <2>4 DEF Lost, Missing
      <3> QED BY <2>4, <3>1, <3>2, OneLoss DEF Fault
    <2> QED BY <1>4, <2>2, <2>3, <2>4 DEF RunStatement
  <1>5. CASE Crash
    <2>1. TypeOK' /\ DirtyIsNumbered' /\ InHand' /\ (applied \subseteq 1..version)'
      BY <1>5 DEF Crash, Fault, dbVars, TypeOK, DirtyIsNumbered, InHand
    <2>2. Lost' \subseteq Lost \cup {version}
      BY <1>5 DEF Crash, dbVars, Lost, Missing
    <2> QED BY <1>5, <2>1, <2>2, OneLoss DEF Crash, Fault
  <1>6. CASE UNCHANGED vars
    BY <1>6 DEF vars, TypeOK, DirtyIsNumbered, InHand, Lost, Missing
  <1> QED BY <1>2, <1>3, <1>4, <1>5, <1>6 DEF Next, BootStep

THEOREM StartupInvariant == Spec => []StartupInv
  BY StartupInit, StartupStep, PTL DEF Spec

-----------------------------------------------------------------------------

(* The migration table and the schema are well typed in every state.        *)
THEOREM StartupTypeCorrect == Spec => []TypeOK
  <1>1. StartupInv => TypeOK
    BY DEF StartupInv
  <1> QED BY <1>1, StartupInvariant, PTL

(* No statement is run on a schema that has had it.                         *)
THEOREM RunsOnce == Spec => NothingRunsTwice
  <1>1. StartupInv => (boot = "run" /\ boot' = "clean" => version \notin applied)
    BY DEF StartupInv, InHand
  <1> QED BY <1>1, StartupInvariant, PTL DEF NothingRunsTwice

\* What the invariant says of the migrations that were skipped.
LEMMA FewSkipped == StartupInv => SkippedOnlyByFaults
  <1> SUFFICES ASSUME StartupInv PROVE SkippedOnlyByFaults
    OBVIOUS
  <1>1. Skipped \subseteq Lost
    BY DEF StartupInv, InHand, Skipped, Lost
  <1>2. /\ Cardinality(Skipped) <= Cardinality(Lost)
        /\ Cardinality(Skipped) \in Nat /\ Cardinality(Lost) \in Nat
    BY <1>1, LostIsFinite, FS_Subset, FS_CardinalityType DEF StartupInv
  <1> QED BY <1>2 DEF StartupInv, TypeOK, SkippedOnlyByFaults

(* At most one migration is skipped per crash or failing statement.         *)
THEOREM SkippedByFaults == Spec => []SkippedOnlyByFaults
  BY FewSkipped, StartupInvariant, PTL

-----------------------------------------------------------------------------

\* Without a fault every migration up to the version is there, but for the one
\* in hand, and the table is dirty only while one is.
Orderly ==
  faults = 0 =>
    /\ \A v \in 1..version : v \in applied \/ (boot = "run" /\ v = version)
    /\ dirty => boot \in {"run", "clean"}
    /\ boot \notin {"failed", "force"}
    /\ boot = "serving" => version = NumMigrations

LEMMA OrderlyStep == StartupInv /\ Orderly /\ [Next]_vars => Orderly'
  <1> SUFFICES ASSUME StartupInv, Orderly, [Next]_vars, faults' = 0
               PROVE  /\ (\A v \in 1..version : v \in applied \/ (boot = "run" /\ v = version))'
                      /\ (dirty => boot \in {"run", "clean"})'
                      /\ (boot \notin {"failed", "force"})'
                      /\ (boot = "serving" => version = NumMigrations)'
    BY DEF Orderly
  <1>0. TypeOK /\ ~Fault
    BY DEF StartupInv, TypeOK, Fault
  <1>1. faults = 0
    BY <1>0 DEF Next, Start, BootStep, Restart, Connect, Up, MarkNext, RunStatement, MarkClean,
                ForceVersion, Shutdown, Crash, vars
  <1>2. CASE Up
    BY <1>0, <1>1, <1>2 DEF Up, MarkNext, Orderly, dbVars, TypeOK
  <1>3. CASE RunStatement
    <2>1. boot = "run" /\ version \in Versions /\ UNCHANGED <<version, dirty>>
      BY <1>3 DEF RunStatement, StartupInv, InHand, DirtyIsNumbered
    <2>2. Requires[version] \subseteq applied
      <3>1. \A u \in Requires[version] : u \in Versions /\ u < version
        BY <2>1, StartupAssumption
      <3>2. \A u \in Requires[version] : u \in 1..version /\ u # version
        BY <2>1, <3>1 DEF Versions
      <3> QED BY <1>1, <3>2 DEF Orderly
    <2>3. applied' = applied \cup {version} /\ boot' = "clean"
      BY <1>0, <1>3, <2>2 DEF RunStatement
    <2> QED BY <1>1, <2>1, <2>3 DEF Orderly
  <1>4. CASE Start \/ Connect \/ MarkClean \/ Shutdown
    BY <1>0, <1>1, <1>4 DEF Start, Connect, MarkClean, Shutdown, dbVars, Orderly
  <1>5. ~(Restart \/ ForceVersion \/ Crash)
    BY <1>0, <1>1 DEF Restart, ForceVersion, Crash, Orderly
  <1>6. CASE UNCHANGED vars
    BY <1>1, <1>6 DEF vars, Orderly
  <1> QED BY <1>2, <1>3, <1>4, <1>5, <1>6 DEF Next, BootStep

(* A process that nothing has disturbed since the database was empty serves *)
(* with the whole schema: the statements are in an order in which each      *)
(* finds the tables it alters, and only a crash or an error makes Force     *)
(* pass over one.                                                           *)
THEOREM UndisturbedServesWhole == Spec => [](faults = 0 => ServesWholeSchema)
  <1>1. Init => Orderly
    BY DEF Init, Orderly
  <1>2. StartupInv /\ Orderly => (faults = 0 => ServesWholeSchema)
    BY DEF Orderly, StartupInv, TypeOK, ServesWholeSchema, Versions
  <1> QED BY <1>1, <1>2, OrderlyStep, StartupInit, StartupStep, PTL DEF Spec
=============================================================================
