---------------------------- MODULE ConfigProofs ----------------------------
(****************************************************************************)
(* What becomes of a configuration file, proved for any number of commands  *)
(* and entries.                                                             *)
(****************************************************************************)
EXTENDS ConfigFile, TLAPS

\* What w makes of the map m.
With(m, w) == [m EXCEPT ![KeyOf[w]] = ValueOf[w]]

Types ==
    /\ TypeOK
    /\ \A w \in Writer : fd[w] = NoInode <=> pc[w] # "write"
    /\ \A w \in Writer : pc[w] = "look" => w \in Autos

\* What w knows of the file and the temporary file when it runs alone.
Knows(w) ==
    /\ pc[w] \in {"open", "write"} => mine[w] = With(data[file], w)
    /\ pc[w] = "write" => fd[w] = tmp /\ data[tmp] = Empty
    /\ pc[w] = "rename" /\ tmp # NoInode => tmp \notin torn /\ data[tmp] = With(data[file], w)
    /\ w \in Autos /\ pc[w] \in {"read", "open", "write", "rename"} => data[file][KeyOf[w]] = NoVal

\* A command that runs alone finds the file whole, and the temporary file is its own.
AloneOk ==
    ~overlapped =>
        /\ file \notin torn
        /\ \A v, w \in Writer : Running(v) /\ Running(w) => v = w
        /\ \A w \in Writer : Knows(w)

\* A writer's whole map is in the inode, or will be: a writer has it open.
Fresh(n) ==
    \/ \E w \in Writer : data[n] = mine[w] /\ mine[w][KeyOf[w]] = ValueOf[w]
    \/ \E w \in Writer : fd[w] = n

\* Without failures nothing but fresh inodes is renamed, whoever writes them.
Prevailing ==
    /\ \A w \in Writer : pc[w] \in {"open", "write"} => mine[w][KeyOf[w]] = ValueOf[w]
    /\ \A w \in Writer : pc[w] \in {"new", "look", "read"} => mine[w][KeyOf[w]] = NoVal
    /\ faults = 0 /\ tmp # NoInode => Fresh(tmp)
    /\ faults = 0 /\ (\E w \in Setters : pc[w] = "done") => Fresh(file)

Inv == Types /\ AloneOk /\ Prevailing

USE Assumptions
USE DEF Inv, Types, TypeOK, AloneOk, Prevailing, Fresh, With, Map, Writer, Ended, Running, Disk, Goto

\* No command has begun, and the file holds the map it starts with.
LEMMA InitInv == Init => Inv
<1> SUFFICES ASSUME Init PROVE Inv
  OBVIOUS
<1>1. Empty \in Map /\ data \in [Inode -> Map]
  BY DEF Init, Empty
<1>2. Types
  <2>1. mine \in [Writer -> Map] /\ fd \in [Writer -> Inode \cup {NoInode}]
    BY <1>1 DEF Init
  <2>2. pc \in [Writer -> {"new", "look", "read", "open", "write", "rename", "remove"} \cup Ended]
    BY DEF Init
  <2>3. /\ file \in Inode /\ tmp = NoInode /\ torn = {} /\ overlapped = FALSE /\ faults \in 0..MaxFaults
        /\ \A w \in Writer : fd[w] = NoInode /\ pc[w] = "new"
    BY DEF Init
  <2> QED
    BY <1>1, <2>1, <2>2, <2>3
<1>3. AloneOk
  BY <1>2 DEF Init, Knows
<1>4. \A w \in Writer : mine[w][KeyOf[w]] = NoVal
  BY DEF Init, Empty
<1>5. Prevailing
  BY <1>4 DEF Init
<1> QED
  BY <1>2, <1>3, <1>5

\* A step of a command that runs alone concerns nobody else.
LEMMA AloneStep == ASSUME NEW w \in Writer, Inv, NEW where, Running(w), Goto(w, where), UNCHANGED overlapped,
                          ~overlapped => file' \notin torn' /\ Knows(w)'
                   PROVE  AloneOk'
<1> SUFFICES ASSUME ~overlapped PROVE AloneOk'
  OBVIOUS
<1>1. \A v \in Writer : v # w => pc'[v] = pc[v] /\ pc[v] \in {"new"} \cup Ended
  OBVIOUS
<1>2. \A v \in Writer : Knows(v)'
  BY <1>1 DEF Knows
<1> QED
  BY <1>1, <1>2

\* A command goes on, whatever the others have done to the two names.
LEMMA StepInv == ASSUME NEW w \in Writer, Inv,
                        Begin(w) \/ Look(w) \/ Read(w) \/ Open(w) \/ Write(w) \/ WriteFails(w)
                        \/ Rename(w) \/ Remove(w) \/ Die(w)
                 PROVE  Inv'
<1>1. CASE Begin(w)
  <2>1. Types'
    BY <1>1 DEF Begin
  <2>2. AloneOk'
    BY <1>1 DEF Begin, Knows
  <2>3. Prevailing'
    BY <1>1 DEF Begin
  <2> QED
    BY <2>1, <2>2, <2>3
<1>2. CASE Look(w)
  <2>1. Types'
    <3>1. pc' \in [Writer -> {"new", "look", "read", "open", "write", "rename", "remove"} \cup Ended]
      BY <1>2 DEF Look
    <3> QED
      BY <1>2, <3>1 DEF Look
  <2>2. AloneOk'
    <3>1. ~overlapped => file' \notin torn' /\ Knows(w)'
      BY <1>2 DEF Look, Knows
    <3>2. \E where : Goto(w, where)
      BY <1>2 DEF Look
    <3> QED
      BY <1>2, <3>1, <3>2, AloneStep DEF Look
  <2>3. Prevailing'
    BY <1>2 DEF Look
  <2> QED
    BY <2>1, <2>2, <2>3
<1>3. CASE Read(w)
  <2>1. Types'
    <3>1. With(data[file], w) \in Map
      OBVIOUS
    <3> QED
      <4>1. mine' \in [Writer -> Map]
        <5>1. mine' = [mine EXCEPT ![w] = With(data[file], w)] \/ mine' = mine
          BY <1>3 DEF Read
        <5>2. mine \in [Writer -> Map]
          OBVIOUS
        <5> HIDE DEF Inv, With, Map, Writer
        <5> QED
          BY <3>1, <5>1, <5>2
      <4>2. pc' \in [Writer -> {"new", "look", "read", "open", "write", "rename", "remove"} \cup Ended]
        BY <1>3 DEF Read
      <4> QED
        BY <1>3, <4>1, <4>2 DEF Read
  <2>2. AloneOk'
    <3>1. ~overlapped => file' \notin torn' /\ Knows(w)'
      BY <1>3 DEF Read, Knows
    <3>2. \E where : Goto(w, where)
      BY <1>3 DEF Read
    <3> QED
      BY <1>3, <3>1, <3>2, AloneStep DEF Read
  <2>3. Prevailing'
    <3>1. mine[w][KeyOf[w]] = NoVal /\ pc[w] = "read"
      BY <1>3 DEF Read
    <3>2. /\ \A v \in Writer : v # w => mine'[v] = mine[v] /\ pc'[v] = pc[v]
          /\ UNCHANGED <<file, tmp, data, fd, faults>>
          /\ pc'[w] \in {"open", "failed"}
      BY <1>3 DEF Read
    <3>3. pc'[w] = "open" => mine'[w][KeyOf[w]] = ValueOf[w]
      BY <1>3 DEF Read
    <3>4. \A n \in Inode : Fresh(n) => Fresh(n)'
      BY <3>1, <3>2
    <3>5. (\E v \in Setters : pc'[v] = "done") => \E v \in Setters : pc[v] = "done"
      BY <3>2
    <3> QED
      <4>1. \A v \in Writer : (pc'[v] \in {"open", "write"} => mine'[v][KeyOf[v]] = ValueOf[v])
                              /\ (pc'[v] \in {"new", "look", "read"} => mine'[v][KeyOf[v]] = NoVal)
        BY <3>2, <3>3
      <4>2. faults' = 0 /\ tmp' # NoInode => Fresh(tmp)'
        <5>1. faults = 0 /\ tmp # NoInode => tmp \in Inode /\ Fresh(tmp)
          OBVIOUS
        <5> HIDE DEF Fresh, Inv
        <5> QED
          BY <3>2, <3>4, <5>1
      <4>3. faults' = 0 /\ (\E v \in Setters : pc'[v] = "done") => Fresh(file)'
        <5>1. faults = 0 /\ (\E v \in Setters : pc[v] = "done") => file \in Inode /\ Fresh(file)
          OBVIOUS
        <5> HIDE DEF Fresh, Inv
        <5> QED
          BY <3>2, <3>4, <3>5, <5>1
      <4> QED
        BY <4>1, <4>2, <4>3
  <2> QED
    BY <2>1, <2>2, <2>3
<1>4. CASE Open(w)
  <2>1. Types'
    BY <1>4 DEF Open, Used, Empty
  <2>2. AloneOk'
    <3>1. ~overlapped => file' \notin torn' /\ Knows(w)'
      BY <1>4 DEF Open, Used, Empty, Knows
    <3>2. \E where : Goto(w, where)
      BY <1>4 DEF Open
    <3> QED
      BY <1>4, <3>1, <3>2, AloneStep DEF Open
  <2>3. Prevailing'
    BY <1>4 DEF Open, Used, Empty
  <2> QED
    BY <2>1, <2>2, <2>3
<1>5. CASE Write(w)
  <2>1. Types'
    BY <1>5 DEF Write
  <2>2. AloneOk'
    <3>1. ~overlapped => file' \notin torn' /\ Knows(w)'
      BY <1>5 DEF Write, Knows
    <3>2. \E where : Goto(w, where)
      BY <1>5 DEF Write
    <3> QED
      BY <1>5, <3>1, <3>2, AloneStep DEF Write
  <2>3. Prevailing'
    BY <1>5 DEF Write
  <2> QED
    BY <2>1, <2>2, <2>3
<1>6. CASE WriteFails(w)
  <2>1. Types'
    BY <1>6 DEF WriteFails
  <2>2. AloneOk'
    <3>1. ~overlapped => file' \notin torn' /\ Knows(w)'
      BY <1>6 DEF WriteFails, Knows
    <3>2. \E where : Goto(w, where)
      BY <1>6 DEF WriteFails
    <3> QED
      BY <1>6, <3>1, <3>2, AloneStep DEF WriteFails
  <2>3. Prevailing'
    BY <1>6 DEF WriteFails
  <2> QED
    BY <2>1, <2>2, <2>3
<1>7. CASE Rename(w)
  <2>1. Types'
    <3>1. pc' \in [Writer -> {"new", "look", "read", "open", "write", "rename", "remove"} \cup Ended]
      BY <1>7 DEF Rename
    <3>2. file' \in Inode /\ tmp' \in {tmp, NoInode} /\ (tmp' # NoInode => tmp' # file')
          /\ faults' \in 0..MaxFaults
      BY <1>7 DEF Rename
    <3> QED
      BY <1>7, <3>1, <3>2 DEF Rename
  <2>2. AloneOk'
    <3>1. ~overlapped => file' \notin torn' /\ Knows(w)'
      BY <1>7 DEF Rename, Knows
    <3>2. \E where : Goto(w, where)
      BY <1>7 DEF Rename
    <3> QED
      BY <1>7, <3>1, <3>2, AloneStep DEF Rename
  <2>3. Prevailing'
    BY <1>7 DEF Rename
  <2> QED
    BY <2>1, <2>2, <2>3
<1>8. CASE Remove(w)
  <2>1. Types'
    BY <1>8 DEF Remove
  <2>2. AloneOk'
    <3>1. ~overlapped => file' \notin torn' /\ Knows(w)'
      BY <1>8 DEF Remove, Knows
    <3>2. \E where : Goto(w, where)
      BY <1>8 DEF Remove
    <3> QED
      BY <1>8, <3>1, <3>2, AloneStep DEF Remove
  <2>3. Prevailing'
    BY <1>8 DEF Remove
  <2> QED
    BY <2>1, <2>2, <2>3
<1>9. CASE Die(w)
  <2>1. Types'
    BY <1>9 DEF Die
  <2>2. AloneOk'
    <3>1. ~overlapped => file' \notin torn' /\ Knows(w)'
      BY <1>9 DEF Die, Knows
    <3>2. \E where : Goto(w, where)
      BY <1>9 DEF Die
    <3> QED
      BY <1>9, <3>1, <3>2, AloneStep DEF Die
  <2>3. Prevailing'
    BY <1>9 DEF Die
  <2> QED
    BY <2>1, <2>2, <2>3
<1> QED
  BY <1>1, <1>2, <1>3, <1>4, <1>5, <1>6, <1>7, <1>8, <1>9

\* The abstract map changes when a command that runs alone renames; once commands
\* have overlapped it may become anything.
LEMMA MapStep == ASSUME Inv, Inv', Next PROVE [Shared!Next]_<<map, overlapped>>
<1> PICK w \in Writer :
      Begin(w) \/ Look(w) \/ Read(w) \/ Open(w) \/ Write(w) \/ WriteFails(w) \/ Rename(w) \/ Remove(w) \/ Die(w)
  BY DEF Next
<1>1. map' \in Map
  BY DEF map, Empty
<1>2. CASE Begin(w)
  <2>1. UNCHANGED map
    BY <1>2 DEF Begin, map
  <2> QED
    BY <1>2, <2>1 DEF Begin, Shared!Next, Shared!Overlap
<1>3. CASE ~Begin(w) /\ overlapped
  <2>1. UNCHANGED overlapped
    BY <1>3 DEF Look, Read, Open, Write, WriteFails, Rename, Remove, Die
  <2> QED
    BY <1>1, <1>3, <2>1 DEF Shared!Next, Shared!Disturb
<1>4. CASE Rename(w) /\ file' # file /\ ~overlapped
  <2>1. map = data[file] /\ map' = With(data[file], w)
    BY <1>4 DEF Rename, map, Knows
  <2> QED
    BY <1>4, <2>1 DEF Rename, Shared!Next, Shared!Set
<1>5. CASE ~Begin(w) /\ ~overlapped /\ ~(Rename(w) /\ file' # file)
  <2>1. UNCHANGED overlapped
    BY <1>5 DEF Look, Read, Open, Write, WriteFails, Rename, Remove, Die
  <2>2. CASE Write(w) \/ WriteFails(w)
    <3>1. fd[w] # file /\ file \notin torn /\ UNCHANGED file
      BY <1>5, <2>2 DEF Write, WriteFails, Knows
    <3>2. data'[file] = data[file] /\ file \notin torn'
      BY <2>2, <3>1 DEF Write, WriteFails
    <3> QED
      BY <2>1, <3>1, <3>2 DEF map
  <2>3. CASE Open(w)
    <3>1. UNCHANGED file /\ data'[file] = data[file] /\ file \notin torn'
      BY <1>5, <2>3 DEF Open, Used
    <3> QED
      BY <1>5, <2>1, <3>1 DEF map
  <2>4. CASE Look(w) \/ Read(w) \/ Rename(w) \/ Remove(w) \/ Die(w)
    <3>1. UNCHANGED <<file, data, torn>>
      BY <1>5, <2>4 DEF Look, Read, Rename, Remove, Die
    <3> QED
      BY <2>1, <3>1 DEF map
  <2> QED
    BY <1>5, <2>2, <2>3, <2>4
<1> QED
  BY <1>2, <1>3, <1>4, <1>5

HIDE DEF Inv

\* The inductive invariant holds in every behaviour.
THEOREM Inductive == Spec => []Inv
<1>1. Inv /\ [Next]_vars => Inv'
  <2>1. Inv /\ UNCHANGED vars => Inv'
    BY DEF Inv, Knows, vars
  <2> QED
    BY <2>1, StepInv DEF Next
<1> QED
  BY InitInv, <1>1, PTL DEF Spec

\* The file's name always leads to a file, whatever is renamed, removed or fails.  Of
\* any number of commands that overlap, and end with no failure, one prevails: the
\* text in the file begins with the whole map that it has written.
THEOREM Prevails == Spec => []WritersPrevail
<1>1. Inv => WritersPrevail
  BY DEF Inv, WritersPrevail, SomeonePrevails
<1> QED
  BY Inductive, <1>1, PTL

\* The automatic alias of a command that runs alone replaces no other one.
THEOREM OnlyAdds == Spec => AutoOnlyAdds
<1>1. Inv /\ [Next]_vars =>
       [\A w \in Autos : pc[w] = "rename" /\ pc'[w] = "done" /\ ~overlapped =>
          data[file][KeyOf[w]] \in {NoVal, ValueOf[w]}]_vars
  BY DEF Inv, Knows
<1> QED
  BY Inductive, <1>1, PTL DEF Spec, AutoOnlyAdds

\* While commands do not overlap the file is a map that each changes in one entry
\* and in one step, or, when it dies or the disk is full, not at all.
THEOREM MapImplemented == Spec => ImplementsAtomicMap
<1>1. Init => Shared!Init
  BY DEF Init, Shared!Init, map
<1>2. Inv /\ Inv' /\ [Next]_vars => [Shared!Next]_<<map, overlapped>>
  BY MapStep DEF vars, map
<1> QED
  BY <1>1, <1>2, Inductive, PTL DEF Spec, ImplementsAtomicMap, Shared!Spec
=============================================================================
