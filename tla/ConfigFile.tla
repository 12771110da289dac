----------------------------- MODULE ConfigFile -----------------------------
(***************************************************************************)
(* A file of the mote configuration directory, aliases.txt or password.txt *)
(* (mote/config.go), and the commands that change it: "mote alias" and     *)
(* "mote login" (setAlias, setPassword), and every mote command that adds  *)
(* the alias of the system it has reached (cmdRun in mote/client.go).      *)
(*                                                                         *)
(* The processes take no lock.  They read the file, write a new one under  *)
(* the one name aliases.txt.tmp, and rename it.  A name leads to an inode, *)
(* and a process that has opened an inode writes to it whatever its name   *)
(* is by then.                                                             *)
(***************************************************************************)
EXTENDS Integers, FiniteSets

CONSTANTS
    Setters,        \* processes that set an entry for their user
    Autos,          \* processes that add $GOOS-$GOARCH if it is not there
    Key, Value,
    KeyOf, ValueOf, \* the entry that each of them sets
    Initial,        \* the map in the file when the behaviour starts; a file that
                    \* is not there yet reads like an empty one
    NoVal,          \* no entry
    Inode, NoInode,
    MaxFaults       \* bound: processes that die, and writes that fail

Writer == Setters \cup Autos
Map == [Key -> Value \cup {NoVal}]

ASSUME Assumptions ==
    /\ Setters \cap Autos = {} /\ NoVal \notin Value /\ NoInode \notin Inode
    /\ KeyOf \in [Writer -> Key] /\ ValueOf \in [Writer -> Value]
    /\ Initial \in Map
    /\ MaxFaults \in Nat
    \* enough for the file, and one that each writer holds open
    /\ IsFiniteSet(Inode) /\ Cardinality(Inode) > Cardinality(Writer)

VARIABLES
    file, tmp,  \* the inodes that the two names lead to
    data,       \* data[i]: the entries written to inode i
    torn,       \* inodes with the end of an older, longer text behind it
    pc,         \* pc[w]: where w is
    mine,       \* mine[w]: the map w has read, then changed
    fd,         \* fd[w]: the inode it has open
    overlapped, \* history: a command has begun while another one ran
    faults

vars == <<file, tmp, data, torn, pc, mine, fd, overlapped, faults>>

Empty == [k \in Key |-> NoVal]

Ended == {"done", "failed", "died"}

TypeOK ==
    /\ file \in Inode /\ tmp \in Inode \cup {NoInode}
    /\ tmp # NoInode => tmp # file
    /\ data \in [Inode -> Map] /\ torn \subseteq Inode
    /\ pc \in [Writer -> {"new", "look", "read", "open", "write", "rename", "remove"} \cup Ended]
    /\ mine \in [Writer -> Map] /\ fd \in [Writer -> Inode \cup {NoInode}]
    /\ overlapped \in BOOLEAN /\ faults \in 0..MaxFaults

Init ==
    /\ \E i \in Inode :
        /\ file = i
        /\ data = [j \in Inode |-> IF j = i THEN Initial ELSE Empty]
    /\ tmp = NoInode /\ torn = {}
    /\ pc = [w \in Writer |-> "new"]
    /\ mine = [w \in Writer |-> Empty]
    /\ fd = [w \in Writer |-> NoInode]
    /\ overlapped = FALSE /\ faults = 0

-----------------------------------------------------------------------------
Goto(w, where) == pc' = [pc EXCEPT ![w] = where]
Used == {file, tmp} \cup {fd[w] : w \in Writer}
Disk == UNCHANGED <<file, tmp, data, torn>>
Running(w) == pc[w] \notin {"new"} \cup Ended

Begin(w) ==
    /\ pc[w] = "new" /\ Goto(w, IF w \in Autos THEN "look" ELSE "read")
    /\ overlapped' = (overlapped \/ \E v \in Writer : Running(v))
    /\ UNCHANGED <<mine, fd, faults>> /\ Disk

\* Mutant of Look: the alias is set whether it is there or not.
LookAlways(w) ==
    /\ pc[w] = "look" /\ Goto(w, "read")
    /\ UNCHANGED <<mine, fd, faults, overlapped>> /\ Disk

\* lookupAlias of cmdRun: go on if there is no alias, and no error.  A torn
\* file is an error when a line of it is malformed.
Look(w) ==
    /\ pc[w] = "look"
    /\ \/ data[file][KeyOf[w]] = NoVal /\ Goto(w, "read")
       \/ data[file][KeyOf[w]] # NoVal /\ Goto(w, "done")
       \/ file \in torn /\ Goto(w, "done")
    /\ UNCHANGED <<mine, fd, faults, overlapped>> /\ Disk

\* Mutant of Read: the entry is not changed in the map.
ReadOnly(w) ==
    /\ pc[w] = "read"
    /\ mine' = [mine EXCEPT ![w] = data[file]] /\ Goto(w, "open")
    /\ UNCHANGED <<fd, faults, overlapped>> /\ Disk

\* readAliases, and aliases[name] = url.
Read(w) ==
    /\ pc[w] = "read"
    /\ \/ /\ mine' = [mine EXCEPT ![w] = [data[file] EXCEPT ![KeyOf[w]] = ValueOf[w]]]
          /\ Goto(w, "open")
       \/ file \in torn /\ Goto(w, "failed") /\ UNCHANGED mine
    /\ UNCHANGED <<fd, faults, overlapped>> /\ Disk

\* Mutant of Open: the file itself is opened and truncated.
OpenInPlace(w) ==
    /\ pc[w] = "open" /\ Goto(w, "write")
    /\ fd' = [fd EXCEPT ![w] = file]
    /\ data' = [data EXCEPT ![file] = Empty] /\ torn' = torn \ {file}
    /\ UNCHANGED <<file, tmp, mine, faults, overlapped>>

\* os.WriteFile opens the temporary file: a new one, or one that is there,
\* which it truncates.
Open(w) ==
    /\ pc[w] = "open" /\ Goto(w, "write")
    /\ \E i \in Inode :
        /\ IF tmp = NoInode THEN i \notin Used ELSE i = tmp
        /\ tmp' = i /\ fd' = [fd EXCEPT ![w] = i]
        /\ data' = [data EXCEPT ![i] = Empty] /\ torn' = torn \ {i}
    /\ UNCHANGED <<file, mine, faults, overlapped>>

\* It writes the text from the start of the inode.  Over the longer text of
\* another process the end of that text stays behind.
Write(w) ==
    /\ pc[w] = "write" /\ Goto(w, "rename")
    /\ data' = [data EXCEPT ![fd[w]] = mine[w]]
    /\ \/ torn' = torn \ {fd[w]}
       \/ data[fd[w]] # Empty /\ torn' = torn \cup {fd[w]}
    /\ fd' = [fd EXCEPT ![w] = NoInode]
    /\ UNCHANGED <<file, tmp, mine, faults, overlapped>>

\* It writes a part only, on a full disk, and returns the error.
WriteFails(w) ==
    /\ pc[w] = "write" /\ faults < MaxFaults
    /\ faults' = faults + 1 /\ Goto(w, "failed")
    /\ torn' = torn \cup {fd[w]}
    /\ fd' = [fd EXCEPT ![w] = NoInode]
    /\ UNCHANGED <<file, tmp, data, mine, overlapped>>

\* Mutant of Rename: the temporary name stays, as with os.Link.
RenameKeeps(w) ==
    /\ pc[w] = "rename"
    /\ IF tmp # NoInode THEN file' = tmp /\ Goto(w, "done")
                        ELSE Goto(w, "remove") /\ UNCHANGED file
    /\ UNCHANGED <<tmp, data, torn, mine, fd, faults, overlapped>>

\* os.Rename fails when another process has renamed the temporary file, or
\* the system refuses it.
Rename(w) ==
    /\ pc[w] = "rename"
    /\ \/ /\ tmp # NoInode /\ file' = tmp /\ tmp' = NoInode
          /\ Goto(w, "done") /\ UNCHANGED faults
       \/ /\ tmp = NoInode /\ Goto(w, "remove") /\ UNCHANGED <<file, tmp, faults>>
       \/ /\ faults < MaxFaults /\ faults' = faults + 1
          /\ Goto(w, "remove") /\ UNCHANGED <<file, tmp>>
    /\ UNCHANGED <<data, torn, mine, fd, overlapped>>

\* os.Remove(tmp), whoever has made it meanwhile.
Remove(w) ==
    /\ pc[w] = "remove" /\ Goto(w, "failed")
    /\ tmp' = NoInode
    /\ UNCHANGED <<file, data, torn, mine, fd, faults, overlapped>>

\* The process dies and leaves the temporary file as it is.
Die(w) ==
    /\ Running(w) /\ faults < MaxFaults
    /\ faults' = faults + 1 /\ Goto(w, "died")
    /\ fd' = [fd EXCEPT ![w] = NoInode]
    /\ UNCHANGED <<mine, overlapped>> /\ Disk

Next ==
    \E w \in Writer :
        \/ Begin(w) \/ Look(w) \/ Read(w) \/ Open(w) \/ Write(w) \/ WriteFails(w)
        \/ Rename(w) \/ Remove(w) \/ Die(w)

Spec == Init /\ [][Next]_vars

-----------------------------------------------------------------------------
(* Properties.                                                             *)

\* The map that anyone who reads the file finds in it, if it is whole.
map == IF file \in torn THEN Empty ELSE data[file]
Shared == INSTANCE AtomicMap

\* While commands do not overlap the file implements an atomic map: a
\* command that dies, or finds the disk full, has changed its entry or
\* nothing, and what it left behind does not disturb the next one.
ImplementsAtomicMap == Shared!Spec

\* "If there is no alias named $GOOS-$GOARCH already, mote adds one": while
\* commands do not overlap the automatic alias never replaces another one.
AutoOnlyAdds ==
    [][\A w \in Autos : pc[w] = "rename" /\ pc'[w] = "done" /\ ~overlapped =>
        data[file][KeyOf[w]] \in {NoVal, ValueOf[w]}]_vars

\* Writers that overlap may undo each other, but one of them prevails: when
\* all have ended, and a setter well, the text of the file begins with the
\* whole map that one writer has read and added its own entry to, and not
\* with two writers' texts mixed.  (The end of a longer text may be behind it.)
SomeonePrevails ==
    (\A w \in Writer : pc[w] \in {"done", "failed"}) /\ faults = 0
    /\ (\E w \in Setters : pc[w] = "done") =>
        \E w \in Writer : data[file] = mine[w] /\ mine[w][KeyOf[w]] = ValueOf[w]

\* The name of the file never leads nowhere once it is there, although every
\* change renames another file over it, and of writers that overlap and do
\* not fail one prevails.  What the name leads to may be torn or empty for a
\* while, and stay so after a death.
WritersPrevail == TypeOK /\ SomeonePrevails

-----------------------------------------------------------------------------
(* What comments and documents say of the program, and it does not do.      *)

\* "setAlias adds or replaces the alias definition for name": and no other.
SetChangesOne ==
    [][\A j, k \in Key : data[file][j] # data'[file'][j] /\ data[file][k] # data'[file'][k]
        => j = k]_vars

\* "aliases.txt contains the alias definitions, one alias per line."
FileIsWhole == file \notin torn
=============================================================================
