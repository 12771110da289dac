------------------------------- MODULE Cache -------------------------------
(***************************************************************************)
(* The file cache of a mote server (mote/cache.go) and the sessions that   *)
(* use it at the same time (serve in mote/server.go): they look files up,  *)
(* save uploads, copy files out and, when their command has ended, clean   *)
(* out old files; "mote clean" removes the whole cache.  The directory     *)
(* is shared by goroutines and processes without a lock: every system call *)
(* is a step.                                                              *)
(***************************************************************************)
EXTENDS Integers, FiniteSets

CONSTANTS
    Session, Hash,
    Files,          \* Files[s]: hashes of the files of session s's request
    InitCached,     \* hashes in the cache when the behaviour starts
    MaxAge,         \* cacheMaxAge
    MaxTime,        \* bound: the clock stops here
    Wipes,          \* somebody runs "mote clean"
    MaxCrashes,     \* bound: servers that die in a session
    NoFile, NoHash

\* What a file holds: the content with a given hash, a prefix of it that has
\* been written so far, or something else that a client has sent.
Content == Hash \cup {"part", "bad"}

\* The names in the cache directory: a session s has one file tmp-s at most.
Name == Hash \cup Session

ASSUME Assumptions ==
    /\ Session \cap Hash = {} /\ NoFile \notin Content /\ NoHash \notin Hash
    /\ "part" \notin Hash /\ "bad" \notin Hash
    /\ Files \in [Session -> SUBSET Hash] /\ InitCached \subseteq Hash
    /\ MaxAge \in Nat /\ MaxTime \in Nat /\ MaxCrashes \in Nat
    /\ Wipes \in BOOLEAN

VARIABLES
    now,        \* the clock
    file,       \* file[n]: content of the file named n, or NoFile
    mtime,      \* mtime[n]: its modification time
    dirs,       \* the shard directories that exist, by hash
    pc,         \* pc[s]: where session s is
    cur,        \* cur[s]: the hash it works on
    left,       \* left[s]: hashes its loop has still to come to
    need,       \* need[s]: hashes it has asked the client for
    tree,       \* tree[s]: its temporary tree, by hash
    cutoff,     \* cutoff[s], todo[s], victim[s]: cleanCache's variables
    todo,
    victim,
    wiping,     \* mote clean: "ready", "busy" or "over"
    crashes

sessionVars == <<pc, cur, left, need, tree>>
cleanVars   == <<cutoff, todo, victim>>
vars == <<now, file, mtime, dirs, sessionVars, cleanVars, wiping, crashes>>

SessionState == {"lookup", "touch", "mkdir", "create", "write", "rename",
                 "build", "run", "readdir", "clean", "remove",
                 "done", "refused", "failed", "died"}

TypeOK ==
    /\ now \in 0..MaxTime
    /\ file \in [Name -> Content \cup {NoFile}]
    /\ \A h \in Hash : file[h] # "part"
    /\ mtime \in [Name -> Int] /\ dirs \subseteq Hash
    /\ pc \in [Session -> SessionState]
    /\ cur \in [Session -> Hash \cup {NoHash}]
    /\ left \in [Session -> SUBSET Hash] /\ need \in [Session -> SUBSET Hash]
    /\ tree \in [Session -> [Hash -> Content \cup {NoFile}]]
    /\ cutoff \in [Session -> Int] /\ todo \in [Session -> SUBSET Name]
    /\ victim \in [Session -> Name]
    /\ wiping \in {"ready", "busy", "over"} /\ crashes \in 0..MaxCrashes

Init ==
    /\ now = 0
    /\ file = [n \in Name |-> IF n \in InitCached THEN n ELSE NoFile]
    /\ mtime = [n \in Name |-> 0]
    /\ dirs = InitCached
    /\ pc = [s \in Session |-> "lookup"]
    /\ cur = [s \in Session |-> NoHash]
    /\ left = Files /\ need = [s \in Session |-> {}]
    /\ tree = [s \in Session |-> [h \in Hash |-> NoFile]]
    /\ cutoff = [s \in Session |-> 0] /\ todo = [s \in Session |-> {}]
    /\ victim = [s \in Session |-> s]
    /\ wiping = "ready" /\ crashes = 0

-----------------------------------------------------------------------------
Goto(s, where) == pc' = [pc EXCEPT ![s] = where]
Exists(n) == file[n] # NoFile
Write(n, content) ==
    /\ file' = [file EXCEPT ![n] = content]
    /\ mtime' = [mtime EXCEPT ![n] = now]
Unlink(n) == file' = [file EXCEPT ![n] = NoFile] /\ UNCHANGED mtime
Disk == UNCHANGED <<file, mtime, dirs>>
NotCleaning == UNCHANGED <<now, cleanVars, wiping, crashes>>

(* serve: which of the request's files are missing?                        *)

\* os.Stat of inCache.
Lookup(s) ==
    /\ pc[s] = "lookup" /\ left[s] # {}
    /\ \E h \in left[s] :
        /\ left' = [left EXCEPT ![s] = @ \ {h}]
        /\ cur' = [cur EXCEPT ![s] = h]
        /\ IF Exists(h)
             THEN Goto(s, "touch") /\ UNCHANGED need
             ELSE UNCHANGED pc /\ need' = [need EXCEPT ![s] = @ \cup {h}]
    /\ UNCHANGED tree /\ Disk /\ NotCleaning

\* os.Chtimes of inCache, whose error is ignored.
Touch(s) ==
    /\ pc[s] = "touch"
    /\ mtime' = IF Exists(cur[s]) THEN [mtime EXCEPT ![cur[s]] = now] ELSE mtime
    /\ Goto(s, "lookup")
    /\ UNCHANGED <<file, dirs, cur, left, need, tree>> /\ NotCleaning

\* The end of the loop: ask for the missing files, or build the tree.
Looked(s) ==
    /\ pc[s] = "lookup" /\ left[s] = {}
    /\ IF need[s] = {} THEN Goto(s, "build") ELSE Goto(s, "mkdir")
    /\ left' = [left EXCEPT ![s] = IF need[s] = {} THEN Files[s] ELSE need[s]]
    /\ UNCHANGED <<cur, need, tree>> /\ Disk /\ NotCleaning

-----------------------------------------------------------------------------
(* saveToCache, for each of the missing files.                             *)

Mkdir(s) ==
    /\ pc[s] = "mkdir"
    /\ \E h \in left[s] :
        /\ left' = [left EXCEPT ![s] = @ \ {h}]
        /\ cur' = [cur EXCEPT ![s] = h]
        /\ dirs' = dirs \cup {h}
    /\ Goto(s, "create")
    /\ UNCHANGED <<need, tree, file, mtime>> /\ NotCleaning

\* Mutant of CreateTemp: the file itself is created and then written.
CreateInPlace(s) ==
    /\ pc[s] = "create"
    /\ IF cur[s] \in dirs
         THEN Write(cur[s], "part") /\ Goto(s, "write")
         ELSE Goto(s, "failed") /\ UNCHANGED <<file, mtime>>
    /\ UNCHANGED <<dirs, cur, left, need, tree>> /\ NotCleaning

\* os.CreateTemp fails when mote clean has removed the directory.
CreateTemp(s) ==
    /\ pc[s] = "create"
    /\ IF cur[s] \in dirs
         THEN Write(s, "part") /\ Goto(s, "write")
         ELSE Goto(s, "failed") /\ UNCHANGED <<file, mtime>>
    /\ UNCHANGED <<dirs, cur, left, need, tree>> /\ NotCleaning

\* Mutant of Receive: the hash of the content is not compared.
ReceiveUnchecked(s) ==
    /\ pc[s] = "write"
    /\ \E c \in {cur[s], "bad"} :
        IF Exists(s) THEN Write(s, c) ELSE UNCHANGED <<file, mtime>>
    /\ Goto(s, "rename")
    /\ UNCHANGED <<dirs, cur, left, need, tree>> /\ NotCleaning

\* Mutant of Receive: the temporary file is left behind on an error.
ReceiveUntidy(s) ==
    /\ pc[s] = "write"
    /\ \/ /\ IF Exists(s) THEN Write(s, cur[s]) ELSE UNCHANGED <<file, mtime>>
          /\ Goto(s, "rename")
       \/ Goto(s, "refused") /\ UNCHANGED <<file, mtime>>
    /\ UNCHANGED <<dirs, cur, left, need, tree>> /\ NotCleaning

\* io.Copy to the end.  The content is the right one, or too short, or has
\* another hash, and then the deferred Remove runs.  Writing to a file that
\* has been unlinked changes nothing in the directory.
Receive(s) ==
    /\ pc[s] = "write"
    /\ \/ /\ IF Exists(s) THEN Write(s, cur[s]) ELSE UNCHANGED <<file, mtime>>
          /\ Goto(s, "rename")
       \/ Unlink(s) /\ Goto(s, "refused")
    /\ UNCHANGED <<dirs, cur, left, need, tree>> /\ NotCleaning

\* Mutant of Rename: a file that is already there is an error.
RenameIfAbsent(s) ==
    /\ pc[s] = "rename"
    /\ IF Exists(s) /\ ~Exists(cur[s])
         THEN /\ file' = [file EXCEPT ![cur[s]] = file[s], ![s] = NoFile]
              /\ mtime' = [mtime EXCEPT ![cur[s]] = mtime[s]]
              /\ Goto(s, IF left[s] = {} THEN "build" ELSE "mkdir")
              /\ left' = [left EXCEPT ![s] = IF @ = {} THEN Files[s] ELSE @]
         ELSE Unlink(s) /\ Goto(s, "failed") /\ UNCHANGED left
    /\ UNCHANGED <<dirs, cur, need, tree>> /\ NotCleaning

\* os.Rename replaces what is there; it fails when the temporary file has
\* been cleaned away.  After the last file the tree is built.
Rename(s) ==
    /\ pc[s] = "rename"
    /\ IF Exists(s)
         THEN /\ file' = [file EXCEPT ![cur[s]] = file[s], ![s] = NoFile]
              /\ mtime' = [mtime EXCEPT ![cur[s]] = mtime[s]]
              /\ Goto(s, IF left[s] = {} THEN "build" ELSE "mkdir")
              /\ left' = [left EXCEPT ![s] = IF @ = {} THEN Files[s] ELSE @]
         ELSE Goto(s, "failed") /\ UNCHANGED <<file, mtime, left>>
    /\ UNCHANGED <<dirs, cur, need, tree>> /\ NotCleaning

-----------------------------------------------------------------------------
(* copyFromCache for every file, then the command.                         *)

\* An open file keeps its content, so opening and copying are one step.
CopyOut(s) ==
    /\ pc[s] = "build" /\ left[s] # {}
    /\ \E h \in left[s] :
        IF Exists(h)
          THEN /\ tree' = [tree EXCEPT ![s][h] = file[h]]
               /\ left' = [left EXCEPT ![s] = @ \ {h}] /\ UNCHANGED pc
          ELSE Goto(s, "failed") /\ UNCHANGED <<tree, left>>
    /\ UNCHANGED <<cur, need>> /\ Disk /\ NotCleaning

StartCommand(s) ==
    /\ pc[s] = "build" /\ left[s] = {}
    /\ Goto(s, "run")
    /\ UNCHANGED <<cur, left, need, tree>> /\ Disk /\ NotCleaning

-----------------------------------------------------------------------------
(* cleanCache, when the command has ended.                                 *)

CleanOnly == UNCHANGED <<now, cur, left, need, tree, wiping, crashes>>

Cutoff(s) ==
    /\ pc[s] = "run" /\ Goto(s, "readdir")
    /\ cutoff' = [cutoff EXCEPT ![s] = now - MaxAge]
    /\ UNCHANGED <<todo, victim>> /\ Disk /\ CleanOnly

ReadDir(s) ==
    /\ pc[s] = "readdir" /\ Goto(s, "clean")
    /\ todo' = [todo EXCEPT ![s] = {n \in Name : Exists(n)}]
    /\ UNCHANGED <<cutoff, victim>> /\ Disk /\ CleanOnly

\* f.Info of the next file, and the comparison.
Inspect(s) ==
    /\ pc[s] = "clean"
    /\ \E n \in todo[s] :
        /\ todo' = [todo EXCEPT ![s] = @ \ {n}]
        /\ IF Exists(n) /\ mtime[n] < cutoff[s]
             THEN Goto(s, "remove") /\ victim' = [victim EXCEPT ![s] = n]
             ELSE UNCHANGED <<pc, victim>>
    /\ UNCHANGED cutoff /\ Disk /\ CleanOnly

RemoveOld(s) ==
    /\ pc[s] = "remove" /\ Goto(s, "clean")
    /\ Unlink(victim[s])
    /\ UNCHANGED <<dirs, cleanVars>> /\ CleanOnly

Cleaned(s) ==
    /\ pc[s] = "clean" /\ todo[s] = {} /\ Goto(s, "done")
    /\ cutoff' = [cutoff EXCEPT ![s] = 0] /\ victim' = [victim EXCEPT ![s] = s]
    /\ UNCHANGED todo /\ Disk /\ CleanOnly

-----------------------------------------------------------------------------
(* The world around a session.                                             *)

Tick ==
    /\ now < MaxTime /\ now' = now + 1
    /\ UNCHANGED <<file, mtime, dirs, sessionVars, cleanVars, wiping, crashes>>

\* cmdClean: RemoveAll takes the files and directories one by one.
WipeFile(n) ==
    /\ Wipes /\ wiping \in {"ready", "busy"} /\ Exists(n)
    /\ Unlink(n) /\ wiping' = "busy"
    /\ UNCHANGED <<now, dirs, sessionVars, cleanVars, crashes>>

WipeDir(h) ==
    /\ Wipes /\ wiping \in {"ready", "busy"} /\ h \in dirs
    /\ ~Exists(h) /\ \A s \in Session : Exists(s) => cur[s] # h
    /\ dirs' = dirs \ {h} /\ wiping' = "busy"
    /\ UNCHANGED <<now, file, mtime, sessionVars, cleanVars, crashes>>

Wiped ==
    /\ wiping = "busy" /\ dirs = {} /\ wiping' = "over"
    /\ UNCHANGED <<now, file, mtime, dirs, sessionVars, cleanVars, crashes>>

\* The server dies: nothing deferred runs, the temporary file stays.
Die(s) ==
    /\ crashes < MaxCrashes /\ crashes' = crashes + 1
    /\ pc[s] \notin {"done", "refused", "failed", "died"} /\ Goto(s, "died")
    /\ UNCHANGED <<now, cur, left, need, tree, cleanVars, wiping>> /\ Disk

Serve(s) ==
    \/ Lookup(s) \/ Touch(s) \/ Looked(s)
    \/ Mkdir(s) \/ CreateTemp(s) \/ Receive(s) \/ Rename(s)
    \/ CopyOut(s) \/ StartCommand(s)
    \/ Cutoff(s) \/ ReadDir(s) \/ Inspect(s) \/ RemoveOld(s) \/ Cleaned(s)

Next ==
    \/ \E s \in Session : Serve(s) \/ Die(s)
    \/ \E n \in Name : WipeFile(n)
    \/ \E h \in Hash : WipeDir(h)
    \/ Wiped \/ Tick

Spec == Init /\ [][Next]_vars

-----------------------------------------------------------------------------
(* Properties.                                                             *)

\* A file of the cache has the content its name is the hash of, always:
\* concurrent uploads, refused uploads, crashes and cleaning included.
CachedIsWhole == \A h \in Hash : Exists(h) => file[h] = h

\* A command runs with all of its files, each with the content asked for,
\* whichever session has put it into the cache.
TreeIsExact ==
    \A s \in Session : pc[s] \in {"run", "readdir", "clean", "remove", "done"} =>
        \A h \in Files[s] : tree[s][h] = h

\* A session that has ended, well or not, leaves no temporary file; only
\* a server that died does.
NoTempLeft ==
    \A s \in Session : pc[s] \in {"build", "done", "refused", "failed"} => ~Exists(s)

\* Until something grows old, or somebody runs mote clean, sessions do not
\* disturb each other: the only reason for one to fail is its own upload,
\* even if another one saves the same file or dies while saving it.
OnlyOwnUploadFails ==
    wiping = "ready" /\ now <= MaxAge => \A s \in Session : pc[s] # "failed"

\* cleanCache: "inCache updates the modification time of the files it
\* finds, so recently used files are safe".
RecentIsSafe ==
    \A s \in Session : pc[s] = "remove" /\ Exists(victim[s]) =>
        mtime[victim[s]] < cutoff[s]

\* What is in the cache can be used and nothing else stays: a file named by a
\* hash is whole and has that hash, and a temporary file is in use or was left
\* by a server that died.
CacheIsSound == TypeOK /\ CachedIsWhole /\ NoTempLeft
=============================================================================
