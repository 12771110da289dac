---------------------------- MODULE CacheProofs ----------------------------
(***************************************************************************)
(* The content of the cache and of the trees built from it, for any number *)
(* of sessions, files, crashes and cleanings.                              *)
(***************************************************************************)
EXTENDS Cache, TLAPS

\* What session s has in its temporary file when it is about to rename it,
\* and what it has copied so far.
SessionInv(s) ==
    /\ pc[s] \in {"touch", "create", "write", "rename"} => cur[s] \in Hash
    /\ pc[s] = "rename" /\ Exists(s) => file[s] = cur[s]
    /\ pc[s] \notin {"write", "rename", "died"} => ~Exists(s)
    /\ pc[s] = "build" => \A h \in Files[s] \ left[s] : tree[s][h] = h
    /\ pc[s] \in {"run", "readdir", "clean", "remove", "done"} =>
         \A h \in Files[s] : tree[s][h] = h

Inv ==
    /\ TypeOK
    /\ CachedIsWhole
    /\ \A s \in Session : SessionInv(s)

USE DEF Exists

\* The states of a session, spelled out once for the typing steps.
LEMMA States ==
    /\ "lookup" \in SessionState /\ "touch" \in SessionState /\ "mkdir" \in SessionState
    /\ "create" \in SessionState /\ "write" \in SessionState /\ "rename" \in SessionState
    /\ "build" \in SessionState /\ "run" \in SessionState /\ "readdir" \in SessionState
    /\ "clean" \in SessionState /\ "remove" \in SessionState /\ "done" \in SessionState
    /\ "refused" \in SessionState /\ "failed" \in SessionState /\ "died" \in SessionState
BY DEF SessionState

LEMMA InitInv == Init => Inv
BY Assumptions, States DEF Init, Name, Content, Inv, TypeOK, CachedIsWhole,
   SessionInv

\* Every step of a session preserves the invariant: a file gets the name of
\* a hash only by Rename, of a temporary file that Receive has checked.
LEMMA ServeInv == ASSUME Inv, NEW s \in Session, Serve(s) \/ Die(s) PROVE Inv'
<1>1. CASE Lookup(s)
  <2>1. /\ pc[s] = "lookup"
        /\ UNCHANGED <<file, mtime, dirs, tree, now, cutoff, todo, victim, wiping, crashes>>
    BY <1>1 DEF Lookup, Goto, Disk, NotCleaning, cleanVars
  <2>2. PICK h \in left[s] :
            /\ left' = [left EXCEPT ![s] = @ \ {h}]
            /\ cur' = [cur EXCEPT ![s] = h]
            /\ \/ pc' = [pc EXCEPT ![s] = "touch"] /\ need' = need
               \/ pc' = pc /\ need' = [need EXCEPT ![s] = @ \cup {h}]
    BY <1>1 DEF Lookup, Goto, Disk, NotCleaning, cleanVars
  <2>3. h \in Hash
    BY DEF Inv, TypeOK
  <2>7. TypeOK'
    <3>1. pc' \in [Session -> SessionState]
      BY <2>1, <2>2, <2>3, States DEF Inv, TypeOK
    <3>2. cur' \in [Session -> Hash \cup {NoHash}]
      BY <2>1, <2>2, <2>3 DEF Inv, TypeOK
    <3>3. left' \in [Session -> SUBSET Hash] /\ need' \in [Session -> SUBSET Hash]
      BY <2>1, <2>2, <2>3, Assumptions DEF Inv, TypeOK
    <3>4. tree' \in [Session -> [Hash -> Content \cup {NoFile}]]
      BY <2>1, <2>2, <2>3 DEF Inv, TypeOK
    <3>5. /\ file' \in [Name -> Content \cup {NoFile}]
          /\ mtime' \in [Name -> Int]
      BY <2>1, <2>2, <2>3 DEF Inv, TypeOK, Name, Content
    <3>6. \A g \in Hash : file'[g] # "part"
      BY <2>1, <2>2, <2>3, Assumptions DEF Inv, TypeOK, Name
    <3>7. /\ cutoff' \in [Session -> Int] /\ todo' \in [Session -> SUBSET Name]
          /\ victim' \in [Session -> Name]
      BY <2>1, <2>2, <2>3 DEF Inv, TypeOK
    <3>8. /\ now' \in 0..MaxTime /\ dirs' \subseteq Hash
          /\ wiping' \in {"ready", "busy", "over"} /\ crashes' \in 0..MaxCrashes
      BY <2>1, <2>2, <2>3 DEF Inv, TypeOK
    <3> QED
      BY <3>1, <3>2, <3>3, <3>4, <3>5, <3>6, <3>7, <3>8 DEF TypeOK
  <2>8. CachedIsWhole'
    BY <2>1, <2>2, <2>3, Assumptions DEF Inv, TypeOK, CachedIsWhole,
       SessionInv, Name, Content
  <2>9. ASSUME NEW t \in Session PROVE SessionInv(t)'
    <3>1. CASE t = s
      BY <2>1, <2>2, <2>3, <3>1, Assumptions DEF Inv, TypeOK, CachedIsWhole,
         SessionInv, Name, Content
    <3>2. CASE t # s
      BY <2>1, <2>2, <2>3, <3>2, Assumptions DEF Inv, TypeOK, SessionInv, Name,
         Content
    <3> QED
      BY <3>1, <3>2
  <2> QED
    BY <2>7, <2>8, <2>9 DEF Inv
<1>2. CASE Touch(s)
  BY <1>2, States, Assumptions DEF Inv, TypeOK, CachedIsWhole, SessionInv,
     Name, Content, Touch, Goto, NotCleaning, cleanVars
<1>3. CASE Looked(s)
  <2>1. /\ pc[s] = "lookup" /\ left[s] = {}
        /\ \/ /\ pc' = [pc EXCEPT ![s] = "build"]
              /\ left' = [left EXCEPT ![s] = Files[s]]
           \/ /\ pc' = [pc EXCEPT ![s] = "mkdir"]
              /\ left' = [left EXCEPT ![s] = need[s]]
        /\ UNCHANGED <<file, mtime, dirs, cur, need, tree, now, cutoff, todo, victim, wiping, crashes>>
    BY <1>3 DEF Looked, Goto, Disk, NotCleaning, cleanVars
  <2>7. TypeOK'
    <3>1. pc' \in [Session -> SessionState]
      BY <2>1, States DEF Inv, TypeOK
    <3>2. cur' \in [Session -> Hash \cup {NoHash}]
      BY <2>1 DEF Inv, TypeOK
    <3>3. left' \in [Session -> SUBSET Hash] /\ need' \in [Session -> SUBSET Hash]
      BY <2>1, Assumptions DEF Inv, TypeOK
    <3>4. tree' \in [Session -> [Hash -> Content \cup {NoFile}]]
      BY <2>1 DEF Inv, TypeOK
    <3>5. /\ file' \in [Name -> Content \cup {NoFile}]
          /\ mtime' \in [Name -> Int]
      BY <2>1 DEF Inv, TypeOK, Name, Content
    <3>6. \A h \in Hash : file'[h] # "part"
      BY <2>1, Assumptions DEF Inv, TypeOK, Name
    <3>7. /\ cutoff' \in [Session -> Int] /\ todo' \in [Session -> SUBSET Name]
          /\ victim' \in [Session -> Name]
      BY <2>1 DEF Inv, TypeOK
    <3>8. /\ now' \in 0..MaxTime /\ dirs' \subseteq Hash
          /\ wiping' \in {"ready", "busy", "over"} /\ crashes' \in 0..MaxCrashes
      BY <2>1 DEF Inv, TypeOK
    <3> QED
      BY <3>1, <3>2, <3>3, <3>4, <3>5, <3>6, <3>7, <3>8 DEF TypeOK
  <2>8. CachedIsWhole'
    BY <2>1, Assumptions DEF Inv, TypeOK, CachedIsWhole, SessionInv, Name,
       Content
  <2>9. ASSUME NEW t \in Session PROVE SessionInv(t)'
    <3>1. CASE t = s
      BY <2>1, <3>1, Assumptions DEF Inv, TypeOK, CachedIsWhole, SessionInv,
         Name, Content
    <3>2. CASE t # s
      BY <2>1, <3>2, Assumptions DEF Inv, TypeOK, SessionInv, Name, Content
    <3> QED
      BY <3>1, <3>2
  <2> QED
    BY <2>7, <2>8, <2>9 DEF Inv
<1>4. CASE Mkdir(s)
  BY <1>4, States, Assumptions DEF Inv, TypeOK, CachedIsWhole, SessionInv,
     Name, Content, Mkdir, Goto, NotCleaning, cleanVars
<1>5. CASE CreateTemp(s)
  <2>1. /\ pc[s] = "create"
        /\ \/ /\ pc' = [pc EXCEPT ![s] = "write"]
              /\ file' = [file EXCEPT ![s] = "part"]
              /\ mtime' = [mtime EXCEPT ![s] = now]
           \/ pc' = [pc EXCEPT ![s] = "failed"] /\ file' = file /\ mtime' = mtime
        /\ UNCHANGED <<dirs, cur, left, need, tree, now, cutoff, todo, victim, wiping, crashes>>
    BY <1>5 DEF CreateTemp, Goto, Write, NotCleaning, cleanVars
  <2>2. cur[s] \in Hash /\ ~Exists(s)
    BY <2>1 DEF Inv, SessionInv
  <2>7. TypeOK'
    <3>1. pc' \in [Session -> SessionState]
      BY <2>1, States DEF Inv, TypeOK
    <3>2. cur' \in [Session -> Hash \cup {NoHash}]
      BY <2>1, <2>2 DEF Inv, TypeOK
    <3>3. left' \in [Session -> SUBSET Hash] /\ need' \in [Session -> SUBSET Hash]
      BY <2>1, <2>2, Assumptions DEF Inv, TypeOK
    <3>4. tree' \in [Session -> [Hash -> Content \cup {NoFile}]]
      BY <2>1, <2>2 DEF Inv, TypeOK
    <3>5. /\ file' \in [Name -> Content \cup {NoFile}]
          /\ mtime' \in [Name -> Int]
      BY <2>1 DEF Inv, TypeOK, Name, Content
    <3>6. \A h \in Hash : file'[h] # "part"
      BY <2>1, <2>2, Assumptions DEF Inv, TypeOK, Name
    <3>7. /\ cutoff' \in [Session -> Int] /\ todo' \in [Session -> SUBSET Name]
          /\ victim' \in [Session -> Name]
      BY <2>1, <2>2 DEF Inv, TypeOK
    <3>8. /\ now' \in 0..MaxTime /\ dirs' \subseteq Hash
          /\ wiping' \in {"ready", "busy", "over"} /\ crashes' \in 0..MaxCrashes
      BY <2>1, <2>2 DEF Inv, TypeOK
    <3> QED
      BY <3>1, <3>2, <3>3, <3>4, <3>5, <3>6, <3>7, <3>8 DEF TypeOK
  <2>8. CachedIsWhole'
    BY <2>1, <2>2, Assumptions DEF Inv, TypeOK, CachedIsWhole, SessionInv,
       Name, Content
  <2>9. ASSUME NEW t \in Session PROVE SessionInv(t)'
    <3>1. CASE t = s
      BY <2>1, <2>2, <3>1, Assumptions DEF Inv, TypeOK, CachedIsWhole,
         SessionInv, Name, Content
    <3>2. CASE t # s
      BY <2>1, <2>2, <3>2, Assumptions DEF Inv, TypeOK, SessionInv, Name,
         Content
    <3> QED
      BY <3>1, <3>2
  <2> QED
    BY <2>7, <2>8, <2>9 DEF Inv
<1>6. CASE Receive(s)
  <2>1. /\ pc[s] = "write"
        /\ \/ /\ pc' = [pc EXCEPT ![s] = "rename"]
              /\ file' = IF Exists(s) THEN [file EXCEPT ![s] = cur[s]] ELSE file
              /\ mtime' = IF Exists(s) THEN [mtime EXCEPT ![s] = now] ELSE mtime
           \/ /\ pc' = [pc EXCEPT ![s] = "refused"]
              /\ file' = [file EXCEPT ![s] = NoFile] /\ mtime' = mtime
        /\ UNCHANGED <<dirs, cur, left, need, tree, now, cutoff, todo, victim, wiping, crashes>>
    BY <1>6 DEF Receive, Goto, Write, Unlink, NotCleaning, cleanVars
  <2>2. cur[s] \in Hash
    BY <2>1 DEF Inv, SessionInv
  <2>3. \/ file' = file
        \/ \E c \in Hash \cup {NoFile} : file' = [file EXCEPT ![s] = c]
    BY <2>1, <2>2
  <2>4. mtime' = mtime \/ mtime' = [mtime EXCEPT ![s] = now]
    BY <2>1
  <2>5. /\ file' \in [Name -> Content \cup {NoFile}]
        /\ mtime' \in [Name -> Int]
    <3>1. file' \in [Name -> Content \cup {NoFile}]
      BY <2>3 DEF Inv, TypeOK, Content
    <3>2. mtime' \in [Name -> Int]
      BY <2>4 DEF Inv, TypeOK
    <3> QED
      BY <3>1, <3>2
  <2>7. TypeOK'
    <3>1. pc' \in [Session -> SessionState]
      BY <2>1, <2>2, States DEF Inv, TypeOK
    <3>2. cur' \in [Session -> Hash \cup {NoHash}]
      BY <2>1, <2>2 DEF Inv, TypeOK
    <3>3. left' \in [Session -> SUBSET Hash] /\ need' \in [Session -> SUBSET Hash]
      BY <2>1, <2>2, Assumptions DEF Inv, TypeOK
    <3>4. tree' \in [Session -> [Hash -> Content \cup {NoFile}]]
      BY <2>1, <2>2 DEF Inv, TypeOK
    <3>5. /\ file' \in [Name -> Content \cup {NoFile}]
          /\ mtime' \in [Name -> Int]
      BY <2>5 DEF Inv, TypeOK, Name, Content
    <3>6. \A h \in Hash : file'[h] # "part"
      BY <2>1, <2>2, Assumptions DEF Inv, TypeOK, Name
    <3>7. /\ cutoff' \in [Session -> Int] /\ todo' \in [Session -> SUBSET Name]
          /\ victim' \in [Session -> Name]
      BY <2>1, <2>2 DEF Inv, TypeOK
    <3>8. /\ now' \in 0..MaxTime /\ dirs' \subseteq Hash
          /\ wiping' \in {"ready", "busy", "over"} /\ crashes' \in 0..MaxCrashes
      BY <2>1, <2>2 DEF Inv, TypeOK
    <3> QED
      BY <3>1, <3>2, <3>3, <3>4, <3>5, <3>6, <3>7, <3>8 DEF TypeOK
  <2>8. CachedIsWhole'
    BY <2>1, <2>2, Assumptions DEF Inv, TypeOK, CachedIsWhole, SessionInv,
       Name, Content
  <2>9. ASSUME NEW t \in Session PROVE SessionInv(t)'
    <3>1. CASE t = s
      BY <2>1, <2>2, <3>1, Assumptions DEF Inv, TypeOK, CachedIsWhole,
         SessionInv, Name, Content
    <3>2. CASE t # s
      BY <2>1, <2>2, <3>2, Assumptions DEF Inv, TypeOK, SessionInv, Name,
         Content
    <3> QED
      BY <3>1, <3>2
  <2> QED
    BY <2>7, <2>8, <2>9 DEF Inv
<1>7. CASE Rename(s)
  <2>1. cur[s] \in Hash /\ (Exists(s) => file[s] = cur[s]) /\ pc[s] = "rename"
    BY <1>7 DEF Inv, SessionInv, Rename
  <2>2. UNCHANGED <<dirs, cur, need, tree, now, cutoff, todo, victim, wiping, crashes>>
    BY <1>7 DEF Rename, Goto, NotCleaning, cleanVars
  <2>3. CASE ~Exists(s)
    <3>1. pc' = [pc EXCEPT ![s] = "failed"] /\ UNCHANGED <<file, mtime, left>>
      BY <1>7, <2>3 DEF Rename, Goto, NotCleaning, cleanVars
    <3> QED
      BY <2>1, <2>2, <2>3, <3>1, States, Assumptions DEF Inv, TypeOK,
         CachedIsWhole, SessionInv, Name, Content
  <2>4. CASE Exists(s)
    <3>1. /\ file' = [file EXCEPT ![cur[s]] = file[s], ![s] = NoFile]
          /\ mtime' = [mtime EXCEPT ![cur[s]] = mtime[s]]
          /\ pc' = [pc EXCEPT ![s] = IF left[s] = {} THEN "build" ELSE "mkdir"]
          /\ left' = [left EXCEPT ![s] = IF @ = {} THEN Files[s] ELSE @]
      BY <1>7, <2>4 DEF Rename, Goto, NotCleaning, cleanVars
    <3>2. /\ \A h \in Hash : file'[h] \in {file[h], h}
          /\ \A t \in Session : t # s => file'[t] = file[t]
          /\ file'[s] = NoFile
      BY <2>1, <2>4, <3>1, Assumptions DEF Inv, TypeOK, Name
    <3>3. file' \in [Name -> Content \cup {NoFile}] /\ mtime' \in [Name -> Int]
      BY <2>1, <2>4, <3>1 DEF Inv, TypeOK, Name
    <3>4. TypeOK'
      <4>1. pc' \in [Session -> SessionState]
        BY <3>1, States DEF Inv, TypeOK
      <4>2. left' \in [Session -> SUBSET Hash]
        BY <3>1, Assumptions DEF Inv, TypeOK
      <4>3. \A h \in Hash : file'[h] # "part"
        BY <3>2, Assumptions DEF Inv, TypeOK
      <4> QED
        BY <2>2, <3>3, <4>1, <4>2, <4>3 DEF Inv, TypeOK
    <3>5. CachedIsWhole'
      BY <3>2 DEF Inv, CachedIsWhole
    <3>6. ASSUME NEW t \in Session PROVE SessionInv(t)'
      <4>1. CASE t = s
        BY <2>1, <2>2, <3>1, <3>2, <4>1, Assumptions DEF Inv, TypeOK,
           SessionInv, Name, Content
      <4>2. CASE t # s
        BY <2>1, <2>2, <3>1, <3>2, <4>2, Assumptions DEF Inv, TypeOK,
           SessionInv, Name, Content
      <4> QED
        BY <4>1, <4>2
    <3> QED
      BY <3>4, <3>5, <3>6 DEF Inv
  <2> QED
    BY <2>3, <2>4
<1>8. CASE CopyOut(s)
  <2>1. pc[s] = "build" /\ UNCHANGED <<file, mtime, dirs, cur, need, now, cutoff, todo, victim, wiping, crashes>>
    BY <1>8 DEF CopyOut, Goto, Disk, NotCleaning, cleanVars
  <2>2. PICK h \in left[s] :
          \/ /\ Exists(h)
             /\ tree' = [tree EXCEPT ![s][h] = file[h]]
             /\ left' = [left EXCEPT ![s] = @ \ {h}] /\ pc' = pc
          \/ pc' = [pc EXCEPT ![s] = "failed"] /\ tree' = tree /\ left' = left
    BY <1>8 DEF CopyOut, Goto, Disk, NotCleaning, cleanVars
  <2>3. h \in Hash /\ file[h] \in Content \cup {NoFile} /\ (Exists(h) => file[h] = h)
    BY DEF Inv, TypeOK, CachedIsWhole, Name
  <2>4. left' = [left EXCEPT ![s] = @ \ {h}] \/ left' = left
    BY <2>2
  <2>5. tree' = [tree EXCEPT ![s] = [tree[s] EXCEPT ![h] = file[h]]] \/ tree' = tree
    BY <2>2
  <2>6. [tree[s] EXCEPT ![h] = file[h]] \in [Hash -> Content \cup {NoFile}]
    <3>1. tree[s] \in [Hash -> Content \cup {NoFile}]
      BY DEF Inv, TypeOK
    <3> QED
      BY <2>3, <3>1
  <2>7. TypeOK'
    <3>1. pc' \in [Session -> SessionState]
      BY <2>1, <2>2, <2>3, States DEF Inv, TypeOK
    <3>2. cur' \in [Session -> Hash \cup {NoHash}]
      BY <2>1, <2>2, <2>3 DEF Inv, TypeOK
    <3>3. left' \in [Session -> SUBSET Hash] /\ need' \in [Session -> SUBSET Hash]
      BY <2>1, <2>4, Assumptions DEF Inv, TypeOK
    <3>4. tree' \in [Session -> [Hash -> Content \cup {NoFile}]]
      BY <2>5, <2>6 DEF Inv, TypeOK
    <3>5. /\ file' \in [Name -> Content \cup {NoFile}]
          /\ mtime' \in [Name -> Int]
      BY <2>1, <2>2, <2>3 DEF Inv, TypeOK, Name, Content
    <3>6. \A g \in Hash : file'[g] # "part"
      BY <2>1, <2>2, <2>3, Assumptions DEF Inv, TypeOK, Name
    <3>7. /\ cutoff' \in [Session -> Int] /\ todo' \in [Session -> SUBSET Name]
          /\ victim' \in [Session -> Name]
      BY <2>1, <2>2, <2>3 DEF Inv, TypeOK
    <3>8. /\ now' \in 0..MaxTime /\ dirs' \subseteq Hash
          /\ wiping' \in {"ready", "busy", "over"} /\ crashes' \in 0..MaxCrashes
      BY <2>1, <2>2, <2>3 DEF Inv, TypeOK
    <3> QED
      BY <3>1, <3>2, <3>3, <3>4, <3>5, <3>6, <3>7, <3>8 DEF TypeOK
  <2>8. CachedIsWhole'
    BY <2>1, <2>2, <2>3, Assumptions DEF Inv, TypeOK, CachedIsWhole,
       SessionInv, Name, Content
  <2>9. ASSUME NEW t \in Session PROVE SessionInv(t)'
    <3>1. CASE t = s
      BY <2>1, <2>2, <2>3, <3>1, Assumptions DEF Inv, TypeOK, CachedIsWhole,
         SessionInv, Name, Content
    <3>2. CASE t # s
      BY <2>1, <2>2, <2>3, <3>2, Assumptions DEF Inv, TypeOK, SessionInv, Name,
         Content
    <3> QED
      BY <3>1, <3>2
  <2> QED
    BY <2>7, <2>8, <2>9 DEF Inv
<1>9. CASE StartCommand(s)
  BY <1>9, States, Assumptions DEF Inv, TypeOK, CachedIsWhole, SessionInv,
     Name, Content, StartCommand, Goto, Disk, NotCleaning, cleanVars
<1>10. CASE Cutoff(s)
  BY <1>10, States, Assumptions DEF Inv, TypeOK, CachedIsWhole, SessionInv,
     Name, Content, Cutoff, Goto, Disk, CleanOnly, cleanVars
<1>11. CASE ReadDir(s)
  BY <1>11, States, Assumptions DEF Inv, TypeOK, CachedIsWhole, SessionInv,
     Name, Content, ReadDir, Goto, Disk, CleanOnly, cleanVars
<1>12. CASE Inspect(s)
  <2>1. /\ pc[s] = "clean"
        /\ UNCHANGED <<file, mtime, dirs, now, cur, left, need, tree, cutoff, wiping, crashes>>
    BY <1>12 DEF Inspect, Goto, Disk, CleanOnly, cleanVars
  <2>2. PICK n \in todo[s] :
          /\ todo' = [todo EXCEPT ![s] = @ \ {n}]
          /\ \/ pc' = [pc EXCEPT ![s] = "remove"] /\ victim' = [victim EXCEPT ![s] = n]
             \/ pc' = pc /\ victim' = victim
    BY <1>12 DEF Inspect, Goto, Disk, CleanOnly, cleanVars
  <2>3. n \in Name
    BY DEF Inv, TypeOK
  <2>7. TypeOK'
    <3>1. pc' \in [Session -> SessionState]
      BY <2>1, <2>2, <2>3, States DEF Inv, TypeOK
    <3>2. cur' \in [Session -> Hash \cup {NoHash}]
      BY <2>1, <2>2, <2>3 DEF Inv, TypeOK
    <3>3. left' \in [Session -> SUBSET Hash] /\ need' \in [Session -> SUBSET Hash]
      BY <2>1, <2>2, <2>3, Assumptions DEF Inv, TypeOK
    <3>4. tree' \in [Session -> [Hash -> Content \cup {NoFile}]]
      BY <2>1, <2>2, <2>3 DEF Inv, TypeOK
    <3>5. /\ file' \in [Name -> Content \cup {NoFile}]
          /\ mtime' \in [Name -> Int]
      BY <2>1, <2>2, <2>3 DEF Inv, TypeOK, Name, Content
    <3>6. \A h \in Hash : file'[h] # "part"
      BY <2>1, <2>2, <2>3, Assumptions DEF Inv, TypeOK, Name
    <3>7. /\ cutoff' \in [Session -> Int] /\ todo' \in [Session -> SUBSET Name]
          /\ victim' \in [Session -> Name]
      BY <2>1, <2>2, <2>3 DEF Inv, TypeOK
    <3>8. /\ now' \in 0..MaxTime /\ dirs' \subseteq Hash
          /\ wiping' \in {"ready", "busy", "over"} /\ crashes' \in 0..MaxCrashes
      BY <2>1, <2>2, <2>3 DEF Inv, TypeOK
    <3> QED
      BY <3>1, <3>2, <3>3, <3>4, <3>5, <3>6, <3>7, <3>8 DEF TypeOK
  <2>8. CachedIsWhole'
    BY <2>1, <2>2, <2>3, Assumptions DEF Inv, TypeOK, CachedIsWhole,
       SessionInv, Name, Content
  <2>9. ASSUME NEW t \in Session PROVE SessionInv(t)'
    <3>1. CASE t = s
      BY <2>1, <2>2, <2>3, <3>1, Assumptions DEF Inv, TypeOK, CachedIsWhole,
         SessionInv, Name, Content
    <3>2. CASE t # s
      BY <2>1, <2>2, <2>3, <3>2, Assumptions DEF Inv, TypeOK, SessionInv, Name,
         Content
    <3> QED
      BY <3>1, <3>2
  <2> QED
    BY <2>7, <2>8, <2>9 DEF Inv
<1>13. CASE RemoveOld(s)
  BY <1>13, States, Assumptions DEF Inv, TypeOK, CachedIsWhole, SessionInv,
     Name, Content, RemoveOld, Goto, Unlink, CleanOnly, cleanVars
<1>14. CASE Cleaned(s)
  BY <1>14, States, Assumptions DEF Inv, TypeOK, CachedIsWhole, SessionInv,
     Name, Content, Cleaned, Goto, Disk, CleanOnly, cleanVars
<1>15. CASE Die(s)
  BY <1>15, States, Assumptions DEF Inv, TypeOK, CachedIsWhole, SessionInv,
     Name, Content, Die, Goto, Disk, cleanVars
<1> QED
  BY <1>1, <1>2, <1>3, <1>4, <1>5, <1>6, <1>7, <1>8, <1>9, <1>10, <1>11, <1>12,
     <1>13, <1>14, <1>15 DEF Serve

\* So does whatever goes on around the sessions: it only removes files.
LEMMA WorldInv ==
    ASSUME Inv, Wiped \/ Tick \/ (\E n \in Name : WipeFile(n)) \/ (\E h \in Hash : WipeDir(h))
    PROVE  Inv'
<1> USE DEF Inv, TypeOK, CachedIsWhole, SessionInv, Name, Content
<1>1. CASE Wiped
  BY <1>1 DEF Wiped, sessionVars, cleanVars
<1>2. CASE Tick
  BY <1>2, Assumptions DEF Tick, sessionVars, cleanVars
<1>3. ASSUME NEW n \in Name, WipeFile(n) PROVE Inv'
  BY <1>3, Assumptions DEF WipeFile, Unlink, sessionVars, cleanVars
<1>4. ASSUME NEW h \in Hash, WipeDir(h) PROVE Inv'
  BY <1>4 DEF WipeDir, sessionVars, cleanVars
<1> QED
  BY <1>1, <1>2, <1>3, <1>4

\* The inductive invariant holds in every behaviour.
THEOREM Inductive == Spec => []Inv
<1>1. Inv /\ [Next]_vars => Inv'
  <2> SUFFICES ASSUME Inv, [Next]_vars PROVE Inv'
    OBVIOUS
  <2>1. CASE UNCHANGED vars
    BY <2>1 DEF Inv, TypeOK, CachedIsWhole, SessionInv, Name, Content, vars,
       sessionVars, cleanVars
  <2> QED
    BY <2>1, ServeInv, WorldInv DEF Next
<1> QED
  BY InitInv, <1>1, PTL DEF Spec

\* Every variable keeps its type, and no file named by a hash is partial.
THEOREM TypeCorrect == Spec => []TypeOK
BY Inductive, PTL DEF Inv

\* A file of the cache has the content its name is the hash of.
THEOREM WholeFiles == Spec => []CachedIsWhole
BY Inductive, PTL DEF Inv

\* A command that runs has exactly the files of its request.
THEOREM ExactTrees == Spec => []TreeIsExact
<1>1. Inv => TreeIsExact
  BY DEF Inv, SessionInv, TreeIsExact
<1> QED
  BY Inductive, <1>1, PTL

\* Only a server that died leaves a temporary file.
THEOREM TidySessions == Spec => []NoTempLeft
<1>1. Inv => NoTempLeft
  BY DEF Inv, SessionInv, NoTempLeft
<1> QED
  BY Inductive, <1>1, PTL

\* The cache has whole files under their hashes, and no session's leftovers.
THEOREM SoundCache == Spec => []CacheIsSound
BY TypeCorrect, WholeFiles, TidySessions, PTL DEF CacheIsSound
-----------------------------------------------------------------------------
(* Sessions do not disturb each other as long as nothing has grown old and *)
(* nobody runs mote clean.                                                 *)

Calm == wiping = "ready" /\ now <= MaxAge

\* The files that session s has no longer to fetch.
Fetched(s) ==
    CASE pc[s] \in {"lookup", "touch"} -> Files[s] \ (left[s] \cup need[s])
      [] pc[s] = "mkdir" -> Files[s] \ left[s]
      [] pc[s] \in {"create", "write", "rename"} -> Files[s] \ (left[s] \cup {cur[s]})
      [] pc[s] = "build" -> Files[s]
      [] OTHER -> {}

\* What session s relies on is there: the directory it is about to create a
\* file in, its temporary file, and every file it has found or saved.
Undisturbed(s) ==
    /\ left[s] \subseteq Files[s] /\ need[s] \subseteq Files[s]
    /\ cutoff[s] <= 0
    /\ pc[s] \notin {"remove", "failed"}
    /\ pc[s] = "create" => cur[s] \in dirs
    /\ pc[s] \in {"write", "rename"} => Exists(s)
    /\ \A h \in Fetched(s) : Exists(h)

CalmInv ==
    /\ Inv
    /\ \A n \in Name : mtime[n] >= 0
    /\ Calm => \A s \in Session : Undisturbed(s)
\* A step of session s takes nothing away that another one relies on.
Harmless(s) ==
    /\ now' = now /\ wiping' = wiping /\ dirs \subseteq dirs'
    /\ \A n \in Name : mtime'[n] >= 0
    /\ \A n \in Name : n # s /\ Exists(n) => file'[n] # NoFile
    /\ \A t \in Session : t # s =>
         /\ pc'[t] = pc[t] /\ cur'[t] = cur[t] /\ left'[t] = left[t]
         /\ need'[t] = need[t] /\ cutoff'[t] = cutoff[t]

LEMMA HarmlessSteps ==
    ASSUME CalmInv, Calm, NEW s \in Session, Serve(s) \/ Die(s)
    PROVE  Harmless(s)
<1>1. /\ TypeOK /\ Undisturbed(s) /\ SessionInv(s)
      /\ \A n \in Name : mtime[n] >= 0
  BY DEF CalmInv, Inv
<1>2. s \in Name /\ now \in Nat /\ now >= 0 /\ pc[s] # "remove"
  BY <1>1, Assumptions DEF TypeOK, Name, Undisturbed
<1> USE <1>1, <1>2, Assumptions DEF TypeOK, Name, Goto, Write, Unlink, Disk, NotCleaning,
        CleanOnly, cleanVars, Harmless
<1>3. CASE Lookup(s)
  BY <1>3 DEF Lookup
<1>4. CASE Touch(s)
  BY <1>4 DEF Touch
<1>5. CASE Looked(s)
  BY <1>5 DEF Looked
<1>6. CASE Mkdir(s)
  BY <1>6 DEF Mkdir
<1>7. CASE CreateTemp(s)
  <2>1. \/ file' = [file EXCEPT ![s] = "part"] /\ mtime' = [mtime EXCEPT ![s] = now]
        \/ file' = file /\ mtime' = mtime
    BY <1>7 DEF CreateTemp
  <2>2. \A n \in Name : mtime'[n] >= 0
    BY <2>1
  <2>3. \A n \in Name : n # s /\ Exists(n) => file'[n] # NoFile
    BY <2>1
  <2> QED
    BY <1>7, <2>2, <2>3 DEF CreateTemp
<1>8. CASE Receive(s)
  <2>1. \/ file' = file
        \/ \E c \in Content \cup {NoFile} : file' = [file EXCEPT ![s] = c]
    BY <1>8 DEF Receive, SessionInv, Content
  <2>2. mtime' = mtime \/ mtime' = [mtime EXCEPT ![s] = now]
    BY <1>8 DEF Receive
  <2>3. \A n \in Name : mtime'[n] >= 0
    BY <2>2
  <2>4. \A n \in Name : n # s /\ Exists(n) => file'[n] # NoFile
    BY <2>1
  <2> QED
    BY <1>8, <2>3, <2>4 DEF Receive
<1>9. CASE Rename(s)
  <2>1. CASE ~Exists(s)
    BY <1>9, <2>1 DEF Rename
  <2>2. CASE Exists(s)
    <3>1. /\ cur[s] \in Name /\ NoFile # cur[s] /\ file[s] = cur[s]
          /\ file' = [file EXCEPT ![cur[s]] = file[s], ![s] = NoFile]
          /\ mtime' = [mtime EXCEPT ![cur[s]] = mtime[s]]
      BY <1>9, <2>2 DEF Rename, SessionInv
    <3>2. \A n \in Name : mtime'[n] >= 0
      BY <3>1
    <3>3. \A n \in Name : n # s /\ Exists(n) => file'[n] # NoFile
      BY <2>2, <3>1
    <3> QED
      BY <1>9, <2>2, <3>2, <3>3 DEF Rename
  <2> QED
    BY <2>1, <2>2
<1>10. CASE CopyOut(s)
  BY <1>10 DEF CopyOut
<1>11. CASE StartCommand(s)
  BY <1>11 DEF StartCommand
<1>12. CASE Cutoff(s)
  BY <1>12 DEF Cutoff
<1>13. CASE ReadDir(s)
  BY <1>13 DEF ReadDir
<1>14. CASE Inspect(s)
  BY <1>14 DEF Inspect
<1>15. CASE RemoveOld(s)
  BY <1>15 DEF RemoveOld
<1>16. CASE Cleaned(s)
  BY <1>16 DEF Cleaned
<1>17. CASE Die(s)
  BY <1>17 DEF Die
<1> QED
  BY <1>3, <1>4, <1>5, <1>6, <1>7, <1>8, <1>9, <1>10, <1>11, <1>12, <1>13,
     <1>14, <1>15, <1>16, <1>17 DEF Serve

\* Nor does it lose what the session itself relies on.
LEMMA OwnSteps ==
    ASSUME CalmInv, Calm, NEW s \in Session, Serve(s) \/ Die(s)
    PROVE  Undisturbed(s)'
<1>1. /\ TypeOK /\ CachedIsWhole /\ Undisturbed(s) /\ SessionInv(s)
      /\ \A n \in Name : mtime[n] >= 0
  BY DEF CalmInv, Inv
<1>2. /\ s \in Name /\ Hash \subseteq Name /\ s \notin Hash /\ now \in Nat /\ now <= MaxAge
      /\ MaxAge \in Nat /\ Files[s] \subseteq Hash /\ NoFile \notin Hash /\ NoFile # "part"
  BY <1>1, Assumptions DEF TypeOK, Name, Calm, Content
<1> USE <1>1, <1>2 DEF TypeOK, Goto, Write, Unlink, Disk, NotCleaning,
        CleanOnly, cleanVars, Undisturbed, Fetched
<1>3. CASE Lookup(s)
  BY <1>3 DEF Lookup
<1>4. CASE Touch(s)
  BY <1>4 DEF Touch
<1>5. CASE Looked(s)
  BY <1>5 DEF Looked
<1>6. CASE Mkdir(s)
  BY <1>6 DEF Mkdir
<1>7. CASE CreateTemp(s)
  BY <1>7 DEF CreateTemp
<1>8. CASE Receive(s)
  BY <1>8 DEF Receive, SessionInv
<1>9. CASE Rename(s)
  <2>1. /\ pc[s] = "rename" /\ cur[s] \in Hash /\ Exists(s) /\ file[s] = cur[s]
        /\ \A h \in Files[s] \ (left[s] \cup {cur[s]}) : Exists(h)
    BY <1>9 DEF Rename, SessionInv
  <2>2. /\ file' = [file EXCEPT ![cur[s]] = file[s], ![s] = NoFile]
        /\ pc'[s] = IF left[s] = {} THEN "build" ELSE "mkdir"
        /\ left'[s] = IF left[s] = {} THEN Files[s] ELSE left[s]
        /\ need'[s] = need[s] /\ cutoff'[s] = cutoff[s]
    BY <1>9, <2>1 DEF Rename
  <2>3. \A h \in Files[s] : h = cur[s] \/ Exists(h) => file'[h] # NoFile
    BY <2>1, <2>2
  <2>4. left[s] = {} => \A h \in Files[s] : file'[h] # NoFile
    BY <2>1, <2>3
  <2>5. \A h \in Files[s] \ left[s] : file'[h] # NoFile
    BY <2>1, <2>3
  <2>6. CASE left[s] = {}
    BY <2>2, <2>4, <2>6
  <2>7. CASE left[s] # {}
    BY <2>2, <2>5, <2>7
  <2> QED
    BY <2>6, <2>7
<1>10. CASE CopyOut(s)
  BY <1>10 DEF CopyOut
<1>11. CASE StartCommand(s)
  BY <1>11 DEF StartCommand
<1>12. CASE Cutoff(s)
  BY <1>12 DEF Cutoff
<1>13. CASE ReadDir(s)
  BY <1>13 DEF ReadDir
<1>14. CASE Inspect(s)
  BY <1>14 DEF Inspect
<1>15. CASE RemoveOld(s)
  BY <1>15 DEF RemoveOld
<1>16. CASE Cleaned(s)
  BY <1>16 DEF Cleaned
<1>17. CASE Die(s)
  BY <1>17 DEF Die
<1> QED
  BY <1>3, <1>4, <1>5, <1>6, <1>7, <1>8, <1>9, <1>10, <1>11, <1>12, <1>13,
     <1>14, <1>15, <1>16, <1>17 DEF Serve

LEMMA CalmStep == CalmInv /\ Inv' /\ [Next]_vars => CalmInv'
<1> SUFFICES ASSUME CalmInv, Inv', [Next]_vars PROVE CalmInv'
  OBVIOUS
<1> USE DEF CalmInv
<1>1. TypeOK /\ now \in Nat /\ now >= 0 /\ MaxAge \in Nat
  BY Assumptions DEF Inv, TypeOK
<1>2. ASSUME NEW s \in Session, Serve(s) \/ Die(s) PROVE CalmInv'
  <2>1. now' = now /\ wiping' = wiping
    BY <1>2 DEF Serve, Lookup, Touch, Looked, Mkdir, CreateTemp, Receive, Rename,
       CopyOut, StartCommand, Cutoff, ReadDir, Inspect, RemoveOld, Cleaned, Die,
       NotCleaning, CleanOnly
  <2>2. \A n \in Name : mtime'[n] >= 0
    <3> USE <1>1 DEF TypeOK, Disk, Write, Unlink
    <3>1. \/ mtime' = mtime
          \/ \E n \in Name : mtime' = [mtime EXCEPT ![n] = now]
          \/ \E n, m \in Name : mtime' = [mtime EXCEPT ![n] = mtime[m]]
      <4>1. s \in Name /\ (pc[s] \in {"touch", "rename"} => cur[s] \in Name)
        BY DEF Inv, SessionInv, Name
      <4>2. CASE Touch(s)
        BY <4>1, <4>2 DEF Touch
      <4>3. CASE CreateTemp(s) \/ Receive(s)
        BY <4>1, <4>3 DEF CreateTemp, Receive
      <4>4. CASE Rename(s)
        BY <4>1, <4>4 DEF Rename
      <4> QED
        BY <1>2, <4>2, <4>3, <4>4 DEF Serve, Lookup, Looked, Mkdir, CopyOut,
           StartCommand, Cutoff, ReadDir, Inspect, RemoveOld, Cleaned, Die
    <3> QED
      BY <3>1
  <2>3. ASSUME Calm', NEW t \in Session PROVE Undisturbed(t)'
    <3>1. Calm /\ Undisturbed(t)
      BY <2>1, <2>3 DEF Calm
    <3>2. CASE t = s
      BY <1>2, <3>1, <3>2, OwnSteps
    <3>3. CASE t # s
      <4>1. Harmless(s)
        BY <1>2, <3>1, HarmlessSteps
      <4>2. Fetched(t)' = Fetched(t)
        BY <3>3, <4>1 DEF Fetched, Harmless
      <4>3. Fetched(t) \subseteq Name /\ t \in Name /\ \A h \in Fetched(t) : h # s
        BY Assumptions DEF Fetched, Name
      <4> QED
        BY <3>1, <3>3, <4>1, <4>2, <4>3 DEF Undisturbed, Harmless
    <3> QED
      BY <3>2, <3>3
  <2> QED
    BY <2>2, <2>3
<1>3. CASE Tick
  <2>1. /\ UNCHANGED <<file, mtime, dirs, pc, cur, left, need, cutoff>>
        /\ Calm' => Calm
    BY <1>1, <1>3 DEF Tick, Calm, sessionVars, cleanVars
  <2> QED
    BY <2>1 DEF Undisturbed, Fetched
<1>4. CASE Wiped \/ (\E n \in Name : WipeFile(n)) \/ (\E h \in Hash : WipeDir(h))
  BY <1>4 DEF Wiped, WipeFile, WipeDir, Unlink, Calm
<1>5. CASE UNCHANGED vars
  BY <1>5 DEF vars, sessionVars, cleanVars, Calm, Undisturbed, Fetched
<1> QED
  BY <1>2, <1>3, <1>4, <1>5 DEF Next

\* Until something grows old, or somebody runs mote clean, the only reason
\* for a session to fail is its own upload: however many sessions save,
\* copy and clean the same files, and whichever of them dies meanwhile.
THEOREM Undisturbing == Spec => []OnlyOwnUploadFails
<1>1. Init => CalmInv
  <2> SUFFICES ASSUME Init PROVE CalmInv
    OBVIOUS
  <2>1. Inv
    BY InitInv
  <2> QED
    BY <2>1, Assumptions DEF Init, CalmInv, Calm, Undisturbed, Fetched
<1>2. CalmInv => OnlyOwnUploadFails
  BY DEF CalmInv, Calm, Undisturbed, OnlyOwnUploadFails
<1> QED
  BY Inductive, <1>1, <1>2, CalmStep, PTL DEF Spec
=============================================================================
