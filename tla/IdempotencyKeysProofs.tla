----------------------- MODULE IdempotencyKeysProofs -----------------------
(***************************************************************************)
(* Proofs about IdempotencyKeys for every set of keys, pruners and files   *)
(* and every bound on orders and crashes.                                  *)
(***************************************************************************)
EXTENDS IdempotencyKeys, TLAPS

USE ConstantsOK DEF Actors

-----------------------------------------------------------------------------
(* The inductive invariant *)

\* The actor is about to replace the file by what it has read from it.
Rewriting(a) == pc[a] \in {"open", "fill", "replace"}

\* The order handler is past ensure_new, and its key is not spent yet.
Handling == \/ pc[Loop] = "await"
            \/ goal[Loop] = "remember"
            \/ Rewriting(Loop) /\ goal[Loop] = "none"

\* What holds of the control state, overlap or not.
ControlInv ==
    /\ \A a \in Actors : /\ pc[a] = "read" => goal[a] # "none"
                         /\ fd[a] \in Inodes <=> pc[a] = "fill"
    /\ \A a \in Pruners : pc[a] # "idle" => goal[a] = "prune"
    /\ Handling \/ goal[Loop] = "ensure" => key \in Keys

\* While no two rewrites have overlapped, there is at most one; ...
AloneInv == \A a, b \in Actors : Rewriting(a) /\ Rewriting(b) => a = b

\* ... the file is whole, and retains the keys that were spent, no more and no
\* less; ...
FileInv ==
    /\ disk[file] # Torn
    /\ \A k \in Keys : sent[k] > 0 <=> disk[file][k] \in {"legacy", "new"}

\* The key that the rewrite adds to the file, once the handler is in remember.
Adds(a, k) == goal[a] = "none" /\ k = key

\* ... so does what will replace it, with the key it adds; ...
RewriterInv(a) ==
    /\ Rewriting(a) => \A k \in Keys : /\ mem[a][k] # "legacy"
                                       /\ mem[a][k] = "new" <=> sent[k] > 0 \/ Adds(a, k)
    /\ pc[a] = "fill" => fd[a] = tmp /\ disk[tmp] = Torn
    /\ pc[a] = "replace" => tmp # None /\ disk[tmp] = mem[a]

\* ... and the key of the order being handled is not spent yet.
HandlerInv ==
    /\ NoKeyTwice
    /\ Handling => sent[key] = 0

QuietInv == /\ AloneInv /\ FileInv /\ HandlerInv
            /\ \A a \in Actors : RewriterInv(a)

KeysInv == /\ TypeOK
           /\ ControlInv
           /\ ~overlapped => QuietInv

-----------------------------------------------------------------------------
(* Lemmas about reading *)

\* _normalize and _pruned return entries; they keep every key that is still
\* within its retention period, and invent none.
LEMMA KeptEntries ==
  ASSUME NEW d \in Entries
  PROVE  /\ Kept(d) \in Entries
         /\ \A k \in Keys : /\ d[k] \in {"legacy", "new"} <=> Kept(d)[k] = "new"
                            /\ Kept(d)[k] # "legacy"
  BY DEF Kept, Entries, Stamps

\* What a read finds is a dictionary, whatever the file holds.
LEMMA RawEntries ==
  ASSUME TypeOK
  PROVE  Raw \in Entries
  BY DEF TypeOK, Raw, Empty, Entries, Stamps

\* The end of a _read keeps the types.
LEMMA AfterReadTypes ==
  ASSUME TypeOK, NEW a \in Actors, NEW d \in Entries, goal[a] # "none", AfterRead(a, d)
  PROVE  /\ pc' \in [Actors -> {"idle", "read", "await", "open", "fill", "replace"}]
         /\ goal' \in [Actors -> Goals] /\ mem' \in [Actors -> Entries]
         /\ key' \in Keys \cup {None} /\ up' \in BOOLEAN
<1>1. goal[a] \in {"ensure", "remember", "prune"}
  BY DEF TypeOK, Goals
<1>2. CASE goal[a] = "ensure"
  BY <1>2 DEF TypeOK, AfterRead, Goals
<1>3. CASE goal[a] = "remember"
  BY <1>3 DEF TypeOK, AfterRead, Goals, Entries, Stamps
<1>4. CASE goal[a] = "prune"
  BY <1>4 DEF TypeOK, AfterRead, Goals
<1> QED
  BY <1>1, <1>2, <1>3, <1>4

-----------------------------------------------------------------------------
(* Type correctness *)

\* No key at all is a dictionary.
LEMMA EmptyEntries == Empty \in Entries
  BY DEF Empty, Entries, Stamps

\* Files left by earlier runs have the types, ...
LEMMA TypeInit == Init => TypeOK
<1> SUFFICES ASSUME Init PROVE TypeOK
  OBVIOUS
<1>1. PICK i \in Inodes, old \in [Keys -> {"absent", "legacy", "new"}] :
        /\ file = i
        /\ disk = [j \in Inodes |-> IF j = i THEN old ELSE Torn]
        /\ sent = [k \in Keys |-> IF old[k] = "absent" THEN 0 ELSE 1]
  BY DEF Init
<1>2. old \in Entries
  BY DEF Entries, Stamps
<1>3. disk \in [Inodes -> Entries \cup {Torn}] /\ sent \in [Keys -> Nat]
  BY <1>1, <1>2
<1>4. mem \in [Actors -> Entries]
  BY EmptyEntries DEF Init
<1>5. /\ file \in Inodes /\ tmp \in Inodes \cup {None} /\ tmp # file
      /\ key \in Keys \cup {None} /\ up \in BOOLEAN /\ overlapped \in BOOLEAN
      /\ orders \in 0..MaxOrders /\ crashes \in 0..MaxCrashes
  <2>1. tmp = None /\ key = None /\ ~up /\ ~overlapped /\ orders = 0 /\ crashes = 0
        /\ up \in BOOLEAN /\ overlapped \in BOOLEAN
    BY DEF Init
  <2> QED
    BY <1>1, <2>1
<1>6. /\ pc \in [Actors -> {"idle", "read", "await", "open", "fill", "replace"}]
      /\ goal \in [Actors -> Goals] /\ fd \in [Actors -> Inodes \cup {None}]
  BY DEF Init, Goals
<1> QED
  BY <1>3, <1>4, <1>5, <1>6 DEF TypeOK

\* ... and every step keeps them.
LEMMA TypeNext ==
  ASSUME TypeOK, ControlInv, [Next]_vars
  PROVE  TypeOK'
<1>1. ASSUME NEW k \in Keys, StartOrder(k) PROVE TypeOK'
  BY <1>1 DEF StartOrder, TypeOK, Goals
<1>2. ASSUME NEW k \in Keys, Expire(k) PROVE TypeOK'
  BY <1>2 DEF Expire, TypeOK, Entries, Stamps
<1>3. CASE Resume \/ Abandon
  BY <1>3 DEF Resume, Abandon, TypeOK, Goals
<1>4. ASSUME NEW a \in Actors, StartPrune(a) PROVE TypeOK'
  BY <1>4 DEF StartPrune, TypeOK, Goals
<1>5. ASSUME NEW a \in Actors, Read(a) PROVE TypeOK'
  <2>1. Kept(Raw) \in Entries
    BY RawEntries, KeptEntries
  <2>2. overlapped' \in BOOLEAN
    BY <1>5 DEF Read, NoteOverlap, TypeOK
  <2>3. CASE Kept(Raw) = Raw
    <3>1. AfterRead(a, Kept(Raw)) /\ goal[a] # "none"
      BY <1>5, <2>3 DEF Read, ControlInv
    <3> QED
      BY <1>5, <2>1, <2>2, <3>1, AfterReadTypes DEF Read, TypeOK
  <2>4. CASE Kept(Raw) # Raw
    BY <1>5, <2>1, <2>2, <2>4 DEF Read, TypeOK
  <2> QED
    BY <2>3, <2>4
<1>6. ASSUME NEW a \in Actors, Open(a) PROVE TypeOK'
  <2>1. overlapped' \in BOOLEAN
    BY <1>6 DEF Open, NoteOverlap, TypeOK
  <2> QED
    BY <1>6, <2>1 DEF Open, TypeOK
<1>7. ASSUME NEW a \in Actors, Fill(a) PROVE TypeOK'
  <2>1. overlapped' \in BOOLEAN
    BY <1>7 DEF Fill, NoteOverlap, TypeOK
  <2> QED
    BY <1>7, <2>1 DEF Fill, TypeOK
<1>8. ASSUME NEW a \in Actors, Replace(a) PROVE TypeOK'
  <2>1. overlapped' \in BOOLEAN
    BY <1>8 DEF Replace, NoteOverlap, TypeOK
  <2>2. CASE goal[a] = "none"
    BY <1>8, <2>1, <2>2 DEF Replace, TypeOK
  <2>3. CASE goal[a] # "none"
    <3>1. mem[a] \in Entries /\ AfterRead(a, mem[a])
      BY <1>8, <2>3 DEF Replace, TypeOK
    <3> QED
      BY <1>8, <2>1, <2>3, <3>1, AfterReadTypes DEF Replace, TypeOK
  <2> QED
    BY <2>2, <2>3
<1>9. ASSUME NEW a \in Actors, ReplaceRaises(a) PROVE TypeOK'
  BY <1>9 DEF ReplaceRaises, TypeOK, Goals
<1>10. CASE Crash
  <2>1. mem' \in [Actors -> Entries]
    BY <1>10, EmptyEntries DEF Crash
  <2>2. crashes' \in 0..MaxCrashes
    BY <1>10 DEF Crash, TypeOK
  <2>3. /\ pc' \in [Actors -> {"idle", "read", "await", "open", "fill", "replace"}]
        /\ goal' \in [Actors -> Goals] /\ fd' \in [Actors -> Inodes \cup {None}]
    BY <1>10 DEF Crash, Goals
  <2> QED
    BY <1>10, <2>1, <2>2, <2>3 DEF Crash, TypeOK
<1>11. CASE UNCHANGED vars
  BY <1>11 DEF vars, TypeOK
<1> QED
  BY <1>1, <1>2, <1>3, <1>4, <1>5, <1>6, <1>7, <1>8, <1>9, <1>10, <1>11 DEF Next

-----------------------------------------------------------------------------
(* The control state *)

\* Where a _read can lead, and what it does to the key.
LEMMA AfterReadGoes ==
  ASSUME TypeOK, NEW a \in Actors, NEW d \in Entries, goal[a] # "none", AfterRead(a, d)
  PROVE  /\ \E to \in {"idle", "await", "open"} : pc' = [pc EXCEPT ![a] = to]
         /\ goal' = [goal EXCEPT ![a] = "none"]
         /\ goal[a] = "ensure" =>
              /\ mem' = [mem EXCEPT ![a] = d]
              /\ \/ pc' = [pc EXCEPT ![a] = "await"] /\ key' = key /\ d[key] = "absent"
                 \/ pc' = [pc EXCEPT ![a] = "idle"]
         /\ goal[a] = "remember" =>
              /\ pc' = [pc EXCEPT ![a] = "open"] /\ key' = key
              /\ mem' = [mem EXCEPT ![a] = [d EXCEPT ![key] = "new"]]
         /\ goal[a] = "prune" =>
              /\ pc' = [pc EXCEPT ![a] = "idle"] /\ key' = key
              /\ mem' = [mem EXCEPT ![a] = d]
<1>1. goal[a] \in {"ensure", "remember", "prune"}
  BY DEF TypeOK, Goals
<1>2. CASE goal[a] = "ensure"
  <2>1. /\ pc' = [pc EXCEPT ![a] = IF d[key] = "absent" THEN "await" ELSE "idle"]
        /\ key' = IF d[key] = "absent" THEN key ELSE None
        /\ goal' = [goal EXCEPT ![a] = "none"] /\ mem' = [mem EXCEPT ![a] = d]
    BY <1>2 DEF AfterRead
  <2> QED
    BY <1>2, <2>1
<1>3. CASE goal[a] = "remember"
  BY <1>3 DEF AfterRead
<1>4. CASE goal[a] = "prune"
  BY <1>4 DEF AfterRead
<1> QED
  BY <1>1, <1>2, <1>3, <1>4

\* The end of a _read keeps the control state.
LEMMA AfterReadControl ==
  ASSUME TypeOK, ControlInv, NEW a \in Actors, NEW d \in Entries, goal[a] # "none",
         pc[a] \in {"read", "replace"}, AfterRead(a, d), UNCHANGED fd
  PROVE  ControlInv'
<1> USE DEF ControlInv, Handling, Rewriting
<1>0. /\ pc \in [Actors -> {"idle", "read", "await", "open", "fill", "replace"}]
      /\ goal \in [Actors -> Goals] /\ fd \in [Actors -> Inodes \cup {None}]
      /\ Loop \in Actors
  BY DEF TypeOK
<1>1. PICK to \in {"idle", "await", "open"} :
        /\ pc' = [pc EXCEPT ![a] = to] /\ goal' = [goal EXCEPT ![a] = "none"]
        /\ goal[a] = "ensure" => (to = "await" /\ key' = key) \/ to = "idle"
        /\ goal[a] = "remember" => to = "open" /\ key' = key
        /\ goal[a] = "prune" => to = "idle" /\ key' = key
  BY <1>0, AfterReadGoes
<1>2. goal[a] \in {"ensure", "remember", "prune"}
  BY <1>0 DEF Goals
<1>3. \A b \in Actors : /\ pc'[b] = "read" => goal'[b] # "none"
                        /\ fd'[b] \in Inodes <=> pc'[b] = "fill"
  BY <1>0, <1>1
<1>4. \A b \in Pruners : pc'[b] # "idle" => goal'[b] = "prune"
  BY <1>0, <1>1, <1>2
<1>5. CASE a = Loop
  BY <1>0, <1>1, <1>2, <1>3, <1>4, <1>5
<1>6. CASE a # Loop
  <2>1. goal[a] = "prune"
    BY <1>6
  <2> QED
    BY <1>0, <1>1, <1>3, <1>4, <1>6, <2>1
<1> QED
  BY <1>5, <1>6

\* Every step keeps it.
LEMMA ControlNext ==
  ASSUME TypeOK, ControlInv, [Next]_vars
  PROVE  ControlInv'
<1> USE DEF ControlInv, Handling, Rewriting
<1>0. /\ pc \in [Actors -> {"idle", "read", "await", "open", "fill", "replace"}]
      /\ goal \in [Actors -> Goals] /\ fd \in [Actors -> Inodes \cup {None}]
      /\ Loop \in Actors
  BY DEF TypeOK
<1>1. ASSUME NEW k \in Keys, StartOrder(k) PROVE ControlInv'
  BY <1>0, <1>1 DEF StartOrder
<1>2. ASSUME NEW k \in Keys, Expire(k) PROVE ControlInv'
  BY <1>2 DEF Expire
<1>3. CASE Resume \/ Abandon
  BY <1>0, <1>3 DEF Resume, Abandon
<1>4. ASSUME NEW a \in Actors, StartPrune(a) PROVE ControlInv'
  BY <1>0, <1>4 DEF StartPrune
<1>5. ASSUME NEW a \in Actors, Read(a) PROVE ControlInv'
  <2>1. CASE Kept(Raw) = Raw
    <3>1. AfterRead(a, Kept(Raw)) /\ goal[a] # "none" /\ Kept(Raw) \in Entries
      BY <1>5, <2>1, RawEntries DEF Read
    <3> QED
      BY <1>5, <3>1, AfterReadControl DEF Read
  <2>2. CASE Kept(Raw) # Raw
    BY <1>0, <1>5, <2>2 DEF Read
  <2> QED
    BY <2>1, <2>2
<1>6. ASSUME NEW a \in Actors, Open(a) PROVE ControlInv'
  <2>1. PICK i \in Inodes : /\ fd' = [fd EXCEPT ![a] = i]
                            /\ pc[a] = "open" /\ pc' = [pc EXCEPT ![a] = "fill"]
                            /\ UNCHANGED <<goal, key>>
    BY <1>6 DEF Open, TypeOK
  <2> QED
    BY <1>0, <2>1
<1>7. ASSUME NEW a \in Actors, Fill(a) PROVE ControlInv'
  BY <1>0, <1>7 DEF Fill
<1>8. ASSUME NEW a \in Actors, Replace(a) PROVE ControlInv'
  <2>2. CASE goal[a] = "none"
    BY <1>0, <1>8, <2>2 DEF Replace
  <2>3. CASE goal[a] # "none"
    <3>1. mem[a] \in Entries /\ AfterRead(a, mem[a])
      BY <1>8, <2>3 DEF Replace, TypeOK
    <3> QED
      BY <1>8, <2>3, <3>1, AfterReadControl DEF Replace
  <2> QED
    BY <2>2, <2>3
<1>9. ASSUME NEW a \in Actors, ReplaceRaises(a) PROVE ControlInv'
  BY <1>0, <1>9 DEF ReplaceRaises
<1>10. CASE Crash
  BY <1>10 DEF Crash
<1>11. CASE UNCHANGED vars
  BY <1>11 DEF vars
<1> QED
  BY <1>1, <1>2, <1>3, <1>4, <1>5, <1>6, <1>7, <1>8, <1>9, <1>10, <1>11 DEF Next

-----------------------------------------------------------------------------
(* While no two rewrites have overlapped *)

\* NoteOverlap sees two rewrites that are under way.
LEMMA NotedAlone ==
  ASSUME NoteOverlap, ~overlapped'
  PROVE  AloneInv' /\ ~overlapped
  BY DEF NoteOverlap, AloneInv, Rewriting

\* A whole file that holds the spent keys is read as such.
LEMMA KeptSpent ==
  ASSUME TypeOK, FileInv
  PROVE  /\ Raw = disk[file] /\ Raw \in Entries
         /\ \A k \in Keys : /\ sent[k] > 0 <=> Kept(Raw)[k] = "new"
                            /\ Kept(Raw)[k] # "legacy"
  BY RawEntries, KeptEntries DEF Raw, FileInv

\* The end of a _read, of a file that holds the spent keys.
LEMMA AfterReadQuiet ==
  ASSUME TypeOK, ControlInv, TypeOK', NEW a \in Actors, NEW d \in Entries, goal[a] # "none",
         pc[a] \in {"read", "replace"}, AfterRead(a, d), HandlerInv,
         \A k \in Keys : d[k] # "legacy" /\ (d[k] = "new" <=> sent[k] > 0), UNCHANGED sent
  PROVE  /\ HandlerInv'
         /\ Rewriting(a)' => \A k \in Keys :
              mem'[a][k] # "legacy" /\ (mem'[a][k] = "new" <=> sent[k] > 0 \/ Adds(a, k)')
<1>0. /\ pc \in [Actors -> {"idle", "read", "await", "open", "fill", "replace"}]
      /\ goal \in [Actors -> Goals] /\ mem \in [Actors -> Entries]
      /\ Loop \in Actors /\ sent \in [Keys -> Nat]
  BY DEF TypeOK
<1>1. goal[a] \in {"ensure", "remember", "prune"}
  BY <1>0 DEF Goals
<1>2. goal' = [goal EXCEPT ![a] = "none"]
  BY AfterReadGoes
<1>3. CASE goal[a] = "ensure"
  <2>1. a = Loop /\ key \in Keys
    BY <1>3, <1>0 DEF ControlInv
  <2>2. mem' = [mem EXCEPT ![a] = d]
    BY <1>3, AfterReadGoes
  <2>3. \/ pc' = [pc EXCEPT ![a] = "await"] /\ key' = key /\ d[key] = "absent"
        \/ pc' = [pc EXCEPT ![a] = "idle"]
    BY <1>3, AfterReadGoes
  <2>4. d[key] = "absent" => sent[key] = 0
    BY <1>0, <2>1
  <2> QED
    BY <1>0, <1>2, <2>1, <2>3, <2>4 DEF HandlerInv, NoKeyTwice, Handling, Rewriting
<1>4. CASE goal[a] = "remember"
  <2>1. a = Loop /\ key \in Keys /\ sent[key] = 0
    BY <1>4, <1>0 DEF ControlInv, HandlerInv, Handling
  <2>2. /\ pc' = [pc EXCEPT ![a] = "open"] /\ key' = key
        /\ mem' = [mem EXCEPT ![a] = [d EXCEPT ![key] = "new"]]
    BY <1>4, AfterReadGoes
  <2>3. /\ mem'[a] \in Entries /\ mem'[a][key] = "new"
        /\ \A k \in Keys : k # key => mem'[a][k] = d[k]
    BY <1>0, <2>1, <2>2 DEF Entries, Stamps
  <2>4. \A k \in Keys : Adds(a, k)' <=> k = key
    BY <1>0, <1>2, <2>1, <2>2 DEF Adds
  <2>5. HandlerInv'
    BY <1>0, <1>2, <2>1, <2>2 DEF HandlerInv, NoKeyTwice, Handling, Rewriting
  <2> QED
    BY <2>3, <2>4, <2>5
<1>5. CASE goal[a] = "prune"
  <2>1. /\ pc' = [pc EXCEPT ![a] = "idle"] /\ key' = key
        /\ mem' = [mem EXCEPT ![a] = d]
    BY <1>5, AfterReadGoes
  <2> QED
    BY <1>0, <1>2, <1>5, <2>1 DEF HandlerInv, NoKeyTwice, Handling, Rewriting
<1> QED
  BY <1>1, <1>3, <1>4, <1>5

\* The end of a _read leaves the others alone, and the key that one of them adds.
LEMMA AfterReadKey ==
  ASSUME TypeOK, ControlInv, NEW a \in Actors, NEW d \in Entries, goal[a] # "none",
         pc[a] # "idle", AfterRead(a, d), NEW b \in Actors \ {a}, Rewriting(b)
  PROVE  goal'[b] = goal[b] /\ (goal[b] = "none" => key' = key)
<1>1. goal'[b] = goal[b]
  BY AfterReadGoes DEF TypeOK
<1>2. ASSUME goal[b] = "none" PROVE goal[a] = "prune"
  BY <1>2 DEF ControlInv, Rewriting
<1> QED
  BY <1>1, <1>2, AfterReadGoes

\* RewriterInv says nothing of an actor that is not rewriting the file.
LEMMA OthersQuiet ==
  ASSUME NEW a \in Actors, AloneInv', Rewriting(a)'
  PROVE  \A b \in Actors \ {a} : RewriterInv(b)'
  BY DEF AloneInv, RewriterInv, Adds, Rewriting

\* A step that touches neither files nor dictionaries, and starts no rewrite.
LEMMA NothingTouched ==
  ASSUME QuietInv, UNCHANGED <<disk, file, tmp, mem, fd, sent>>,
         \A a \in Actors : Rewriting(a)' => /\ UNCHANGED <<pc[a], goal[a]>>
                                            /\ goal[a] = "none" => UNCHANGED key,
         HandlerInv'
  PROVE  QuietInv'
  BY DEF QuietInv, AloneInv, FileInv, RewriterInv, Adds, Rewriting

\* A read starts a rewrite at most while nobody else is at one.
LEMMA QuietRead ==
  ASSUME TypeOK, ControlInv, TypeOK', QuietInv, NEW a \in Actors, Read(a), ~overlapped'
  PROVE  QuietInv'
<1> USE DEF QuietInv
<1>0. /\ pc \in [Actors -> {"idle", "read", "await", "open", "fill", "replace"}]
      /\ mem \in [Actors -> Entries] /\ Loop \in Actors /\ pc[a] = "read"
      /\ UNCHANGED <<disk, file, tmp, fd, sent>>
  BY DEF TypeOK, Read
<1>1. AloneInv'
  BY NotedAlone DEF Read
<1>2. FileInv'
  BY <1>0 DEF FileInv
<1>3. /\ HandlerInv'
      /\ Rewriting(a)' => \A k \in Keys :
           mem'[a][k] # "legacy" /\ (mem'[a][k] = "new" <=> sent[k] > 0 \/ Adds(a, k)')
      /\ \A b \in Actors \ {a} :
           /\ pc'[b] = pc[b] /\ mem'[b] = mem[b]
           /\ Rewriting(b) => goal'[b] = goal[b] /\ (goal[b] = "none" => key' = key)
      /\ pc'[a] \notin {"fill", "replace"}
  <2>1. CASE Kept(Raw) = Raw
    <3>1. /\ AfterRead(a, Kept(Raw)) /\ goal[a] # "none" /\ Kept(Raw) \in Entries
      BY <1>0, <2>1, RawEntries DEF Read, ControlInv
    <3>2. \E to \in {"idle", "await", "open"} : pc' = [pc EXCEPT ![a] = to]
      BY <3>1, AfterReadGoes
    <3>3. \E d : mem' = [mem EXCEPT ![a] = d]
      BY <3>1, AfterReadGoes DEF TypeOK, Goals
    <3>4. \A b \in Actors \ {a} :
            Rewriting(b) => goal'[b] = goal[b] /\ (goal[b] = "none" => key' = key)
      BY <1>0, <3>1, AfterReadKey
    <3> QED
      BY <1>0, <3>1, <3>2, <3>3, <3>4, KeptSpent, AfterReadQuiet
  <2>2. CASE Kept(Raw) # Raw
    <3>1. /\ pc' = [pc EXCEPT ![a] = "open"] /\ mem' = [mem EXCEPT ![a] = Kept(Raw)]
          /\ UNCHANGED <<goal, key>> /\ goal[a] # "none"
      BY <1>0, <2>2 DEF Read, ControlInv
    <3> QED
      BY <1>0, <3>1, KeptSpent DEF HandlerInv, NoKeyTwice, Handling, Rewriting, Adds
  <2> QED
    BY <2>1, <2>2
<1>4. \A b \in Actors : RewriterInv(b)'
  BY <1>0, <1>3 DEF RewriterInv, Adds, Rewriting
<1> QED
  BY <1>1, <1>2, <1>3, <1>4

\* The temporary file is not the file; it is truncated, new or left over.
LEMMA QuietOpen ==
  ASSUME TypeOK, ControlInv, TypeOK', QuietInv, NEW a \in Actors, Open(a), ~overlapped'
  PROVE  QuietInv'
<1> USE DEF QuietInv
<1>0. /\ pc \in [Actors -> {"idle", "read", "await", "open", "fill", "replace"}]
      /\ fd \in [Actors -> Inodes \cup {None}] /\ disk \in [Inodes -> Entries \cup {Torn}]
      /\ file \in Inodes /\ Loop \in Actors /\ pc[a] = "open"
      /\ pc' = [pc EXCEPT ![a] = "fill"] /\ UNCHANGED <<file, goal, mem, key, sent>>
  BY DEF TypeOK, Open
<1>1. AloneInv'
  BY NotedAlone DEF Open
<1>2. PICK i \in Inodes : /\ i # file /\ tmp' = i
                          /\ disk' = [disk EXCEPT ![i] = Torn]
                          /\ fd' = [fd EXCEPT ![a] = i]
  BY DEF Open, TypeOK
<1>3. FileInv'
  BY <1>0, <1>2 DEF FileInv
<1>4. HandlerInv'
  BY <1>0 DEF HandlerInv, NoKeyTwice, Handling, Rewriting
<1>5. Rewriting(a)' /\ RewriterInv(a)'
  BY <1>0, <1>2 DEF RewriterInv, Adds, Rewriting
<1> QED
  BY <1>1, <1>3, <1>4, <1>5, OthersQuiet

\* Nobody else has written to it since, so the text is whole.
LEMMA QuietFill ==
  ASSUME TypeOK, ControlInv, TypeOK', QuietInv, NEW a \in Actors, Fill(a), ~overlapped'
  PROVE  QuietInv'
<1> USE DEF QuietInv
<1>0. /\ pc \in [Actors -> {"idle", "read", "await", "open", "fill", "replace"}]
      /\ fd \in [Actors -> Inodes \cup {None}] /\ disk \in [Inodes -> Entries \cup {Torn}]
      /\ file \in Inodes /\ Loop \in Actors /\ pc[a] = "fill" /\ tmp # file
      /\ pc' = [pc EXCEPT ![a] = "replace"] /\ UNCHANGED <<file, tmp, goal, mem, key, sent>>
  BY DEF TypeOK, Fill
<1>1. AloneInv'
  BY NotedAlone DEF Fill
<1>2. fd[a] = tmp /\ tmp \in Inodes /\ disk[tmp] = Torn
  BY <1>0 DEF RewriterInv, Adds, ControlInv
<1>3. disk' = [disk EXCEPT ![tmp] = mem[a]]
  BY <1>2 DEF Fill
<1>4. FileInv'
  BY <1>0, <1>2, <1>3 DEF FileInv
<1>5. HandlerInv'
  BY <1>0 DEF HandlerInv, NoKeyTwice, Handling, Rewriting
<1>6. Rewriting(a)' /\ RewriterInv(a)'
  BY <1>0, <1>2, <1>3 DEF RewriterInv, Adds, Rewriting
<1> QED
  BY <1>1, <1>4, <1>5, <1>6, OthersQuiet

\* The new file holds every spent key, and the one that is spent now.
LEMMA QuietReplace ==
  ASSUME TypeOK, ControlInv, TypeOK', QuietInv, NEW a \in Actors, Replace(a), ~overlapped'
  PROVE  QuietInv'
<1> USE DEF QuietInv
<1>0. /\ pc \in [Actors -> {"idle", "read", "await", "open", "fill", "replace"}]
      /\ mem \in [Actors -> Entries] /\ goal \in [Actors -> Goals] /\ sent \in [Keys -> Nat]
      /\ file \in Inodes /\ Loop \in Actors /\ pc[a] = "replace"
      /\ file' = tmp /\ tmp \in Inodes /\ disk[tmp] = mem[a]
      /\ UNCHANGED <<disk, fd>>
  BY DEF TypeOK, Replace, RewriterInv, Adds
<1>1. AloneInv'
  BY NotedAlone DEF Replace
<1>2. /\ Rewriting(a) /\ mem[a] \in Entries /\ mem[a] # Torn
      /\ \A k \in Keys : /\ mem[a][k] # "legacy"
                         /\ mem[a][k] = "new" <=> sent[k] > 0 \/ Adds(a, k)
      /\ \A b \in Actors \ {a} : ~Rewriting(b)
  <2>1. Rewriting(a) /\ RewriterInv(a)
    BY <1>0 DEF Rewriting
  <2>2. \A b \in Actors \ {a} : ~Rewriting(b)
    BY <2>1 DEF AloneInv
  <2>3. \A k \in Keys : /\ mem[a][k] # "legacy"
                        /\ mem[a][k] = "new" <=> sent[k] > 0 \/ Adds(a, k)
    BY <2>1 DEF RewriterInv
  <2>4. mem[a] \in Entries /\ mem[a] # Torn
    BY <1>0
  <2> QED
    BY <2>1, <2>2, <2>3, <2>4
<1>3. CASE goal[a] = "none"
  <2>1. /\ a = Loop /\ key \in Keys /\ sent[key] = 0 /\ mem[a][key] = "new"
    BY <1>2, <1>3 DEF ControlInv, Handling, HandlerInv, Rewriting, Adds
  <2>2. /\ sent' = [sent EXCEPT ![key] = 1] /\ pc' = [pc EXCEPT ![a] = "idle"]
        /\ UNCHANGED <<goal, mem>>
    BY <1>0, <1>3, <2>1 DEF Replace
  <2>3. FileInv'
    BY <1>0, <1>2, <1>3, <2>1, <2>2 DEF FileInv, Adds
  <2>4. \A k \in Keys : sent'[k] <= 1
    BY <1>0, <2>1, <2>2 DEF HandlerInv, NoKeyTwice
  <2>5. pc'[Loop] = "idle" /\ goal'[Loop] = "none"
    BY <1>0, <1>3, <2>1, <2>2
  <2>6. HandlerInv'
    BY <2>4, <2>5 DEF HandlerInv, NoKeyTwice, Handling, Rewriting
  <2>7. \A b \in Actors : RewriterInv(b)'
    BY <1>0, <1>2, <2>2 DEF RewriterInv, Adds, Rewriting
  <2> QED
    BY <1>1, <2>3, <2>6, <2>7
<1>4. CASE goal[a] # "none"
  <2>1. AfterRead(a, mem[a]) /\ UNCHANGED sent
    BY <1>4 DEF Replace
  <2>2. /\ HandlerInv'
        /\ Rewriting(a)' => \A k \in Keys :
             mem'[a][k] # "legacy" /\ (mem'[a][k] = "new" <=> sent[k] > 0 \/ Adds(a, k)')
    <3>1. \A k \in Keys : mem[a][k] # "legacy" /\ (mem[a][k] = "new" <=> sent[k] > 0)
      BY <1>2, <1>4 DEF Adds
    <3> QED
      BY <1>0, <1>2, <1>4, <2>1, <3>1, AfterReadQuiet
  <2>3. \E to \in {"idle", "await", "open"} : pc' = [pc EXCEPT ![a] = to]
    BY <1>2, <1>4, <2>1, AfterReadGoes
  <2>4. FileInv'
    BY <1>0, <1>2, <1>4, <2>1 DEF FileInv, Adds
  <2>5. \A b \in Actors : RewriterInv(b)'
    BY <1>0, <1>2, <2>1, <2>2, <2>3 DEF RewriterInv, Adds, Rewriting
  <2> QED
    BY <1>1, <2>2, <2>4, <2>5
<1> QED
  BY <1>3, <1>4

\* The end of a retention period makes a key old everywhere, and unspent.
LEMMA QuietExpire ==
  ASSUME TypeOK, ControlInv, TypeOK', QuietInv, NEW k \in Keys, Expire(k)
  PROVE  QuietInv'
<1> USE DEF QuietInv
<1> DEFINE aged(d) == IF d = Torn THEN Torn
                      ELSE [d EXCEPT ![k] = IF @ = "new" THEN "old" ELSE @]
<1>0. /\ mem \in [Actors -> Entries] /\ disk \in [Inodes -> Entries \cup {Torn}]
      /\ sent \in [Keys -> Nat] /\ file \in Inodes /\ tmp \in Inodes \cup {None}
      /\ Loop \in Actors /\ key # k /\ sent' = [sent EXCEPT ![k] = 0]
      /\ UNCHANGED <<file, tmp, pc, goal, fd, key>>
  BY DEF TypeOK, Expire
<1>1. /\ disk' = [i \in Inodes |-> aged(disk[i])] /\ mem' = [a \in Actors |-> aged(mem[a])]
  BY DEF Expire
<1>2. ASSUME NEW d \in Entries
      PROVE  /\ aged(d) # Torn /\ \A j \in Keys : j # k => aged(d)[j] = d[j]
             /\ aged(d)[k] # "new" /\ (aged(d)[k] = "legacy" => d[k] = "legacy")
  <2>1. aged(d) \in Entries
    BY DEF Entries, Stamps
  <2> QED
    BY <2>1 DEF Entries
<1> HIDE DEF aged
<1>3. FileInv'
  <2>1. disk[file] \in Entries /\ disk[file][k] = "new"
    BY <1>0 DEF FileInv, Expire, Raw
  <2> QED
    BY <1>0, <1>1, <1>2, <2>1 DEF FileInv
<1>4. HandlerInv'
  <2>1. Handling' => key \in Keys
    BY <1>0 DEF Handling, ControlInv, Rewriting
  <2>2. \A j \in Keys : j # k => mem'[Loop][j] = mem[Loop][j]
    BY <1>0, <1>1, <1>2
  <2>3. Rewriting(Loop)' /\ goal'[Loop] = "none" => Handling'
    BY DEF Handling
  <2> QED
    BY <1>0, <2>1, <2>2, <2>3 DEF HandlerInv, NoKeyTwice, Handling, Rewriting
<1>5. ASSUME NEW b \in Actors
      PROVE  RewriterInv(b)'
  <2>1. Rewriting(b)' => \A j \in Keys :
          mem'[b][j] # "legacy" /\ (mem'[b][j] = "new" <=> sent'[j] > 0 \/ Adds(b, j)')
    <3>1. mem'[b] = aged(mem[b]) /\ mem[b] \in Entries /\ ~Adds(b, k)
      BY <1>0, <1>1 DEF Adds
    <3>2. \A j \in Keys : Adds(b, j)' <=> Adds(b, j)
      BY <1>0 DEF Adds
    <3>3. Rewriting(b)' => RewriterInv(b) /\ Rewriting(b)
      BY <1>0 DEF Rewriting
    <3>4. ASSUME Rewriting(b), NEW j \in Keys
          PROVE  mem'[b][j] # "legacy" /\ (mem'[b][j] = "new" <=> sent'[j] > 0 \/ Adds(b, j))
      <4>1. mem[b][j] # "legacy" /\ (mem[b][j] = "new" <=> sent[j] > 0 \/ Adds(b, j))
        BY <3>4 DEF RewriterInv
      <4>2. CASE j = k
        BY <1>0, <1>2, <3>1, <4>1, <4>2
      <4>3. CASE j # k
        BY <1>0, <1>2, <3>1, <4>1, <4>3
      <4> QED
        BY <4>2, <4>3
    <3> QED
      BY <3>2, <3>3, <3>4
  <2>2. pc'[b] = "fill" => fd'[b] = tmp' /\ disk'[tmp'] = Torn
    <3>1. aged(Torn) = Torn
      BY DEF aged
    <3> QED
      BY <1>0, <1>1, <3>1 DEF RewriterInv, Adds, ControlInv
  <2>3. pc'[b] = "replace" => tmp' # None /\ disk'[tmp'] = mem'[b]
    BY <1>0, <1>1 DEF RewriterInv, Adds
  <2> QED
    BY <2>1, <2>2, <2>3 DEF RewriterInv, Adds
<1>6. AloneInv'
  BY <1>0 DEF AloneInv, Rewriting
<1> QED
  BY <1>3, <1>4, <1>5, <1>6

\* The steps between two file operations, and a crash.
LEMMA QuietRest ==
  ASSUME TypeOK, ControlInv, ControlInv', QuietInv,
         \/ \E k \in Keys : StartOrder(k)
         \/ Resume \/ Abandon \/ Crash \/ UNCHANGED vars
         \/ \E a \in Actors : StartPrune(a) \/ ReplaceRaises(a)
  PROVE  QuietInv'
<1> USE DEF QuietInv
<1>0. /\ pc \in [Actors -> {"idle", "read", "await", "open", "fill", "replace"}]
      /\ goal \in [Actors -> Goals] /\ Loop \in Actors
  BY DEF TypeOK
<1>1. ASSUME NEW a \in Actors, ReplaceRaises(a)
      PROVE  FALSE
  BY <1>1 DEF ReplaceRaises, RewriterInv, Adds
<1>2. CASE Crash
  BY <1>2 DEF Crash, AloneInv, FileInv, HandlerInv, NoKeyTwice, Handling, RewriterInv, Adds,
     Rewriting
<1>3. ASSUME NEW k \in Keys, StartOrder(k)
      PROVE  QuietInv'
  <2>1. HandlerInv'
    BY <1>0, <1>3 DEF StartOrder, HandlerInv, NoKeyTwice, Handling, Rewriting
  <2> QED
    BY <1>0, <1>3, <2>1, NothingTouched DEF StartOrder, Rewriting, ControlInv
<1>4. CASE Resume \/ Abandon
  <2>1. HandlerInv'
    BY <1>0, <1>4 DEF Resume, Abandon, HandlerInv, NoKeyTwice, Handling, Rewriting
  <2> QED
    BY <1>0, <1>4, <2>1, NothingTouched DEF Resume, Abandon, Rewriting, ControlInv
<1>5. ASSUME NEW a \in Actors, StartPrune(a)
      PROVE  QuietInv'
  <2>1. HandlerInv'
    BY <1>0, <1>5 DEF StartPrune, HandlerInv, NoKeyTwice, Handling, Rewriting
  <2> QED
    BY <1>0, <1>5, <2>1, NothingTouched DEF StartPrune, Rewriting
<1>6. CASE UNCHANGED vars
  <2>1. HandlerInv'
    BY <1>6 DEF vars, HandlerInv, NoKeyTwice, Handling, Rewriting
  <2> QED
    BY <1>6, <2>1, NothingTouched DEF vars
<1> QED
  BY <1>1, <1>2, <1>3, <1>4, <1>5, <1>6

\* The invariant holds at startup, with whatever file is there.
LEMMA KeysInit == Init => KeysInv
<1> SUFFICES ASSUME Init PROVE KeysInv
  OBVIOUS
<1>1. TypeOK
  BY TypeInit
<1>2. ControlInv
  BY DEF Init, ControlInv, Handling, Rewriting
<1>3. FileInv /\ NoKeyTwice
  <2>1. PICK i \in Inodes, old \in [Keys -> {"absent", "legacy", "new"}] :
          /\ file = i
          /\ disk = [j \in Inodes |-> IF j = i THEN old ELSE Torn]
          /\ sent = [k \in Keys |-> IF old[k] = "absent" THEN 0 ELSE 1]
    BY DEF Init
  <2>2. disk[file] = old /\ old # Torn
    BY <2>1 DEF Entries, Stamps
  <2> QED
    BY <2>1, <2>2 DEF FileInv, NoKeyTwice
<1>4. HandlerInv /\ AloneInv /\ \A a \in Actors : RewriterInv(a)
  BY <1>3 DEF Init, HandlerInv, Handling, Rewriting, AloneInv, RewriterInv, Adds
<1> QED
  BY <1>1, <1>2, <1>3, <1>4 DEF KeysInv, QuietInv

\* Every step keeps the invariant; a step after which two rewrites have
\* overlapped has nothing more to keep.
LEMMA KeysNext ==
  ASSUME KeysInv, [Next]_vars
  PROVE  KeysInv'
<1>1. TypeOK /\ TypeOK' /\ ControlInv /\ ControlInv'
  BY TypeNext, ControlNext DEF KeysInv
<1>2. ASSUME ~overlapped'
      PROVE  QuietInv'
  <2>1. ~overlapped
    BY <1>2, NotedAlone DEF Next, vars, StartOrder, Expire, Resume, Abandon, StartPrune,
       Read, Open, Fill, Replace, ReplaceRaises, Crash
  <2>2. QuietInv
    BY <2>1 DEF KeysInv
  <2> QED
    BY <1>1, <1>2, <2>2, QuietRest, QuietExpire, QuietRead, QuietOpen, QuietFill,
       QuietReplace DEF Next
<1> QED
  BY <1>1, <1>2 DEF KeysInv

\* Every variable keeps its type, whatever overlaps and whatever crashes.
THEOREM KeysTypeOK == Spec => []TypeOK
<1>1. KeysInv => TypeOK
  BY DEF KeysInv
<1> QED
  BY <1>1, KeysInit, KeysNext, PTL DEF Spec

\* A key is spent twice only after two rewrites of the file ran at the same
\* time: a crash between any two file operations, a left-over temporary file and
\* the migration of old entries lose none (IdempotencyStore._write, _read).
THEOREM KeysLostOnlyByOverlap == Spec => []LostOnlyByOverlap
<1>1. KeysInv => LostOnlyByOverlap
  BY DEF KeysInv, QuietInv, HandlerInv, LostOnlyByOverlap
<1> QED
  BY <1>1, KeysInit, KeysNext, PTL DEF Spec

\* Until two rewrites of the file have overlapped, the file is JSON at every
\* instant, between the operations and after a crash in the middle of one, and
\* retains exactly the keys that were spent within the retention period: on this
\* rests the treatment of the store as one atomic set in LiveOrders.
THEOREM KeysFileIsExact == Spec => [](~overlapped => FileInv)
<1>1. KeysInv => (~overlapped => FileInv)
  BY DEF KeysInv, QuietInv
<1> QED
  BY <1>1, KeysInit, KeysNext, PTL DEF Spec
=============================================================================
