------------------------ MODULE EnhancedLogger_proofs -------------------------
(***************************************************************************)
(* No line of the log is lost or repeated, and an old file stops growing,  *)
(* for any number of threads, lines and seconds and any size of a file.    *)
(* The invariant IInv is proved by one lemma for each kind of step; what a *)
(* written line does to the files is stated first. The order of the files  *)
(* (InNameOrder) has an invariant of its own, Ordered, and needs to know   *)
(* what FlattenSeq returns, by an induction over the files.                *)
(***************************************************************************)
EXTENDS EnhancedLogger, SequenceTheorems, WellFoundedInduction, TLAPS

USE LoggerAssumption DEF callVars, fileVars, historyVars

-----------------------------------------------------------------------------
LEMMA SecondsAreNumbers == (\A s \in Second : s \in Nat) /\ 0 \in Second
BY DEF Second

LEMMA NobodyIsNoActor == Nobody \notin Actor
BY DEF Actor

(* What Puts adds, and that it changes nothing else.                       *)
LEMMA Grown ==
    ASSUME TypeOK, NEW a \in Actor, Puts(a)
    PROVE  \E k \in Nat :
              /\ k \notin DOMAIN files[current]
              /\ k \in DOMAIN files'[current]
              /\ files'[current][k] = line[a]
              /\ \A s \in Second : \A i \in DOMAIN files[s] :
                     i \in DOMAIN files'[s] /\ files'[s][i] = files[s][i]
              /\ \A s \in Second : \A i \in DOMAIN files'[s] :
                     i \in DOMAIN files[s] \/ (s = current /\ i = k)
<1> DEFINE f == files[current]
           k == Len(f) + 1
<1> USE DEF TypeOK, Puts
<1>1. f \in Seq(Nat) /\ line[a] \in Nat /\ current \in Second
  OBVIOUS
<1>2. /\ files'[current] = Append(f, line[a])
      /\ \A s \in Second : s # current => files'[s] = files[s]
  OBVIOUS
<1>3. /\ DOMAIN f = 1 .. Len(f) /\ Len(f) \in Nat
      /\ DOMAIN Append(f, line[a]) = 1 .. k
      /\ Append(f, line[a])[k] = line[a]
      /\ \A i \in 1 .. Len(f) : Append(f, line[a])[i] = f[i]
  <2> HIDE DEF TypeOK, Puts
  <2>. QED  BY <1>1
<1>4. k \in Nat /\ k \notin DOMAIN files[current] /\ k \in DOMAIN files'[current]
  BY <1>2, <1>3
<1> HIDE DEF TypeOK, Puts
<1>5. ASSUME NEW s \in Second, NEW i \in DOMAIN files[s]
      PROVE  i \in DOMAIN files'[s] /\ files'[s][i] = files[s][i]
  <2>1. CASE s = current
    <3>1. i \in 1 .. Len(f) /\ i \in 1 .. k
      BY <1>3, <2>1
    <3>. QED  BY <1>2, <1>3, <2>1, <3>1
  <2>2. CASE s # current
    BY <1>2, <2>2
  <2>. QED  BY <2>1, <2>2
<1>6. ASSUME NEW s \in Second, NEW i \in DOMAIN files'[s]
      PROVE  i \in DOMAIN files[s] \/ (s = current /\ i = k)
  <2>1. CASE s = current
    BY <1>2, <1>3, <2>1
  <2>2. CASE s # current
    BY <1>2, <2>2
  <2>. QED  BY <2>1, <2>2
<1>7. files'[current][k] = line[a]
  BY <1>2, <1>3
<1> HIDE DEF f, k
<1>. QED  BY <1>4, <1>5, <1>6, <1>7

-----------------------------------------------------------------------------
(* The line an actor is about to write has not been seen; once it has been *)
(* written or given up it is the only one that has left Unseen.            *)
LEMMA LeavesUnseen ==
    ASSUME IInv, NEW a \in Actor, pc[a] = "write",
           NEW to \in {"open", "unlock"}, pc' = [pc EXCEPT ![a] = to],
           UNCHANGED callVars
    PROVE  /\ line[a] \in Unseen
           /\ Unseen' = Unseen \ {line[a]}
           /\ OwnLines'
<1>1. a \in Busy /\ Busy' = Busy
  BY DEF IInv, TypeOK, Busy
<1>2. /\ made \in Nat
      /\ \A b \in Actor : line[b] \in Nat /\ left[b] \in Nat
  BY DEF IInv, TypeOK
<1>3. /\ \A b \in Busy : left[b] > 0 /\ line[b] > 0 /\ line[b] + left[b] <= made + 1
      /\ \A b \in Busy : \/ a = b
                         \/ line[a] + left[a] <= line[b]
                         \/ line[b] + left[b] <= line[a]
  BY <1>1 DEF IInv, OwnLines
<1>4. line[a] \in 1 .. made /\ line[a] < line[a] + left[a]
  BY <1>1, <1>2, <1>3
<1>5. line[a] \in Unseen
  BY <1>1, <1>4 DEF Unseen
<1>6. \A b \in Busy : b # a => ~(line[b] <= line[a] /\ line[a] < line[b] + left[b])
  BY <1>1, <1>2, <1>3 DEF Busy
<1>7. /\ \A b \in Actor : b # a => pc'[b] = pc[b]
      /\ pc'[a] = to
  BY DEF IInv, TypeOK
<1>8. ASSUME NEW n \in 1 .. made
      PROVE  n \in Unseen' <=> n \in Unseen /\ n # line[a]
  <2>1. ASSUME NEW b \in Busy
        PROVE  (pc'[b] \in {"open", "unlock"} => n # line[b])
               <=> (pc[b] \in {"open", "unlock"} => n # line[b]) /\ (b = a => n # line[a])
    BY <1>7, <2>1 DEF Busy
  <2>. QED  BY <1>1, <1>6, <2>1 DEF Unseen
<1>9. Unseen' = Unseen \ {line[a]}
  BY <1>8 DEF Unseen
<1>10. OwnLines'
  BY <1>1 DEF IInv, OwnLines
<1>. QED  BY <1>5, <1>9, <1>10

LEMMA PutsAccounts ==
    ASSUME IInv, NEW a \in Actor, Puts(a), UNCHANGED made,
           line[a] \in Unseen, Unseen' = Unseen \ {line[a]}
    PROVE  Accounted' /\ NoneRepeated'
<1> USE DEF IInv
<1>1. PICK k \in Nat :
          /\ k \notin DOMAIN files[current]
          /\ k \in DOMAIN files'[current]
          /\ files'[current][k] = line[a]
          /\ \A s \in Second : \A i \in DOMAIN files[s] :
                 i \in DOMAIN files'[s] /\ files'[s][i] = files[s][i]
          /\ \A s \in Second : \A i \in DOMAIN files'[s] :
                 i \in DOMAIN files[s] \/ (s = current /\ i = k)
  BY Grown
<1>2. lost' = lost /\ line[a] \in 1 .. made /\ line[a] \notin lost /\ current \in Second
  BY DEF Puts, Unseen, Accounted, TypeOK
<1>3. \A s \in Second : \A i \in DOMAIN files[s] : files[s][i] # line[a]
  BY DEF Accounted
<1>4. NoneRepeated'
  BY <1>1, <1>3 DEF NoneRepeated
<1>5. (lost \cap Unseen = {})'
  BY <1>2 DEF Accounted
<1>6. \A s \in Second : \A i \in DOMAIN files'[s] :
          files'[s][i] \in (1 .. made) \ (Unseen' \cup lost)
  BY <1>1, <1>2 DEF Accounted
<1>7. (1 .. made) \ (Unseen' \cup lost) \subseteq Standing'
  <2>1. line[a] \in Standing'
    BY <1>1, <1>2 DEF Standing
  <2>2. Standing \subseteq Standing'
    BY <1>1 DEF Standing
  <2>. QED  BY <2>1, <2>2 DEF Accounted
<1>. QED  BY <1>2, <1>4, <1>5, <1>6, <1>7 DEF Accounted

-----------------------------------------------------------------------------
LEMMA InitInvariant == ASSUME Init PROVE IInv
<1> USE DEF Init
<1>1. TypeOK
  BY SecondsAreNumbers DEF TypeOK
<1>2. Busy = {} /\ Unseen = {} /\ ~Rotating
  BY DEF Busy, Unseen, Rotating
<1>3. Exclusive
  BY <1>2, NobodyIsNoActor DEF Exclusive
<1>4. NoneRepeated /\ Accounted /\ OwnLines
  BY <1>2 DEF NoneRepeated, Accounted, OwnLines
<1>5. FilesBounded /\ Ageing
  BY <1>2, SecondsAreNumbers DEF FilesBounded, Ageing
<1>. QED  BY <1>1, <1>3, <1>4, <1>5 DEF IInv

(* What is kept by a step that neither writes, nor rotates, nor lets time  *)
(* pass: only the lines to come and the mutex are then left to be shown.   *)
LEMMA NothingWritten ==
    ASSUME IInv, UNCHANGED <<now, current, isOpen, files, written, late, missed, raced>>,
           Rotating' <=> Rotating
    PROVE  NoneRepeated' /\ FilesBounded' /\ Ageing'
BY DEF IInv, NoneRepeated, FilesBounded, Ageing

LEMMA CallStep ==
    ASSUME IInv, NEW a \in Actor, NEW n \in {1, 2}, Calls(a, n),
           host' \in Thread \cup {Nobody},
           UNCHANGED <<owner, foreign, now, fileVars, files, historyVars>>
    PROVE  IInv'
<1>1. /\ pc[a] = "idle" /\ pc' = [pc EXCEPT ![a] = "format"]
      /\ left' = [left EXCEPT ![a] = n]
      /\ line' = [line EXCEPT ![a] = made + 1]
      /\ made' = made + n
  BY DEF Calls, Moves
<1>2. /\ made \in Nat /\ a \notin Busy /\ lost \subseteq 1 .. made
      /\ \A b \in Actor : line[b] \in Nat /\ left[b] \in Nat
  BY <1>1 DEF IInv, TypeOK, Busy
<1>3. /\ \A b \in Actor : b # a => /\ pc'[b] = pc[b] /\ left'[b] = left[b]
                                  /\ line'[b] = line[b]
      /\ pc'[a] = "format" /\ left'[a] = n /\ line'[a] = made + 1
  BY <1>1 DEF IInv, TypeOK
<1>4. Busy' = Busy \cup {a}
  BY <1>3 DEF Busy
<1>5. TypeOK'
  <2>1. pc' \in [Actor -> {"idle", "format", "libc", "lock", "write", "open", "unlock"}]
    BY <1>1 DEF IInv, TypeOK
  <2>2. left' \in [Actor -> Nat] /\ line' \in [Actor -> Nat] /\ made' \in Nat
    <3>1. made + 1 \in Nat /\ made + n \in Nat /\ n \in Nat
      BY <1>2
    <3>2. left \in [Actor -> Nat] /\ line \in [Actor -> Nat]
      BY DEF IInv, TypeOK
    <3>. QED  BY <1>1, <3>1, <3>2
  <2>3. lost' \subseteq 1 .. made'
    BY <1>1, <1>2
  <2>. QED  BY <2>1, <2>2, <2>3 DEF IInv, TypeOK
<1>6. Exclusive' /\ (Rotating' <=> Rotating)
  BY <1>1, <1>3 DEF IInv, Exclusive, Rotating
<1>7. OwnLines'
  <2>1. \A b \in Busy : b \in Actor /\ b # a /\ line[b] + left[b] <= made + 1
    BY <1>2 DEF IInv, OwnLines, Busy
  <2>2. \A b \in Busy' : left'[b] > 0 /\ line'[b] > 0 /\ line'[b] + left'[b] <= made' + 1
    BY <1>1, <1>2, <1>3, <1>4, <2>1 DEF IInv, OwnLines
  <2>3. \A b, c \in Busy' : \/ b = c
                           \/ line'[b] + left'[b] <= line'[c]
                           \/ line'[c] + left'[c] <= line'[b]
    BY <1>2, <1>3, <1>4, <2>1 DEF IInv, OwnLines
  <2>. QED  BY <2>2, <2>3 DEF OwnLines
<1>8. Accounted'
  <2>1. \A m \in 1 .. made : m \in Unseen' <=> m \in Unseen
    BY <1>1, <1>2, <1>3, <1>4 DEF Unseen, Busy
  <2>2. \A m \in 1 .. made' : m \in 1 .. made \/ m \in Unseen'
    BY <1>1, <1>2, <1>3, <1>4 DEF Unseen
  <2>3. 1 .. made \subseteq 1 .. made' /\ Standing \subseteq Standing'
    BY <1>1, <1>2 DEF Standing
  <2>4. (lost \cap Unseen)' = {}
    BY <1>2, <2>1 DEF IInv, Accounted
  <2>5. \A s \in Second : \A i \in DOMAIN files[s] :
            files[s][i] \in (1 .. made') \ (Unseen' \cup lost)
    BY <2>1, <2>3 DEF IInv, Accounted
  <2>6. (1 .. made') \ (Unseen' \cup lost) \subseteq Standing'
    BY <2>1, <2>2, <2>3 DEF IInv, Accounted
  <2>. QED  BY <2>4, <2>5, <2>6 DEF Accounted
<1>9. NoneRepeated' /\ FilesBounded' /\ Ageing'
  BY <1>6, NothingWritten
<1>. QED  BY <1>5, <1>6, <1>7, <1>8, <1>9 DEF IInv

(* Of a step that leaves the lines to come as they are.                    *)
LEMMA StillAccounted ==
    ASSUME IInv, Unseen' = Unseen, UNCHANGED <<files, made, lost>>
    PROVE  Accounted'
BY DEF IInv, Accounted, Standing

LEMMA FormatOrLockStep ==
    ASSUME IInv, NEW a \in Actor, Format(a) \/ Formatted(a) \/ Lock(a)
    PROVE  IInv'
<1> USE DEF Format, Formatted, Lock, Moves
<1>1. /\ pc[a] \in {"format", "libc", "lock"} /\ pc'[a] \in {"libc", "lock", "write"}
      /\ \A b \in Actor : b # a => pc'[b] = pc[b]
  BY DEF IInv, TypeOK
<1>2. Busy' = Busy /\ (Rotating' <=> Rotating)
  BY <1>1 DEF Busy, Rotating
<1>3. TypeOK'
  BY DEF IInv, TypeOK
<1>4. Exclusive'
  <2>1. CASE Format(a) \/ Formatted(a)
    <3>1. /\ pc[a] \notin {"write", "open", "unlock"} /\ pc'[a] \notin {"write", "open", "unlock"}
          /\ UNCHANGED <<owner, isOpen>>
      BY <2>1 DEF IInv, TypeOK
    <3>. QED  BY <1>1, <1>2, <3>1 DEF IInv, Exclusive
  <2>2. CASE Lock(a)
    <3>1. \A b \in Actor : pc[b] \notin {"write", "open", "unlock"}
      BY <2>2, NobodyIsNoActor DEF IInv, Exclusive
    <3>2. pc'[a] = "write" /\ owner' = a
      BY <2>2 DEF IInv, TypeOK
    <3>. QED  BY <1>1, <1>2, <2>2, <3>1, <3>2 DEF IInv, Exclusive
  <2>. QED  BY <2>1, <2>2
<1>5. OwnLines'
  BY <1>2 DEF IInv, OwnLines
<1>6. Unseen' = Unseen
  BY <1>1, <1>2 DEF Unseen, Busy
<1>7. Accounted' /\ NoneRepeated' /\ FilesBounded' /\ Ageing'
  BY <1>2, <1>6, StillAccounted, NothingWritten
<1>. QED  BY <1>3, <1>4, <1>5, <1>7 DEF IInv

(* The owner of the mutex is alone between "lock" and the end.             *)
LEMMA Alone ==
    ASSUME IInv, NEW a \in Actor, pc[a] \in {"write", "open", "unlock"}
    PROVE  /\ owner = a
           /\ \A b \in Actor : b # a => pc[b] \notin {"write", "open", "unlock"}
           /\ Rotating <=> pc[a] = "open"
BY DEF IInv, Exclusive, Rotating

LEMMA PutsTypes ==
    ASSUME TypeOK, NEW a \in Actor, Puts(a)
    PROVE  /\ files' \in [Second -> Seq(Nat)]
           /\ written' \in Seq(Nat)
           /\ late' \in [Second -> Nat]
<1>1. /\ files[current] \in Seq(Nat) /\ line[a] \in Nat
      /\ late[current] \in Nat /\ current \in Second
  BY DEF TypeOK
<1>2. Append(files[current], line[a]) \in Seq(Nat) /\ Append(written, line[a]) \in Seq(Nat)
  BY <1>1 DEF TypeOK
<1>3. files' \in [Second -> Seq(Nat)] /\ written' \in Seq(Nat)
  <2>1. files' = [files EXCEPT ![current] = Append(files[current], line[a])]
    BY DEF Puts
  <2>2. files \in [Second -> Seq(Nat)]
    BY DEF TypeOK
  <2>. QED  BY <1>1, <1>2, <2>1, <2>2 DEF Puts
<1>4. late' \in [Second -> Nat]
  <2>1. late \in [Second -> Nat]
    BY DEF TypeOK
  <2>2. \/ late' = [late EXCEPT ![current] = late[current] + 1]
        \/ late' = [late EXCEPT ![current] = late[current]]
    BY DEF Puts
  <2>3. late[current] + 1 \in Nat
    BY <1>1
  <2>. QED  BY <1>1, <2>1, <2>2, <2>3
<1>. QED  BY <1>3, <1>4

(* Only the current file grows late, only by one, and only when it is full *)
(* and its second is over.                                                 *)
LEMMA PutsLate ==
    ASSUME TypeOK, NEW a \in Actor, Puts(a)
    PROVE  /\ \A s \in Second : s # current => late'[s] = late[s]
           /\ late'[current] \in {late[current], late[current] + 1}
           /\ late'[current] # late[current] =>
                 now > current /\ Len(files[current]) >= Capacity
           /\ Len(files'[current]) = Len(files[current]) + 1
           /\ Len(files[current]) \in Nat
<1>1. /\ files[current] \in Seq(Nat) /\ line[a] \in Nat
      /\ late[current] \in Nat /\ current \in Second
  BY DEF TypeOK
<1>2. files'[current] = Append(files[current], line[a])
  <2>1. files' = [files EXCEPT ![current] = Append(files[current], line[a])]
    BY DEF Puts
  <2>2. current \in DOMAIN files
    BY <1>1 DEF TypeOK
  <2>. QED  BY <2>1, <2>2
<1>3. /\ Len(files[current]) \in Nat
      /\ Len(files'[current]) = Len(files[current]) + 1
  BY <1>1, <1>2
<1>4. /\ \A s \in Second : s # current => late'[s] = late[s]
      /\ late'[current] = IF Len(files[current]) >= Capacity /\ now > current
                         THEN late[current] + 1 ELSE late[current]
  BY <1>1 DEF TypeOK, Puts
<1>. QED  BY <1>1, <1>3, <1>4

(* The line is not written: only the lines to come have changed.           *)
LEMMA LosesAccounts ==
    ASSUME IInv, NEW a \in Actor, Loses(a), UNCHANGED made,
           line[a] \in Unseen, Unseen' = Unseen \ {line[a]}
    PROVE  /\ Accounted' /\ NoneRepeated'
           /\ lost' \subseteq 1 .. made
<1>1. /\ lost' = lost \cup {line[a]} /\ UNCHANGED <<files, written, late>>
      /\ line[a] \in 1 .. made
  BY DEF Loses, Unseen
<1>2. Accounted'
  BY <1>1 DEF IInv, Accounted, Standing
<1>3. NoneRepeated'
  BY <1>1 DEF IInv, NoneRepeated
<1>4. lost' \subseteq 1 .. made
  BY <1>1 DEF IInv, TypeOK
<1>. QED  BY <1>2, <1>3, <1>4

(* What a line, whether or not it has reached the file, does to the lines  *)
(* written late: a file that is not full afterwards has got no such line.  *)
LEMMA OutputsLate ==
    ASSUME IInv, NEW a \in Actor, Outputs(a), isOpen, pc[a] = "write",
           UNCHANGED <<now, current>>, ~raced
    PROVE  /\ \A s \in Second : late'[s] > 0 => s < now
           /\ \A s \in Second : s # current => late'[s] <= 2 + missed
           /\ late'[current] <= missed + 2
           /\ ~Full(files'[current]) => late'[current] <= missed + 1
<1>1. /\ late[current] <= missed + 1 /\ late[current] \in Nat /\ missed \in Nat
      /\ current \in Second /\ current \in Nat /\ now \in Nat
  BY Alone, SecondsAreNumbers DEF IInv, TypeOK, Ageing
<1>2. \A s \in Second : late[s] <= 2 + missed /\ (late[s] > 0 => s < now)
  BY DEF IInv, FilesBounded, Ageing
<1>3. CASE Loses(a)
  <2>1. late' = late
    BY <1>3 DEF Loses
  <2>2. late[current] <= missed + 2
    BY <1>1
  <2>. QED  BY <1>1, <1>2, <2>1, <2>2
<1>4. CASE Puts(a)
  <2>1. /\ \A s \in Second : s # current => late'[s] = late[s]
        /\ late'[current] \in {late[current], late[current] + 1}
        /\ late'[current] # late[current] =>
              now > current /\ Len(files[current]) >= Capacity
        /\ Len(files'[current]) = Len(files[current]) + 1
        /\ Len(files[current]) \in Nat
    BY <1>4, PutsLate DEF IInv
  <2>2. ~Full(files'[current]) => late'[current] = late[current]
    BY <2>1 DEF Full
  <2>3. late'[current] > 0 => current < now
    BY <1>1, <1>2, <2>1
  <2>4. \A s \in Second : late'[s] > 0 => s < now
    BY <1>2, <2>1, <2>3
  <2>5. \A s \in Second : s # current => late'[s] <= 2 + missed
    BY <1>2, <2>1
  <2>6. late'[current] <= missed + 2
    BY <1>1, <2>1
  <2>. QED  BY <1>1, <2>2, <2>4, <2>5, <2>6
<1>. QED  BY <1>3, <1>4 DEF Outputs

LEMMA WriteStep ==
    ASSUME IInv, NEW a \in Actor, Write(a)
    PROVE  IInv'
<1>1. PICK to \in {"open", "unlock"} :
          /\ pc[a] = "write" /\ pc' = [pc EXCEPT ![a] = to]
          /\ isOpen' = (to = "unlock")
          /\ missed' \in {missed, missed + 1}
          /\ to = "unlock" /\ missed' = missed => ~Full(files'[current])
  <2>1. /\ pc[a] = "write" /\ isOpen
        /\ \/ /\ pc' = [pc EXCEPT ![a] = "open"] /\ isOpen' = FALSE /\ missed' = missed
           \/ /\ pc' = [pc EXCEPT ![a] = "unlock"] /\ isOpen' = isOpen
              /\ missed' = missed + 1
           \/ /\ pc' = [pc EXCEPT ![a] = "unlock"] /\ isOpen' = isOpen
              /\ missed' = missed /\ ~Full(files'[current])
    BY DEF Write, Moves
  <2>2. missed' = missed + 1 => missed' # missed
    BY DEF IInv, TypeOK
  <2>3. isOpen = TRUE
    BY <2>1 DEF IInv, TypeOK
  <2>4. CASE pc' = [pc EXCEPT ![a] = "open"] /\ isOpen' = FALSE /\ missed' = missed
    BY <2>1, <2>4
  <2>5. CASE /\ pc' = [pc EXCEPT ![a] = "unlock"] /\ isOpen' = isOpen
             /\ missed' = missed + 1
    BY <2>1, <2>2, <2>3, <2>5
  <2>6. CASE /\ pc' = [pc EXCEPT ![a] = "unlock"] /\ isOpen' = isOpen
             /\ missed' = missed /\ ~Full(files'[current])
    BY <2>1, <2>3, <2>6
  <2>. QED  BY <2>1, <2>4, <2>5, <2>6
<1>2. /\ Outputs(a) /\ isOpen
      /\ UNCHANGED <<callVars, host, owner, foreign, now, current, raced>>
  BY DEF Write
<1>3. /\ pc'[a] = to
      /\ \A b \in Actor : b # a => pc'[b] = pc[b]
  BY <1>1 DEF IInv, TypeOK
<1>4. ~Rotating /\ (Rotating' <=> to = "open")
  BY <1>1, <1>3, Alone DEF Rotating
<1>5. Exclusive'
  BY <1>1, <1>2, <1>3, <1>4, Alone DEF Exclusive
<1>6. OwnLines' /\ line[a] \in Unseen /\ Unseen' = Unseen \ {line[a]}
  BY <1>1, <1>2, LeavesUnseen
<1>7. missed \in Nat /\ missed' \in Nat
  BY <1>1 DEF IInv, TypeOK
<1>8. TypeOK' /\ Accounted' /\ NoneRepeated'
  <2>1. CASE Puts(a) /\ broken' = FALSE
    <3>1. Accounted' /\ NoneRepeated'
      BY <1>2, <1>6, <2>1, PutsAccounts
    <3>2. TypeOK'
      BY <1>1, <1>2, <1>7, <2>1, PutsTypes DEF IInv, TypeOK, Puts
    <3>. QED  BY <3>1, <3>2
  <2>2. CASE Loses(a) /\ broken' = TRUE
    <3>1. Accounted' /\ NoneRepeated' /\ lost' \subseteq 1 .. made
      BY <1>2, <1>6, <2>2, LosesAccounts
    <3>2. TypeOK'
      BY <1>1, <1>2, <1>7, <2>2, <3>1 DEF IInv, TypeOK, Loses
    <3>. QED  BY <3>1, <3>2
  <2>. QED  BY <1>2, <2>1, <2>2 DEF Outputs
<1>9. FilesBounded' /\ Ageing'
  <2>1. CASE raced
    BY <1>2, <2>1 DEF FilesBounded, Ageing
  <2>2. CASE ~raced
    <3>1. /\ \A s \in Second : late'[s] > 0 => s < now
          /\ \A s \in Second : s # current => late'[s] <= 2 + missed
          /\ late'[current] <= missed + 2
          /\ ~Full(files'[current]) => late'[current] <= missed + 1
      BY <1>1, <1>2, <2>2, OutputsLate
    <3>2. /\ current \in Second /\ current <= now
          /\ late' \in [Second -> Nat]
      BY <1>2, <1>8, <2>2 DEF IInv, TypeOK, Ageing
    <3>3. \A s \in Second : late'[s] <= 2 + missed'
      <4>1. \A s \in Second : late'[s] \in Nat /\ late'[s] <= 2 + missed
        <5>1. late'[current] <= 2 + missed
          BY <1>7, <3>1, <3>2
        <5>. QED  BY <3>1, <3>2, <5>1
      <4>. QED  BY <1>1, <1>7, <4>1
    <3>4. late'[current] <= missed' + (IF Rotating' THEN 2 ELSE IF isOpen' THEN 1 ELSE 0)
      <4>1. late'[current] \in Nat
        BY <3>2
      <4>2. CASE to = "open"
        BY <1>1, <1>4, <1>7, <3>1, <4>1, <4>2
      <4>3. CASE to = "unlock"
        <5>1. ~Rotating' /\ isOpen'
          BY <1>1, <1>4, <4>3
        <5>2. late'[current] <= missed' + 1
          BY <1>1, <1>7, <3>1, <4>1, <4>3
        <5>. QED  BY <5>1, <5>2
      <4>. QED  BY <4>2, <4>3
    <3>. QED  BY <1>2, <3>1, <3>2, <3>3, <3>4 DEF FilesBounded, Ageing
  <2>. QED  BY <2>1, <2>2 DEF IInv, TypeOK
<1>. QED  BY <1>5, <1>6, <1>8, <1>9 DEF IInv

LEMMA WriteAgainStep ==
    ASSUME IInv, NEW a \in Actor, WriteAgain(a)
    PROVE  IInv'
<1>1. /\ pc[a] = "write" /\ pc' = [pc EXCEPT ![a] = "unlock"] /\ ~isOpen
      /\ UNCHANGED <<callVars, host, owner, foreign, now, current, missed, raced>>
      /\ isOpen' \in BOOLEAN /\ broken' \in BOOLEAN
  BY DEF WriteAgain, Moves, IInv, TypeOK
<1>2. /\ pc'[a] = "unlock"
      /\ \A b \in Actor : b # a => pc'[b] = pc[b]
  BY <1>1 DEF IInv, TypeOK
<1>3. ~Rotating /\ ~Rotating'
  BY <1>1, <1>2, Alone DEF Rotating
<1>4. Exclusive' /\ missed \in Nat
  BY <1>1, <1>2, <1>3, Alone DEF Exclusive, IInv, TypeOK
<1>5. OwnLines' /\ line[a] \in Unseen /\ Unseen' = Unseen \ {line[a]}
  BY <1>1, LeavesUnseen
<1>6. CASE isOpen' = TRUE /\ Puts(a)
  <2>1. TypeOK'
    BY <1>1, <1>6, PutsTypes DEF IInv, TypeOK, Puts
  <2>2. Accounted' /\ NoneRepeated'
    BY <1>1, <1>5, <1>6, PutsAccounts
  <2>3. FilesBounded' /\ Ageing'
    <3>1. CASE raced
      BY <1>1, <3>1 DEF FilesBounded, Ageing
    <3>2. CASE ~raced
      <4>1. /\ late[current] <= missed /\ late[current] \in Nat
            /\ current \in Second /\ now \in Second
        BY <1>1, <1>3, <3>2 DEF IInv, TypeOK, Ageing
      <4>2. late'[current] <= missed + 1 /\ (late'[current] > 0 => current < now)
        <5>1. late[current] > 0 => current < now
          BY <3>2, <4>1 DEF IInv, Ageing
        <5>2. /\ late'[current] \in {late[current], late[current] + 1}
              /\ late'[current] # late[current] => now > current
          BY <1>6, PutsLate DEF IInv
        <5>3. current \in Nat /\ now \in Nat
          BY <4>1, SecondsAreNumbers
        <5>. QED  BY <1>4, <4>1, <5>1, <5>2, <5>3
      <4>3. ASSUME NEW s \in Second
            PROVE  late'[s] <= 2 + missed /\ (late'[s] > 0 => s < now)
        <5>1. CASE s = current
          <6>1. late'[current] \in Nat
            BY <2>1, <4>1, <1>1 DEF TypeOK
          <6>. QED  BY <1>4, <4>2, <5>1, <6>1
        <5>2. CASE s # current
          <6>1. late'[s] = late[s]
            BY <1>6, <5>2 DEF Puts, IInv, TypeOK
          <6>. QED  BY <3>2, <6>1 DEF IInv, FilesBounded, Ageing
        <5>. QED  BY <5>1, <5>2
      <4>. QED  BY <1>1, <1>3, <1>6, <3>2, <4>2, <4>3 DEF IInv, FilesBounded, Ageing
    <3>. QED  BY <3>1, <3>2 DEF IInv, TypeOK
  <2>. QED  BY <1>4, <1>5, <2>1, <2>2, <2>3 DEF IInv
<1>7. CASE Loses(a)
  <2>1. Accounted' /\ NoneRepeated' /\ lost' \subseteq 1 .. made
    BY <1>1, <1>5, <1>7, LosesAccounts
  <2>2. TypeOK'
    BY <1>1, <1>7, <2>1 DEF IInv, TypeOK, Loses
  <2>3. FilesBounded'
    BY <1>1, <1>7 DEF IInv, FilesBounded, Loses
  <2>4. Ageing'
    <3>1. CASE raced
      BY <1>1, <3>1 DEF Ageing
    <3>2. CASE ~raced
      <4>1. /\ current <= now /\ late[current] <= missed /\ late[current] \in Nat
            /\ \A s \in Second : late[s] > 0 => s < now
        BY <1>1, <1>3, <3>2 DEF IInv, TypeOK, Ageing
      <4>2. late'[current] <= missed + (IF isOpen' THEN 1 ELSE 0)
        BY <1>4, <1>7, <4>1 DEF Loses
      <4>. QED  BY <1>1, <1>3, <1>7, <4>1, <4>2 DEF Ageing, Loses
    <3>. QED  BY <3>1, <3>2 DEF IInv, TypeOK
  <2>. QED  BY <1>4, <1>5, <2>1, <2>2, <2>3, <2>4 DEF IInv
<1>. QED  BY <1>6, <1>7 DEF WriteAgain, PutsAgain

LEMMA OpenNextStep ==
    ASSUME IInv, NEW a \in Actor, OpenNext(a)
    PROVE  IInv'
<1>1. /\ pc[a] = "open" /\ pc' = [pc EXCEPT ![a] = "unlock"]
      /\ current' \in Second
      /\ raced' = (raced \/ foreign) /\ (~foreign => current' = now)
      /\ foreign' = FALSE /\ isOpen' \in BOOLEAN /\ broken' \in BOOLEAN
      /\ UNCHANGED <<callVars, host, owner, now, written, lost, late, missed>>
  BY DEF OpenNext, Moves, AfterRotation, IInv, TypeOK
<1>2. files' = files
  BY <1>1 DEF OpenNext, Contents, IInv, TypeOK
<1>3. /\ pc'[a] = "unlock"
      /\ \A b \in Actor : b # a => pc'[b] = pc[b]
  BY <1>1 DEF IInv, TypeOK
<1>4. TypeOK'
  BY <1>1, <1>2 DEF IInv, TypeOK
<1>5. ~Rotating'
  BY <1>1, <1>3, Alone DEF Rotating
<1>6. Exclusive'
  BY <1>1, <1>3, <1>5, Alone DEF Exclusive
<1>7. Busy' = Busy
  BY <1>1, <1>3 DEF Busy
<1>8. OwnLines'
  BY <1>1, <1>7 DEF IInv, OwnLines
<1>9. Unseen' = Unseen
  BY <1>1, <1>3, <1>7 DEF Unseen, Busy
<1>10. Accounted' /\ NoneRepeated'
  BY <1>1, <1>2, <1>9, StillAccounted DEF IInv, NoneRepeated
<1>11. FilesBounded'
  BY <1>1 DEF IInv, FilesBounded
<1>12. Ageing'
  <2>1. CASE raced'
    BY <2>1 DEF Ageing
  <2>2. CASE ~raced'
    <3>1. ~raced /\ current' = now /\ now \in Nat /\ late[now] \in Nat
      BY <1>1, <2>2, SecondsAreNumbers DEF IInv, TypeOK
    <3>2. late[now] = 0 /\ missed \in Nat
      BY <3>1 DEF IInv, TypeOK, Ageing
    <3>3. late'[current'] <= missed' + (IF isOpen' THEN 1 ELSE 0)
      BY <1>1, <3>1, <3>2
    <3>. QED  BY <1>1, <3>1, <3>3, <1>5 DEF IInv, Ageing
  <2>. QED  BY <2>1, <2>2
<1>. QED  BY <1>4, <1>6, <1>8, <1>10, <1>11, <1>12 DEF IInv

LEMMA UnlockStep ==
    ASSUME IInv, NEW a \in Actor, Unlock(a)
    PROVE  IInv'
<1>1. /\ pc[a] = "unlock" /\ owner = a /\ owner' = Nobody
      /\ pc' = [pc EXCEPT ![a] = IF left[a] - 1 = 0 THEN "idle" ELSE "format"]
      /\ left' = [left EXCEPT ![a] = left[a] - 1]
      /\ line' = [line EXCEPT ![a] = IF left[a] - 1 = 0 THEN 0 ELSE line[a] + 1]
      /\ host' \in {Nobody, host}
      /\ UNCHANGED <<made, foreign, now, fileVars, files, historyVars>>
  BY DEF Unlock, Moves, LeftNow
<1>2. /\ made \in Nat /\ a \in Busy
      /\ \A b \in Actor : line[b] \in Nat /\ left[b] \in Nat
  BY <1>1 DEF IInv, TypeOK, Busy
<1>3. left[a] > 0
  BY <1>2 DEF IInv, OwnLines
<1>4. /\ \A b \in Actor : b # a => /\ pc'[b] = pc[b] /\ left'[b] = left[b]
                                  /\ line'[b] = line[b]
      /\ left'[a] = left[a] - 1 /\ line'[a] = IF left'[a] = 0 THEN 0 ELSE line[a] + 1
      /\ pc'[a] = IF left'[a] = 0 THEN "idle" ELSE "format"
  BY <1>1 DEF IInv, TypeOK
<1>5. TypeOK'
  <2>1. pc' \in [Actor -> {"idle", "format", "libc", "lock", "write", "open", "unlock"}]
    BY <1>1 DEF IInv, TypeOK
  <2>2. left' \in [Actor -> Nat] /\ line' \in [Actor -> Nat]
    <3>1. left[a] - 1 \in Nat /\ (IF left[a] - 1 = 0 THEN 0 ELSE line[a] + 1) \in Nat
      BY <1>2, <1>3
    <3>2. left \in [Actor -> Nat] /\ line \in [Actor -> Nat]
      BY DEF IInv, TypeOK
    <3>. QED  BY <1>1, <3>1, <3>2
  <2>3. host' \in Thread \cup {Nobody} /\ owner' \in Actor \cup {Nobody}
    BY <1>1 DEF IInv, TypeOK
  <2>. QED  BY <1>1, <2>1, <2>2, <2>3 DEF IInv, TypeOK
<1>6. Busy' = IF left'[a] = 0 THEN Busy \ {a} ELSE Busy
  BY <1>2, <1>4 DEF Busy
<1>7. ~Rotating /\ ~Rotating'
  BY <1>1, <1>4, Alone DEF Rotating
<1>8. Exclusive'
  BY <1>1, <1>4, <1>7, Alone, NobodyIsNoActor DEF Exclusive
<1>9. OwnLines'
  <2>1. Busy' \subseteq Busy /\ \A b \in Busy : b \in Actor
    BY <1>6 DEF Busy
  <2>2. \A b \in Busy' : left'[b] > 0 /\ line'[b] > 0 /\ line'[b] + left'[b] <= made' + 1
    BY <1>1, <1>2, <1>3, <1>4, <1>6, <2>1 DEF IInv, OwnLines
  <2>3. \A b, c \in Busy' : \/ b = c
                           \/ line'[b] + left'[b] <= line'[c]
                           \/ line'[c] + left'[c] <= line'[b]
    BY <1>1, <1>2, <1>3, <1>4, <2>1 DEF IInv, OwnLines
  <2>. QED  BY <2>2, <2>3 DEF OwnLines
<1>10. Unseen' = Unseen
  <2>1. ASSUME NEW n \in 1 .. made, NEW b \in Actor
        PROVE  /\ b \in Busy'
               /\ line'[b] <= n /\ n < line'[b] + left'[b]
               /\ pc'[b] \in {"open", "unlock"} => n # line'[b]
               <=>
               /\ b \in Busy
               /\ line[b] <= n /\ n < line[b] + left[b]
               /\ pc[b] \in {"open", "unlock"} => n # line[b]
    <3>1. CASE b = a
      BY <1>1, <1>2, <1>3, <1>4, <1>6, <3>1
    <3>2. CASE b # a
      BY <1>4, <1>6, <3>2
    <3>. QED  BY <3>1, <3>2
  <2>. QED  BY <1>1, <2>1 DEF Unseen, Busy
<1>11. Accounted' /\ NoneRepeated' /\ FilesBounded' /\ Ageing'
  BY <1>1, <1>7, <1>10, StillAccounted, NothingWritten
<1>. QED  BY <1>5, <1>8, <1>9, <1>11 DEF IInv

LEMMA TickStep == ASSUME IInv, Tick PROVE IInv'
<1>1. TypeOK'
  BY DEF IInv, TypeOK, Tick, Second
<1>2. Exclusive' /\ OwnLines' /\ NoneRepeated' /\ (Rotating' <=> Rotating)
  BY DEF Tick, IInv, Exclusive, Rotating, OwnLines, Busy, NoneRepeated
<1>3. Unseen' = Unseen
  BY DEF Tick, Unseen, Busy
<1>4. Accounted'
  BY <1>3, StillAccounted DEF Tick
<1>5. FilesBounded' /\ Ageing'
  <2>1. now \in Nat /\ current \in Nat /\ now' = now + 1
    BY SecondsAreNumbers DEF Tick, IInv, TypeOK
  <2>. QED  BY <1>2, <2>1, SecondsAreNumbers DEF Tick, IInv, FilesBounded, Ageing
<1>. QED  BY <1>1, <1>2, <1>4, <1>5 DEF IInv

LEMMA StutterStep == ASSUME IInv, UNCHANGED vars PROVE IInv'
<1>1. TypeOK'
  BY DEF IInv, TypeOK, vars
<1>2. (Rotating' <=> Rotating) /\ Unseen' = Unseen
  BY DEF Rotating, Unseen, Busy, vars
<1>3. Exclusive'
  BY <1>2 DEF IInv, Exclusive, vars
<1>4. OwnLines'
  BY DEF IInv, OwnLines, Busy, vars
<1>5. Accounted'
  BY <1>2, StillAccounted DEF vars
<1>6. NoneRepeated' /\ FilesBounded'
  BY DEF IInv, NoneRepeated, FilesBounded, vars
<1>7. Ageing'
  BY <1>2 DEF IInv, Ageing, vars
<1>. QED  BY <1>1, <1>3, <1>4, <1>5, <1>6, <1>7 DEF IInv

-----------------------------------------------------------------------------
(* The inductive invariant of logger_enhanced.cpp.                         *)
THEOREM LoggerInvariant == Spec => []IInv
<1>1. Init => IInv
  BY InitInvariant
<1>2. IInv /\ [Next]_vars => IInv'
  <2> SUFFICES ASSUME IInv, [Next]_vars
               PROVE  IInv'
    OBVIOUS
  <2>1. ASSUME NEW t \in Thread, Call(t) \/ Signal(t)
        PROVE  IInv'
    BY <2>1, CallStep DEF Call, Signal, Actor, IInv, TypeOK
  <2>2. ASSUME NEW a \in Actor, Log(a)
        PROVE  IInv'
    BY <2>2, FormatOrLockStep, WriteStep, WriteAgainStep, OpenNextStep, UnlockStep DEF Log
  <2>. QED  BY <2>1, <2>2, TickStep, StutterStep DEF Next
<1>. QED  BY <1>1, <1>2, PTL DEF Spec

(* The variables keep their types; no call logs a line too many.           *)
THEOREM LoggerTypeCorrect == Spec => []TypeOK
<1>1. IInv => TypeOK
  BY DEF IInv
<1>. QED  BY <1>1, LoggerInvariant, PTL

(* Each line that log() has been left with stands in the files exactly     *)
(* once, unless there was no file to write it to or the writing failed.    *)
THEOREM LinesKept == Spec => []NoneLost
<1>1. ASSUME IInv PROVE NoneLost
  <2>1. Unseen \subseteq ToCome
    BY DEF Unseen, ToCome
  <2>2. \A n \in (1 .. made) \ ToCome : n \in Standing <=> n \notin lost
    BY <1>1, <2>1 DEF IInv, Accounted, Standing
  <2>. QED  BY <1>1, <2>2 DEF IInv, NoneLost
<1>. QED  BY <1>1, LoggerInvariant, PTL

(* A full file whose second is over grows by at most two lines and one for *)
(* each failed stat, as long as no file got its name from another thread's *)
(* time.                                                                   *)
THEOREM OldFilesBounded == Spec => []FilesBounded
<1>1. IInv => FilesBounded
  BY DEF IInv
<1>. QED  BY <1>1, LoggerInvariant, PTL

-----------------------------------------------------------------------------
(* Reading the files one after the other.                                  *)

(* Induction over the natural numbers, for a set in the place of a formula. *)
LEMMA SetInduction ==
    ASSUME NEW T, 0 \in T, \A n \in Nat : n \in T => n + 1 \in T
    PROVE  \A n \in Nat : n \in T
<1> DEFINE Out == Nat \ T
<1>1. SUFFICES ASSUME Out # {} PROVE FALSE
  OBVIOUS
<1>2. Out \subseteq Nat
  OBVIOUS
<1> HIDE DEF Out
<1>3. PICK m \in Out : \A k \in Out : <<k, m>> \notin OpToRel(<, Nat)
  BY <1>1, <1>2, NatLessThanWellFounded, WFMin, Zenon
<1>4. \A k \in Out : ~(k < m)
  BY <1>2, <1>3, Zenon DEF OpToRel
<1>. QED  BY <1>4 DEF Out

Joins(f, seqs, n) == f = [i \in 1..n |-> IF i = 1 THEN seqs[i] ELSE f[i - 1] \o seqs[i]]

(* The two operations of the lemma below, kept from being expanded.        *)
Then(s, t) == s \o t
Ends(s, e) == Append(s, e)

LEMMA JoinStep ==
    ASSUME NEW f, NEW seqs, NEW n \in Nat, Joins(f, seqs, n)
    PROVE  \A i \in Nat : i + 1 \in 1..n =>
               f[i + 1] = IF i = 0 THEN seqs[i + 1] ELSE Then(f[i], seqs[i + 1])
<1>. TAKE i \in Nat
<1>. HAVE i + 1 \in 1..n
<1>1. f[i + 1] = IF i + 1 = 1 THEN seqs[i + 1] ELSE Then(f[(i + 1) - 1], seqs[i + 1])
  BY Zenon DEF Joins, Then
<1>2. (i + 1 = 1 <=> i = 0) /\ (i + 1) - 1 = i
  OBVIOUS
<1>. QED  BY <1>1, <1>2

LEMMA ThenEnds ==
    ASSUME NEW S, NEW s \in Seq(S), NEW t \in Seq(S), NEW e \in S
    PROVE  Then(s, Ends(t, e)) = Ends(Then(s, t), e)
<1>1. s \o t \in Seq(S) /\ <<e>> \in Seq(S)
  BY ConcatProperties
<1>2. Append(t, e) = t \o <<e>> /\ Append(s \o t, e) = (s \o t) \o <<e>>
  BY <1>1, AppendIsConcat
<1>. QED  BY <1>1, <1>2, ConcatAssociative DEF Then, Ends

LEMMA ThenNothing ==
    ASSUME NEW S, NEW s \in Seq(S)
    PROVE  Then(s, << >>) = s
BY ConcatEmptySeq DEF Then

LEMMA JoinExists ==
    ASSUME NEW seqs, NEW n \in Nat
    PROVE  \E f : Joins(f, seqs, n)
<1> DEFINE T == {m \in Nat : \E f : Joins(f, seqs, m)}
<1>1. 0 \in T
  <2>1. Joins([i \in 1..0 |-> 0], seqs, 0)
    BY DEF Joins
  <2>. QED  BY <2>1
<1>2. ASSUME NEW m \in Nat, m \in T PROVE m + 1 \in T
  <2>1. PICK f : Joins(f, seqs, m)
    BY <1>2
  <2> DEFINE g == [i \in 1..(m + 1) |->
                      IF i <= m THEN f[i] ELSE IF m = 0 THEN seqs[i] ELSE f[m] \o seqs[i]]
             h == [i \in 1..(m + 1) |-> IF i = 1 THEN seqs[i] ELSE g[i - 1] \o seqs[i]]
  <2>2. ASSUME NEW i \in 1..(m + 1) PROVE g[i] = h[i]
    <3>1. CASE i <= m
      <4>1. i \in 1..m /\ (i # 1 => i - 1 \in 1..m /\ i - 1 <= m /\ i - 1 \in 1..(m + 1))
        BY <3>1
      <4>2. f[i] = IF i = 1 THEN seqs[i] ELSE f[i - 1] \o seqs[i]
        BY <2>1, <4>1 DEF Joins
      <4>. QED  BY <3>1, <4>1, <4>2
    <3>2. CASE i = m + 1
      BY <3>2
    <3>. QED  BY <3>1, <3>2
  <2>3. Joins(g, seqs, m + 1)
    <3>1. g = h
      BY <2>2
    <3>. QED  BY <3>1 DEF Joins
  <2>. QED  BY <2>3
<1> HIDE DEF T
<1>3. \A m \in Nat : m \in T
  BY <1>1, <1>2, SetInduction
<1>. QED  BY <1>3 DEF T

Rows(seqs, n, S) == seqs \in [1..n -> Seq(S)]

LEMMA Flattened ==
    ASSUME NEW S, NEW n \in Nat \ {0}, NEW seqs, Rows(seqs, n, S)
    PROVE  \E f : /\ Joins(f, seqs, n)
                  /\ \A i \in 1..n : f[i] \in Seq(S)
                  /\ FlattenSeq(seqs) = f[n]
<1>1. /\ Len(seqs) = n
      /\ \A i \in 1..n : seqs[i] \in Seq(S)
  BY DEF Rows
<1>2. \E f : Joins(f, seqs, n)
  BY JoinExists
<1> DEFINE F == CHOOSE f : Joins(f, seqs, n)
<1>3. Joins(F, seqs, n)
  BY <1>2
<1>4. FlattenSeq(seqs) = F[n]
  BY <1>1 DEF FlattenSeq, Joins
<1> HIDE DEF F
<1> DEFINE T == {i \in Nat : i \in 1..n => F[i] \in Seq(S)}
<1>5. ASSUME NEW i \in Nat, i \in T, i + 1 \in 1..n PROVE F[i + 1] \in Seq(S)
  <2>1. F[i + 1] = IF i = 0 THEN seqs[i + 1] ELSE F[i] \o seqs[i + 1]
    <3>1. n \in Nat
      OBVIOUS
    <3>2. \A j \in Nat : j + 1 \in 1..n =>
              F[j + 1] = IF j = 0 THEN seqs[j + 1] ELSE Then(F[j], seqs[j + 1])
      BY <1>3, <3>1, JoinStep, ZenonT(40)
    <3>. QED  BY <1>5, <3>2 DEF Then
  <2>2. CASE i = 0
    BY <1>1, <1>5, <2>1, <2>2
  <2>3. CASE i # 0
    <3>1. F[i] \in Seq(S) /\ seqs[i + 1] \in Seq(S)
      BY <1>1, <1>5, <2>3
    <3>. QED  BY <1>5, <2>1, <2>3, <3>1, ConcatProperties
  <2>. QED  BY <2>2, <2>3
<1>6. \A i \in Nat : i \in T
  <2>1. 0 \in T
    OBVIOUS
  <2>2. ASSUME NEW i \in Nat, i \in T PROVE i + 1 \in T
    BY <1>5, <2>2
  <2> HIDE DEF T
  <2>. QED  BY <2>1, <2>2, SetInduction
<1>7. \A i \in 1..n : F[i] \in Seq(S)
  BY <1>6
<1>. QED  BY <1>3, <1>4, <1>7

LongerAt(c, more, seqs, n, e) ==
    \A i \in 1..n : more[i] = IF i = c THEN Ends(seqs[i], e) ELSE seqs[i]

EmptyAfter(c, seqs, n) == \A i \in 1..n : i > c => seqs[i] = << >>

(* A file that grows at its end, with only empty ones after it.            *)
LEMMA FlattenAppend ==
    ASSUME NEW S, NEW n \in Nat \ {0}, NEW c \in 1..n, NEW e \in S,
           NEW seqs, Rows(seqs, n, S), NEW more, Rows(more, n, S),
           LongerAt(c, more, seqs, n, e), EmptyAfter(c, seqs, n)
    PROVE  FlattenSeq(more) = Ends(FlattenSeq(seqs), e)
<1>1. PICK f : /\ Joins(f, seqs, n)
               /\ \A i \in 1..n : f[i] \in Seq(S)
               /\ FlattenSeq(seqs) = f[n]
  BY Flattened
<1>2. PICK g : /\ Joins(g, more, n)
               /\ \A i \in 1..n : g[i] \in Seq(S)
               /\ FlattenSeq(more) = g[n]
  BY Flattened
<1>3. \A i \in 1..n : seqs[i] \in Seq(S)
  BY DEF Rows
<1>4. n \in Nat
  OBVIOUS
<1>5. \A i \in Nat : i + 1 \in 1..n =>
          f[i + 1] = IF i = 0 THEN seqs[i + 1] ELSE Then(f[i], seqs[i + 1])
  BY <1>4, <1>1, JoinStep, ZenonT(40)
<1>6. \A i \in Nat : i + 1 \in 1..n =>
          g[i + 1] = IF i = 0 THEN more[i + 1] ELSE Then(g[i], more[i + 1])
  BY <1>4, <1>2, JoinStep, ZenonT(40)
<1>7. ASSUME NEW i \in Nat, i + 1 \in 1..n,
             i # 0 => g[i] = IF i < c THEN f[i] ELSE Ends(f[i], e)
      PROVE  g[i + 1] = IF i + 1 < c THEN f[i + 1] ELSE Ends(f[i + 1], e)
  <2>1. i + 1 \in 1..n
    BY <1>7
  <2>2. g[i + 1] = IF i = 0 THEN more[i + 1] ELSE Then(g[i], more[i + 1])
    BY <1>6, <2>1
  <2>3. f[i + 1] = IF i = 0 THEN seqs[i + 1] ELSE Then(f[i], seqs[i + 1])
    BY <1>5, <2>1
  <2>4. more[i + 1] = IF i + 1 = c THEN Ends(seqs[i + 1], e) ELSE seqs[i + 1]
    BY <2>1 DEF LongerAt
  <2>5. i + 1 > c => seqs[i + 1] = << >>
    BY <2>1 DEF EmptyAfter
  <2>6. CASE i = 0
    <3>1. i + 1 < c \/ i + 1 = c
      BY <2>6
    <3>. QED  BY <2>2, <2>3, <2>6, <2>4, <3>1
  <2>7. CASE i # 0
    <3>1. /\ g[i] = IF i < c THEN f[i] ELSE Ends(f[i], e)
          /\ f[i] \in Seq(S) /\ g[i] \in Seq(S) /\ seqs[i + 1] \in Seq(S)
      BY <1>1, <1>2, <1>7, <1>3, <2>7
    <3>2. CASE i + 1 < c
      BY <2>2, <2>3, <2>7, <2>4, <3>1, <3>2
    <3>3. CASE i + 1 = c
      <4>1. g[i + 1] = Then(f[i], Ends(seqs[i + 1], e))
        BY <2>2, <2>7, <2>4, <3>1, <3>3
      <4>2. Then(f[i], Ends(seqs[i + 1], e)) = Ends(Then(f[i], seqs[i + 1]), e)
        BY <3>1, ThenEnds
      <4>. QED  BY <2>3, <2>7, <3>3, <4>1, <4>2
    <3>4. CASE i + 1 > c
      <4>1. f[i + 1] = Then(f[i], << >>) /\ g[i + 1] = Then(g[i], << >>)
        BY <2>2, <2>3, <2>7, <2>4, <2>5, <3>4
      <4>2. f[i + 1] = f[i] /\ g[i + 1] = g[i]
        BY <3>1, <4>1, ThenNothing
      <4>. QED  BY <3>1, <3>4, <4>2
    <3>. QED  BY <2>1, <3>2, <3>3, <3>4
  <2>. QED  BY <2>6, <2>7
<1> DEFINE T == {i \in Nat : i \in 1..n => g[i] = IF i < c THEN f[i] ELSE Ends(f[i], e)}
<1>8. \A i \in Nat : i \in T
  <2>1. 0 \in T
    OBVIOUS
  <2>2. ASSUME NEW i \in Nat, i \in T PROVE i + 1 \in T
    <3>1. SUFFICES ASSUME i + 1 \in 1..n
                   PROVE  g[i + 1] = IF i + 1 < c THEN f[i + 1] ELSE Ends(f[i + 1], e)
      OBVIOUS
    <3>2. i # 0 => g[i] = IF i < c THEN f[i] ELSE Ends(f[i], e)
      BY <2>2, <3>1
    <3>. QED  BY <1>7, <3>1, <3>2
  <2> HIDE DEF T
  <2>. QED  BY <2>1, <2>2, SetInduction
<1>9. g[n] = Ends(f[n], e)
  <2>1. n \in T /\ ~(n < c)
    BY <1>8
  <2>. QED  BY <2>1
<1>. QED  BY <1>1, <1>2, <1>9

LEMMA FlattenNothing ==
    ASSUME NEW n \in Nat \ {0}
    PROVE  FlattenSeq([i \in 1..n |-> << >>]) = << >>
<1> DEFINE none == [i \in 1..n |-> << >>]
<1>1. Rows(none, n, {})
  BY DEF Rows
<1>2. n \in 1..n
  OBVIOUS
<1>3. \E f : /\ Joins(f, none, n)
             /\ \A i \in 1..n : f[i] \in Seq({})
             /\ FlattenSeq(none) = f[n]
  <2> HIDE DEF none
  <2>. QED  BY <1>1, Flattened
<1>4. FlattenSeq(none) \in Seq({})
  <2> HIDE DEF none
  <2>. QED  BY <1>2, <1>3
<1>. QED  BY <1>4

-----------------------------------------------------------------------------
(* The files in the order of their names, as InNameOrder reads them.       *)
InNames(fs) == [s \in 1..(LastSecond + 1) |-> fs[s - 1]]

LEMMA PutsInOrder ==
    ASSUME TypeOK, Ordered, NEW a \in Actor, Puts(a), UNCHANGED <<current, raced>>
    PROVE  Ordered'
<1>1. CASE raced
  BY <1>1 DEF Ordered, InNameOrder, NothingAhead
<1>2. CASE ~raced
  <2> DEFINE n == LastSecond + 1
             c == current + 1
             e == line[a]
  <2>1. n \in Nat \ {0} /\ c \in 1..n /\ e \in Nat /\ current \in Second
    <3>1. current \in Second /\ line \in [Actor -> Nat]
      BY DEF TypeOK
    <3>. QED  BY <3>1 DEF Second
  <2>2. \A i \in 1..n : i - 1 \in Second /\ (i = c <=> i - 1 = current)
                                      /\ (i > c <=> i - 1 > current)
    BY <2>1 DEF Second
  <2>3. /\ files \in [Second -> Seq(Nat)] /\ files' \in [Second -> Seq(Nat)]
        /\ \A s \in Second :
               files'[s] = IF s = current THEN Append(files[s], e) ELSE files[s]
    BY PutsTypes DEF TypeOK, Puts
  <2>4. Rows(InNames(files), n, Nat) /\ Rows(InNames(files'), n, Nat)
    BY <2>2, <2>3 DEF Rows, InNames
  <2>5. LongerAt(c, InNames(files'), InNames(files), n, e)
    BY <2>2, <2>3 DEF LongerAt, InNames, Ends
  <2>6. EmptyAfter(c, InNames(files), n)
    BY <1>2, <2>2 DEF EmptyAfter, InNames, Ordered, NothingAhead
  <2>7. FlattenSeq(InNames(files')) = Ends(FlattenSeq(InNames(files)), e)
    <3> HIDE DEF n, c, e
    <3>. QED  BY <2>1, <2>4, <2>5, <2>6, FlattenAppend
  <2>8. FlattenSeq(InNames(files)) = written
    BY <1>2 DEF Ordered, InNameOrder, InNames
  <2>9. written' = Ends(written, e)
    BY DEF Puts, Ends
  <2>10. InNameOrder'
    <3>1. FlattenSeq(InNames(files')) = written'
      BY <2>7, <2>8, <2>9
    <3>. QED  BY <3>1 DEF InNameOrder, InNames
  <2>11. NothingAhead'
    BY <1>2, <2>1, <2>3, SecondsAreNumbers DEF Ordered, NothingAhead
  <2>. QED  BY <2>10, <2>11 DEF Ordered
<1>. QED  BY <1>1, <1>2

(* What neither writes to a file nor opens another keeps the order.        *)
LEMMA NothingReordered ==
    ASSUME Ordered, UNCHANGED <<files, written, current, raced>>
    PROVE  Ordered'
BY DEF Ordered, InNameOrder, NothingAhead

(* The next file is the current one or a later one, and nothing is moved.  *)
LEMMA OpensInOrder ==
    ASSUME IInv, Ordered, NEW a \in Actor, OpenNext(a)
    PROVE  Ordered'
<1>1. /\ files' = files /\ written' = written
      /\ raced' = (raced \/ foreign) /\ (~foreign => current' = now)
  BY DEF OpenNext, Contents, IInv, TypeOK
<1>2. InNameOrder'
  BY <1>1 DEF Ordered, InNameOrder
<1>3. ASSUME ~raced', NEW s \in Second, s > current' PROVE files'[s] = << >>
  <2>1. current <= now /\ current' = now /\ ~raced
    BY <1>1, <1>3 DEF IInv, Ageing
  <2>2. s \in Nat /\ now \in Nat /\ current \in Nat
    BY SecondsAreNumbers DEF IInv, TypeOK
  <2>3. s > current
    BY <1>3, <2>1, <2>2
  <2>. QED  BY <1>1, <2>1, <2>3 DEF Ordered, NothingAhead
<1>. QED  BY <1>2, <1>3 DEF Ordered, NothingAhead

LEMMA InitInOrder == ASSUME Init PROVE Ordered
<1> DEFINE n == LastSecond + 1
<1>1. n \in Nat \ {0}
  OBVIOUS
<1>2. [s \in 1..n |-> files[s - 1]] = [s \in 1..n |-> << >>]
  BY DEF Init, Second
<1>3. FlattenSeq([s \in 1..n |-> files[s - 1]]) = << >>
  <2> HIDE DEF n
  <2>. QED  BY <1>1, <1>2, FlattenNothing
<1>. QED  BY <1>3 DEF Init, Ordered, InNameOrder, NothingAhead

(* The order of the names of the files is the order in which their lines   *)
(* were written, as long as no file got its name from another thread's     *)
(* time: no file is truncated or continued behind a later one.             *)
THEOREM LogInNameOrder == Spec => []InNameOrder
<1>1. Init => Ordered
  BY InitInOrder
<1>2. IInv /\ Ordered /\ [Next]_vars => Ordered'
  <2> SUFFICES ASSUME IInv, Ordered, [Next]_vars
               PROVE  Ordered'
    OBVIOUS
  <2>1. ASSUME NEW t \in Thread, Call(t) \/ Signal(t)
        PROVE  Ordered'
    BY <2>1, NothingReordered DEF Call, Signal
  <2>2. ASSUME NEW a \in Actor, Log(a)
        PROVE  Ordered'
    <3>1. CASE Format(a) \/ Formatted(a) \/ Lock(a) \/ Unlock(a)
      BY <3>1, NothingReordered DEF Format, Formatted, Lock, Unlock
    <3>2. CASE Write(a)
      BY <3>2, PutsInOrder, NothingReordered DEF Write, Outputs, Loses, IInv
    <3>3. CASE WriteAgain(a)
      BY <3>3, PutsInOrder, NothingReordered DEF WriteAgain, PutsAgain, Loses, IInv
    <3>4. CASE OpenNext(a)
      BY <3>4, OpensInOrder
    <3>. QED  BY <2>2, <3>1, <3>2, <3>3, <3>4 DEF Log
  <2>3. CASE Tick \/ UNCHANGED vars
    BY <2>3, NothingReordered DEF Tick, vars
  <2>. QED  BY <2>1, <2>2, <2>3 DEF Next
<1>3. Ordered => InNameOrder
  BY DEF Ordered
<1>. QED  BY <1>1, <1>2, <1>3, LoggerInvariant, PTL DEF Spec

===============================================================================
