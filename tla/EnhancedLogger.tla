---------------------------- MODULE EnhancedLogger ----------------------------
(***************************************************************************)
(* The logger both processes write through, src/common/logger_enhanced.cpp:*)
(* log() on several threads and in a signal handler, the file it writes    *)
(* to, and its replacement once it is full.                                *)
(*                                                                         *)
(* pc[a] is the next step of log() in actor a, a thread or the handler:    *)
(*                                                                         *)
(*   format   the line is to be made                                       *)
(*   libc     it is made: malloc and localtime hold their locks, and       *)
(*            localtime writes its shared buffer                           *)
(*   lock     std::lock_guard                                              *)
(*   write    the line goes to the file, which is opened again if need be  *)
(*   open     a full file has been closed; the name of the next is read    *)
(*            from the buffer of localtime                                 *)
(*   unlock                                                                *)
(*                                                                         *)
(* A file is named by the second in which it was opened. Its size is       *)
(* counted in lines, and setLogFile has opened the first one. A line goes  *)
(* to its file whole or not at all: what a failed write has left in the    *)
(* file, or in the buffer of the stream, counts as lost.                   *)
(***************************************************************************)
EXTENDS Naturals, SequencesExt

CONSTANTS
    Thread,
    Handler,        \* signalHandler, on the thread that the signal interrupts
    Nobody,
    Capacity,       \* maxLogFileSize
    LastSecond,     \* the clock stops there
    Lines,          \* lines the program logs
    Misses          \* how often stat may fail for a full file

ASSUME LoggerAssumption ==
    /\ {Handler, Nobody} \cap Thread = {} /\ Handler # Nobody
    /\ {Capacity, LastSecond, Lines, Misses} \subseteq Nat

VARIABLES
    pc,
    line,           \* [Actor -> Nat], the line the actor is logging
    left,           \* [Actor -> Nat], lines of its call still to be logged
    host,           \* the thread that the handler interrupted
    owner,          \* of logMutex
    foreign,        \* localtime was called between "write" and "open"
    now,
    current,        \* currentLogFilename
    isOpen,         \* logFile.is_open()
    broken,         \* logFile.bad(): a write has failed since it was opened
    files,          \* [Second -> Seq(Nat)]
    made,           \* lines made so far
    (* history *)
    written,        \* Seq(Nat), the lines in the order they were written
    lost,           \* lines for which no file could be opened or written
    late,           \* [Second -> Nat], lines written to a full file after its second
    missed,         \* full files that stat could not find full
    raced           \* a file name was taken from somebody else's time

callVars == <<line, left, made>>
fileVars == <<current, isOpen, broken>>
historyVars == <<written, lost, late, missed, raced>>
vars == <<pc, callVars, host, owner, foreign, now, fileVars, files, historyVars>>

Actor == Thread \cup {Handler}
Second == 0 .. LastSecond

TypeOK ==
    /\ pc \in [Actor -> {"idle", "format", "libc", "lock", "write", "open", "unlock"}]
    /\ line \in [Actor -> Nat]
    /\ left \in [Actor -> Nat]
    /\ host \in Thread \cup {Nobody}
    /\ owner \in Actor \cup {Nobody}
    /\ foreign \in BOOLEAN
    /\ now \in Second /\ current \in Second
    /\ isOpen \in BOOLEAN /\ broken \in BOOLEAN
    /\ files \in [Second -> Seq(Nat)]
    /\ made \in Nat
    /\ written \in Seq(Nat)
    /\ lost \subseteq 1 .. made
    /\ late \in [Second -> Nat]
    /\ missed \in Nat
    /\ raced \in BOOLEAN

Init ==
    /\ pc = [a \in Actor |-> "idle"]
    /\ line = [a \in Actor |-> 0]
    /\ left = [a \in Actor |-> 0]
    /\ host = Nobody
    /\ owner = Nobody
    /\ foreign = FALSE
    /\ now = 0
    /\ current = 0
    /\ isOpen \in BOOLEAN
    /\ broken = FALSE
    /\ files = [s \in Second |-> << >>]
    /\ made = 0
    /\ written = << >>
    /\ lost = {}
    /\ late = [s \in Second |-> 0]
    /\ missed = 0
    /\ raced = FALSE

-----------------------------------------------------------------------------
(* A thread does nothing while the handler runs on it.                     *)
Moves(a, from, to) ==
    /\ host # a
    /\ pc[a] = from
    /\ pc' = [pc EXCEPT ![a] = to]

(* A call of one of the log macros. Those of level DEBUG print nothing,    *)
(* logError with a stack trace prints two lines, the others one.           *)
Calls(a, n) ==
    /\ made + n <= Lines
    /\ Moves(a, "idle", "format")
    /\ left' = [left EXCEPT ![a] = n]
    /\ line' = [line EXCEPT ![a] = made + 1]
    /\ made' = made + n

Call(t) ==
    /\ Calls(t, 1) \/ Calls(t, 2)
    /\ UNCHANGED <<host, owner, foreign, now, fileVars, files, historyVars>>

(* The handler logs the signal. What it logs in stopping the server is     *)
(* another line of the same kind.                                          *)
Signal(t) ==
    /\ host = Nobody
    /\ host' = t
    /\ Calls(Handler, 1)
    /\ UNCHANGED <<owner, foreign, now, fileVars, files, historyVars>>

(* The handler may have interrupted the thread that holds them.            *)
LibcFree == \A b \in Actor : pc[b] # "libc"

Format(a) ==
    /\ LibcFree
    /\ Moves(a, "format", "libc")
    /\ UNCHANGED <<callVars, host, owner, foreign, now, fileVars, files, historyVars>>

Formatted(a) ==
    /\ Moves(a, "libc", "lock")
    /\ foreign' = (\E b \in Actor : pc[b] = "open")
    /\ UNCHANGED <<callVars, host, owner, now, fileVars, files, historyVars>>

Lock(a) ==
    /\ owner = Nobody
    /\ Moves(a, "lock", "write")
    /\ owner' = a
    /\ UNCHANGED <<callVars, host, foreign, now, fileVars, files, historyVars>>

Full_Never(content) == FALSE  \* the size asked of a name that has changed
Full(content) == Len(content) >= Capacity

Puts(a) ==
    /\ files' = [files EXCEPT ![current] = Append(@, line[a])]
    /\ written' = Append(written, line[a])
    /\ late' = [late EXCEPT ![current] =
                  IF Len(files[current]) >= Capacity /\ now > current THEN @ + 1 ELSE @]
    /\ UNCHANGED lost

Loses(a) == lost' = lost \cup {line[a]} /\ UNCHANGED <<files, written, late>>

(* badbit, once set, makes every further output of the stream do nothing.  *)
Outputs(a) ==
    \/ ~broken /\ Puts(a) /\ broken' = FALSE
    \/ Loses(a) /\ broken' = TRUE

(* A file that is full now is closed, and localtime called for a new name, *)
(* whether or not the line has reached it. If stat fails, it goes on.      *)
Write(a) ==
    /\ isOpen
    /\ Outputs(a)
    /\ \/ /\ Full(files'[current])
          /\ Moves(a, "write", "open")
          /\ isOpen' = FALSE /\ UNCHANGED missed
       \/ /\ Full(files'[current]) /\ missed < Misses
          /\ Moves(a, "write", "unlock")
          /\ missed' = missed + 1 /\ UNCHANGED isOpen
       \/ /\ ~Full(files'[current])
          /\ Moves(a, "write", "unlock")
          /\ UNCHANGED <<isOpen, missed>>
    /\ UNCHANGED <<callVars, host, owner, foreign, now, current, raced>>

(* The file that could not be opened before is tried again, once for each  *)
(* line; its size is not looked at here. open() clears badbit.             *)
PutsAgain_OnlyOpens(a) == UNCHANGED <<files, written, lost, late>>  \* the line forgotten
PutsAgain(a) == Puts(a)

WriteAgain(a) ==
    /\ ~isOpen
    /\ Moves(a, "write", "unlock")
    /\ \/ isOpen' = TRUE /\ broken' = FALSE /\ PutsAgain(a)
       \/ isOpen' = TRUE /\ broken' = TRUE /\ Loses(a)
       \/ UNCHANGED <<isOpen, broken>> /\ Loses(a)
    /\ UNCHANGED <<callVars, host, owner, foreign, now, current, missed, raced>>

(* std::ios::app. What another thread's localtime may have left of the     *)
(* time in the buffer is any second at all.                                *)
Contents_Truncated(f) == << >>  \* opened without std::ios::app
Contents(f) == files[f]

AfterRotation_Logs == "lock"  \* the rotation reported by LOG_INFO, not by cout
AfterRotation == "unlock"

OpenNext(a) ==
    /\ LibcFree
    /\ Moves(a, "open", AfterRotation)
    /\ current' \in IF foreign THEN Second ELSE {now}
    /\ raced' = (raced \/ foreign)
    /\ foreign' = FALSE
    /\ isOpen' \in BOOLEAN /\ broken' = FALSE
    /\ files' = [files EXCEPT ![current'] = IF isOpen' THEN Contents(current') ELSE @]
    /\ UNCHANGED <<callVars, host, owner, now, written, lost, late, missed>>

LeftNow_Twice(a) == left[a] - 2  \* logError counted as two
LeftNow(a) == left[a] - 1

(* The guard's destructor. The second line of logError is a log() of its own. *)
Unlock(a) ==
    /\ owner = a
    /\ Moves(a, "unlock", IF LeftNow(a) = 0 THEN "idle" ELSE "format")
    /\ owner' = Nobody
    /\ left' = [left EXCEPT ![a] = LeftNow(a)]
    /\ line' = [line EXCEPT ![a] = IF LeftNow(a) = 0 THEN 0 ELSE @ + 1]
    /\ host' = IF a = Handler /\ LeftNow(a) = 0 THEN Nobody ELSE host
    /\ UNCHANGED <<made, foreign, now, fileVars, files, historyVars>>

Tick ==
    /\ now < LastSecond
    /\ now' = now + 1
    /\ UNCHANGED <<pc, callVars, host, owner, foreign, fileVars, files, historyVars>>

-----------------------------------------------------------------------------
Log(a) ==
    \/ Format(a) \/ Formatted(a) \/ Lock(a) \/ Write(a) \/ WriteAgain(a)
    \/ OpenNext(a) \/ Unlock(a)

Next ==
    \/ \E t \in Thread : Call(t) \/ Signal(t)
    \/ \E a \in Actor : Log(a)
    \/ Tick

Spec == Init /\ [][Next]_vars

(* Every thread is scheduled. Nothing is assumed of the calls, the signal  *)
(* and the clock.                                                          *)
LiveSpec == Spec /\ \A a \in Actor : WF_vars(Log(a))

-----------------------------------------------------------------------------
(***************************************************************************)
(* Properties.                                                             *)
(***************************************************************************)

(* A line that log() has been left with stands in the files, or there was  *)
(* no file for it or its stream had failed, and no line stands there       *)
(* twice: rotations, failures and a handler in between neither lose nor    *)
(* repeat one (lines 226-240).                                             *)
Busy == {a \in Actor : pc[a] # "idle"}
ToCome == {n \in 1 .. made : \E a \in Busy : line[a] <= n /\ n < line[a] + left[a]}
Standing == {n \in 1 .. made : \E s \in Second : \E i \in DOMAIN files[s] : files[s][i] = n}

NoneRepeated ==
    \A s, t \in Second : \A i \in DOMAIN files[s], j \in DOMAIN files[t] :
        files[s][i] = files[t][j] => s = t /\ i = j

NoneLost ==
    /\ NoneRepeated
    /\ \A n \in (1 .. made) \ ToCome : n \in Standing <=> n \notin lost

(* The files, read in the order of their names, are the log in the order   *)
(* it was written: a name given again within its second continues the file *)
(* and never replaces it. Only a name made of another thread's time, out   *)
(* of the buffer of localtime, breaks this (lines 346, 378).               *)
InNameOrder ==
    ~raced => FlattenSeq([s \in 1 .. LastSecond + 1 |-> files[s - 1]]) = written

(* A file that is full and whose second is over receives at most two more  *)
(* lines: one before it is looked at, and one before that if its opening   *)
(* had failed; and one more each time stat fails. Within its second there  *)
(* is no limit (lines 233, 336, 341).                                      *)
FilesBounded == ~raced => \A s \in Second : late[s] <= 2 + missed

(* Every call returns, unless a signal has interrupted the thread that     *)
(* holds the mutex or, in making a line, a lock of libc: the handler then  *)
(* waits for it in vain (disp/main.cpp:15, ap/main.cpp:11), and so does    *)
(* everybody else.                                                         *)
SelfLocked ==
    /\ host # Nobody
    /\ \/ owner = host /\ pc[Handler] = "lock"
       \/ pc[host] = "libc" /\ pc[Handler] = "format"

LogReturns == \A a \in Actor : []<>(a \notin Busy \/ SelfLocked)

-----------------------------------------------------------------------------
(* The inductive invariant behind NoneLost and FilesBounded.               *)

Rotating == \E a \in Actor : pc[a] = "open"

(* Whoever is between "lock" and the end of "unlock" owns the mutex.       *)
Exclusive ==
    /\ \A a \in Actor : pc[a] \in {"write", "open", "unlock"} <=> owner = a
    /\ Rotating => ~isOpen

(* A call has its lines to itself, and they are lines that were made.      *)
OwnLines ==
    /\ \A a \in Busy :
           left[a] > 0 /\ line[a] > 0 /\ line[a] + left[a] <= made + 1
    /\ \A a, b \in Busy :
           \/ a = b
           \/ line[a] + left[a] <= line[b]
           \/ line[b] + left[b] <= line[a]

(* The lines that no file has seen yet, and how the others are accounted   *)
(* for.                                                                    *)
Unseen ==
    {n \in 1 .. made : \E a \in Busy :
        /\ line[a] <= n /\ n < line[a] + left[a]
        /\ pc[a] \in {"open", "unlock"} => n # line[a]}

Accounted ==
    /\ lost \cap Unseen = {}
    /\ \A s \in Second : \A i \in DOMAIN files[s] :
           files[s][i] \in (1 .. made) \ (Unseen \cup lost)
    /\ (1 .. made) \ (Unseen \cup lost) \subseteq Standing

(* A file grows late only while it is the current one, and each late line  *)
(* brings it nearer to its rotation.                                       *)
Ageing ==
    ~raced =>
        /\ current <= now
        /\ \A s \in Second : late[s] > 0 => s < now
        /\ late[current] <= missed + (IF Rotating THEN 2 ELSE IF isOpen THEN 1 ELSE 0)

(* What InNameOrder rests on: a file is appended to while no later one has *)
(* a line yet.                                                             *)
NothingAhead == ~raced => \A s \in Second : s > current => files[s] = << >>

Ordered == InNameOrder /\ NothingAhead

IInv ==
    /\ TypeOK
    /\ Exclusive
    /\ OwnLines
    /\ NoneRepeated
    /\ Accounted
    /\ FilesBounded
    /\ Ageing

===============================================================================
