-------------------------- MODULE ForwardPath_proofs --------------------------
(***************************************************************************)
(* DISP, AP and MySQL together implement OrderStore, and changes are made  *)
(* in the order of their connections, for any number of requests, of DISP  *)
(* threads and of places in the backlog. The argument is the invariant     *)
(* IInv of ForwardPath, one lemma for each action.                         *)
(***************************************************************************)
EXTENDS ForwardPath, SequenceTheorems, TLAPS

USE ForwardAssumption DEF netVars, apVars, dbVars

-----------------------------------------------------------------------------
(* What Append and Tail do to the elements of a sequence.                  *)

LEMMA AppendElements ==
    ASSUME NEW S, NEW s \in Seq(S), NEW x \in S
    PROVE  /\ Append(s, x) \in Seq(S)
           /\ Len(Append(s, x)) = Len(s) + 1
           /\ DOMAIN Append(s, x) = DOMAIN s \cup {Len(s) + 1}
           /\ \A i \in DOMAIN s : Append(s, x)[i] = s[i] /\ i < Len(s) + 1
           /\ Append(s, x)[Len(s) + 1] = x
OBVIOUS

LEMMA TailElements ==
    ASSUME NEW S, NEW s \in Seq(S), s # <<>>
    PROVE  /\ Tail(s) \in Seq(S)
           /\ Len(Tail(s)) = Len(s) - 1
           /\ Head(s) \in S
           /\ Head(s) = s[1]
           /\ 1 \in DOMAIN s
           /\ \A i \in DOMAIN Tail(s) : /\ i + 1 \in DOMAIN s
                                        /\ i + 1 > 1
                                        /\ Tail(s)[i] = s[i + 1]
           /\ \A i \in DOMAIN s : i # 1 => i - 1 \in DOMAIN Tail(s) /\ s[i] = Tail(s)[i - 1]
OBVIOUS

-----------------------------------------------------------------------------
(* What an action that leaves a sequence alone leaves alone.               *)

LEMMA SameBacklog == ASSUME UNCHANGED backlog PROVE UNCHANGED InBacklog
BY DEF InBacklog

LEMMA SameApplied == ASSUME UNCHANGED applied PROVE UNCHANGED Applied
BY DEF Applied

LEMMA SameOrder ==
    ASSUME UNCHANGED order
    PROVE  UNCHANGED <<Ordered, Before>>
BY DEF Ordered, Before

LEMMA SameServed == ASSUME UNCHANGED serving PROVE UNCHANGED Served
BY DEF Served

(* Orphans only ever take statements out of the order.                     *)
LEMMA SameInOrder ==
    ASSUME IInv, UNCHANGED <<applied, order>>, orphaned \subseteq orphaned'
    PROVE  InOrder'
<1>1. \A i \in DOMAIN applied : applied[i] \in Request
  BY DEF IInv, TypeOK
<1>. QED  BY <1>1, SameOrder DEF IInv, InOrder

LEMMA ElementsTyped ==
    ASSUME TypeOK
    PROVE  /\ InBacklog \subseteq Request
           /\ Applied \subseteq Request
           /\ Ordered \subseteq Request
           /\ Served \subseteq Request
           /\ executing \subseteq Request
BY DEF TypeOK, InBacklog, Applied, Ordered, Served

-----------------------------------------------------------------------------
(* DISP.                                                                   *)

LEMMA BeginStep ==
    ASSUME IInv, NEW r \in Request, Begin(r)
    PROVE  IInv'
<1> USE DEF IInv, Begin
<1>0. UNCHANGED <<InBacklog, Applied, Ordered, Before, Served>>
  BY SameBacklog, SameApplied, SameOrder, SameServed
<1>1. TypeOK'
  BY DEF TypeOK, Step
<1>2. ServingWhileBusy' /\ OneStage'
  BY <1>0 DEF TypeOK, ServingWhileBusy, OneStage, NotYetConnected, NotYetQueried
<1>3. Truthful'
  BY <1>0 DEF TypeOK, Truthful
<1>4. Queueing'
  BY <1>0, ElementsTyped DEF TypeOK, Queueing, Settled
<1>5. InOrder'
  BY SameInOrder
<1>. QED BY <1>1, <1>2, <1>3, <1>4, <1>5

LEMMA ConnectStep ==
    ASSUME IInv, NEW r \in Request, Connect(r)
    PROVE  IInv'
<1> USE DEF IInv, Connect
<1>1. TypeOK'
  <2>1. backlog' \in Seq(Request) /\ Len(backlog') = Len(backlog) + 1 /\ order' \in Seq(Request)
    BY AppendElements DEF TypeOK
  <2>. QED  BY <2>1 DEF TypeOK, Step, HasRoom
<1>2. UNCHANGED <<Applied, Served>>
  BY SameApplied, SameServed
<1>3. InBacklog' = InBacklog \cup {r} /\ Ordered' = Ordered \cup {r}
  BY AppendElements DEF TypeOK, InBacklog, Ordered
<1>4. r \notin InBacklog \cup {serving} \cup executing \cup Applied
  BY DEF OneStage, NotYetConnected
<1>5. ServingWhileBusy' /\ Truthful'
  BY <1>2 DEF TypeOK, ServingWhileBusy, Truthful
<1>6. OneStage'
  <2>1. \A i, j \in DOMAIN backlog' : backlog'[i] = backlog'[j] => i = j
    BY <1>4, AppendElements DEF TypeOK, OneStage, InBacklog
  <2>. QED  BY <1>2, <1>3, <1>4, <2>1 DEF TypeOK, OneStage, NotYetConnected, NotYetQueried
<1>7. Before \subseteq Before'
  BY AppendElements DEF TypeOK, Before
<1>8. \A q \in Ordered : <<q, r>> \in Before'
  BY AppendElements DEF TypeOK, Before, Ordered
<1>9. Queueing'
  <2>1. \A i, j \in DOMAIN backlog' : i < j => <<backlog'[i], backlog'[j]>> \in Before'
    <3>. SUFFICES ASSUME NEW i \in DOMAIN backlog', NEW j \in DOMAIN backlog', i < j
                  PROVE  <<backlog'[i], backlog'[j]>> \in Before'
      OBVIOUS
    <3>1. i \in DOMAIN backlog /\ backlog'[i] = backlog[i] /\ backlog[i] \in Request
      BY AppendElements DEF TypeOK
    <3>2. CASE j \in DOMAIN backlog
      <4>1. backlog'[j] = backlog[j] /\ backlog[j] \in Request
        BY <3>2, AppendElements DEF TypeOK
      <4>. QED  BY <3>1, <3>2, <4>1, <1>7 DEF Queueing
    <3>3. CASE j \notin DOMAIN backlog
      <4>1. backlog'[j] = r
        BY <3>3, AppendElements DEF TypeOK
      <4>2. backlog[i] \in Ordered
        BY <3>1 DEF Queueing, InBacklog
      <4>. QED  BY <3>1, <4>1, <4>2, <1>8
    <3>. QED  BY <3>2, <3>3
  <2>2. Settled' = Settled /\ Settled \subseteq Request
    BY <1>2, ElementsTyped DEF Settled
  <2>. QED  BY <1>2, <1>3, <1>7, <1>8, <2>1, <2>2, ElementsTyped DEF Queueing, Settled
<1>10. InOrder'
  BY <1>7 DEF TypeOK, InOrder
<1>. QED BY <1>1, <1>5, <1>6, <1>9, <1>10

LEMMA ConnectFailsStep ==
    ASSUME IInv, NEW r \in Request, ConnectFails(r)
    PROVE  IInv'
<1> USE DEF IInv, ConnectFails
<1>0. UNCHANGED <<InBacklog, Applied, Ordered, Before, Served>>
  BY SameBacklog, SameApplied, SameOrder, SameServed
<1>1. TypeOK'
  BY DEF TypeOK, Step, Answer
<1>2. ServingWhileBusy' /\ OneStage'
  BY <1>0 DEF TypeOK, ServingWhileBusy, OneStage, NotYetConnected, NotYetQueried
<1>3. Truthful'
  BY <1>0 DEF TypeOK, Truthful
<1>4. Queueing'
  BY <1>0, ElementsTyped DEF TypeOK, Queueing, Settled
<1>5. InOrder'
  BY SameInOrder
<1>. QED BY <1>1, <1>2, <1>3, <1>4, <1>5

LEMMA SendStep ==
    ASSUME IInv, NEW r \in Request, Send(r)
    PROVE  IInv'
<1> USE DEF IInv, Send
<1>0. UNCHANGED <<InBacklog, Applied, Ordered, Before, Served>>
  BY SameBacklog, SameApplied, SameOrder, SameServed
<1>1. TypeOK'
  BY DEF TypeOK, Step, Answer
<1>2. ServingWhileBusy' /\ OneStage'
  BY <1>0 DEF TypeOK, ServingWhileBusy, OneStage, NotYetConnected, NotYetQueried
<1>3. Truthful'
  BY <1>0 DEF TypeOK, Truthful
<1>4. Queueing'
  BY <1>0, ElementsTyped DEF TypeOK, Queueing, Settled
<1>5. InOrder'
  BY SameInOrder
<1>. QED BY <1>1, <1>2, <1>3, <1>4, <1>5

LEMMA SendFailsStep ==
    ASSUME IInv, NEW r \in Request, SendFails(r)
    PROVE  IInv'
<1> USE DEF IInv, SendFails
<1>0. UNCHANGED <<InBacklog, Applied, Ordered, Before, Served>>
  BY SameBacklog, SameApplied, SameOrder, SameServed
<1>1. TypeOK'
  BY DEF TypeOK, Step, Answer
<1>2. ServingWhileBusy' /\ OneStage'
  BY <1>0 DEF TypeOK, ServingWhileBusy, OneStage, NotYetConnected, NotYetQueried
<1>3. Truthful'
  BY <1>0 DEF TypeOK, Truthful
<1>4. Queueing'
  BY <1>0, ElementsTyped DEF TypeOK, Queueing, Settled
<1>5. InOrder'
  BY SameInOrder
<1>. QED BY <1>1, <1>2, <1>3, <1>4, <1>5

LEMMA RecvStep ==
    ASSUME IInv, NEW r \in Request, Recv(r)
    PROVE  IInv'
<1> USE DEF IInv, Recv
<1>0. UNCHANGED <<InBacklog, Applied, Ordered, Before, Served>>
  BY SameBacklog, SameApplied, SameOrder, SameServed
<1>1. TypeOK'
  BY DEF TypeOK, Step, Answer
<1>2. ServingWhileBusy' /\ OneStage'
  BY <1>0 DEF TypeOK, ServingWhileBusy, OneStage, NotYetConnected, NotYetQueried
<1>3. Truthful'
  BY <1>0 DEF TypeOK, Truthful
<1>4. Queueing'
  BY <1>0, ElementsTyped DEF TypeOK, Queueing, Settled
<1>5. InOrder'
  BY SameInOrder
<1>. QED BY <1>1, <1>2, <1>3, <1>4, <1>5

LEMMA RecvFailsStep ==
    ASSUME IInv, NEW r \in Request, RecvFails(r)
    PROVE  IInv'
<1> USE DEF IInv, RecvFails
<1>0. UNCHANGED <<InBacklog, Applied, Ordered, Before, Served>>
  BY SameBacklog, SameApplied, SameOrder, SameServed
<1>1. TypeOK'
  BY DEF TypeOK, Step, Answer
<1>2. ServingWhileBusy' /\ OneStage'
  BY <1>0 DEF TypeOK, ServingWhileBusy, OneStage, NotYetConnected, NotYetQueried
<1>3. Truthful'
  BY <1>0 DEF TypeOK, Truthful
<1>4. Queueing'
  BY <1>0, ElementsTyped DEF TypeOK, Queueing, Settled
<1>5. InOrder'
  BY SameInOrder
<1>. QED BY <1>1, <1>2, <1>3, <1>4, <1>5

LEMMA DispDiesStep ==
    ASSUME IInv, DispDies
    PROVE  IInv'
<1> USE DEF IInv, DispDies
<1>0. UNCHANGED <<InBacklog, Applied, Ordered, Before, Served>>
  BY SameBacklog, SameApplied, SameOrder, SameServed
<1>1. TypeOK'
  BY DEF TypeOK, Step, Answer
<1>2. ServingWhileBusy' /\ OneStage'
  BY <1>0 DEF TypeOK, ServingWhileBusy, OneStage, NotYetConnected, NotYetQueried, Forwarding
<1>3. Truthful'
  BY <1>0 DEF TypeOK, Truthful, Forwarding
<1>4. Queueing'
  BY <1>0, ElementsTyped DEF TypeOK, Queueing, Settled
<1>5. InOrder'
  BY SameInOrder
<1>. QED BY <1>1, <1>2, <1>3, <1>4, <1>5

-----------------------------------------------------------------------------
(* AP.                                                                     *)

LEMMA ApRecvStep ==
    ASSUME IInv, ApRecv
    PROVE  IInv'
<1> USE DEF IInv, ApRecv
<1>0. UNCHANGED <<InBacklog, Applied, Ordered, Before, Served>>
  BY SameBacklog, SameApplied, SameOrder, SameServed
<1>1. TypeOK'
  BY DEF TypeOK, Label, Answer
<1>2. ServingWhileBusy' /\ OneStage'
  BY <1>0 DEF TypeOK, ServingWhileBusy, OneStage, NotYetConnected, NotYetQueried
<1>3. Truthful'
  BY <1>0 DEF TypeOK, Truthful
<1>4. Queueing'
  BY <1>0, ElementsTyped DEF TypeOK, Queueing, Settled
<1>5. InOrder'
  BY SameInOrder
<1>. QED BY <1>1, <1>2, <1>3, <1>4, <1>5

LEMMA ApRejectsStep ==
    ASSUME IInv, ApRejects
    PROVE  IInv'
<1> USE DEF IInv, ApRejects
<1>0. UNCHANGED <<InBacklog, Applied, Ordered, Before, Served>>
  BY SameBacklog, SameApplied, SameOrder, SameServed
<1>1. TypeOK'
  BY DEF TypeOK, Label, Answer
<1>2. ServingWhileBusy' /\ OneStage'
  BY <1>0 DEF TypeOK, ServingWhileBusy, OneStage, NotYetConnected, NotYetQueried
<1>3. Truthful'
  BY <1>0 DEF TypeOK, Truthful
<1>4. Queueing'
  BY <1>0, ElementsTyped DEF TypeOK, Queueing, Settled
<1>5. InOrder'
  BY SameInOrder
<1>. QED BY <1>1, <1>2, <1>3, <1>4, <1>5

LEMMA StopServiceStep ==
    ASSUME IInv, StopService
    PROVE  IInv'
<1> USE DEF IInv, StopService
<1>0. UNCHANGED <<InBacklog, Applied, Ordered, Before, Served>>
  BY SameBacklog, SameApplied, SameOrder, SameServed
<1>1. TypeOK'
  BY DEF TypeOK, Label, Answer
<1>2. ServingWhileBusy' /\ OneStage'
  BY <1>0 DEF TypeOK, ServingWhileBusy, OneStage, NotYetConnected, NotYetQueried
<1>3. Truthful'
  BY <1>0 DEF TypeOK, Truthful
<1>4. Queueing'
  BY <1>0, ElementsTyped DEF TypeOK, Queueing, Settled
<1>5. InOrder'
  BY SameInOrder
<1>. QED BY <1>1, <1>2, <1>3, <1>4, <1>5

LEMMA DisconnectStep ==
    ASSUME IInv, Disconnect
    PROVE  IInv'
<1> USE DEF IInv, Disconnect
<1>0. UNCHANGED <<InBacklog, Applied, Ordered, Before, Served>>
  BY SameBacklog, SameApplied, SameOrder, SameServed
<1>1. TypeOK'
  BY DEF TypeOK, Label, Answer
<1>2. ServingWhileBusy' /\ OneStage'
  BY <1>0 DEF TypeOK, ServingWhileBusy, OneStage, NotYetConnected, NotYetQueried
<1>3. Truthful'
  BY <1>0 DEF TypeOK, Truthful
<1>4. Queueing'
  BY <1>0, ElementsTyped DEF TypeOK, Queueing, Settled
<1>5. InOrder'
  BY SameInOrder
<1>. QED BY <1>1, <1>2, <1>3, <1>4, <1>5

LEMMA ApStartStep ==
    ASSUME IInv, ApStart
    PROVE  IInv'
<1> USE DEF IInv, ApStart
<1>0. UNCHANGED <<InBacklog, Applied, Ordered, Before, Served>>
  BY SameBacklog, SameApplied, SameOrder, SameServed
<1>1. TypeOK'
  BY DEF TypeOK, Label, Answer
<1>2. ServingWhileBusy' /\ OneStage'
  BY <1>0 DEF TypeOK, ServingWhileBusy, OneStage, NotYetConnected, NotYetQueried
<1>3. Truthful'
  BY <1>0 DEF TypeOK, Truthful
<1>4. Queueing'
  BY <1>0, ElementsTyped DEF TypeOK, Queueing, Settled
<1>5. InOrder'
  BY SameInOrder
<1>. QED BY <1>1, <1>2, <1>3, <1>4, <1>5

LEMMA ApQueryDoneStep ==
    ASSUME IInv, ApQueryDone
    PROVE  IInv'
<1> USE DEF IInv, ApQueryDone
<1>0. UNCHANGED <<InBacklog, Applied, Ordered, Before, Served>>
  BY SameBacklog, SameApplied, SameOrder, SameServed
<1>1. TypeOK'
  BY DEF TypeOK, Label, Answer
<1>2. ServingWhileBusy' /\ OneStage'
  BY <1>0 DEF TypeOK, ServingWhileBusy, OneStage, NotYetConnected, NotYetQueried, QuerySucceeded
<1>3. Truthful'
  BY <1>0 DEF TypeOK, Truthful, QuerySucceeded
<1>4. Queueing'
  BY <1>0, ElementsTyped DEF TypeOK, Queueing, Settled, OneStage, QuerySucceeded
<1>5. InOrder'
  BY SameInOrder
<1>. QED BY <1>1, <1>2, <1>3, <1>4, <1>5

LEMMA ApQueryFailsStep ==
    ASSUME IInv, ApQueryFails
    PROVE  IInv'
<1> USE DEF IInv, ApQueryFails
<1>0. UNCHANGED <<InBacklog, Applied, Ordered, Before, Served>>
  BY SameBacklog, SameApplied, SameOrder, SameServed
<1>1. TypeOK'
  BY DEF TypeOK, Label, Answer
<1>2. ServingWhileBusy' /\ OneStage'
  BY <1>0 DEF TypeOK, ServingWhileBusy, OneStage, NotYetConnected, NotYetQueried, QuerySucceeded
<1>3. Truthful'
  BY <1>0 DEF TypeOK, Truthful, QuerySucceeded
<1>4. Queueing'
  BY <1>0, ElementsTyped DEF TypeOK, Queueing, Settled
<1>5. InOrder'
  BY SameInOrder
<1>. QED BY <1>1, <1>2, <1>3, <1>4, <1>5

LEMMA ApAcceptStep ==
    ASSUME IInv, ApAccept
    PROVE  IInv'
<1> USE DEF IInv, ApAccept, Accepted
<1>1. TypeOK'
  BY TailElements DEF TypeOK, Label
<1>2. UNCHANGED <<Applied, Ordered, Before>>
  BY SameApplied, SameOrder
<1>3. serving = NoRequest /\ Served = {} /\ response # "ok"
  <2>1. serving = NoRequest
    BY DEF ServingWhileBusy
  <2>2. NoRequest \notin Applied
    BY ElementsTyped
  <2>. QED  BY <2>1, <2>2 DEF Served, Truthful
<1>4. serving' = backlog[1] /\ Served' = {serving'} /\ serving' \in InBacklog
  BY TailElements DEF TypeOK, Served, InBacklog
<1>5. InBacklog' = InBacklog \ {serving'}
  <2>1. \A i \in DOMAIN backlog' : backlog'[i] \in InBacklog /\ backlog'[i] # backlog[1]
    <3>. SUFFICES ASSUME NEW i \in DOMAIN backlog'
                  PROVE  backlog'[i] \in InBacklog /\ backlog'[i] # backlog[1]
      OBVIOUS
    <3>1. i + 1 \in DOMAIN backlog /\ i + 1 # 1 /\ backlog'[i] = backlog[i + 1] /\ 1 \in DOMAIN backlog
      BY TailElements DEF TypeOK
    <3>. QED  BY <3>1 DEF InBacklog, OneStage
  <2>2. \A i \in DOMAIN backlog : i # 1 => backlog[i] \in InBacklog'
    <3>. SUFFICES ASSUME NEW i \in DOMAIN backlog, i # 1
                  PROVE  backlog[i] \in InBacklog'
      OBVIOUS
    <3>1. i - 1 \in DOMAIN backlog' /\ backlog[i] = backlog'[i - 1]
      BY TailElements DEF TypeOK
    <3>. QED  BY <3>1 DEF InBacklog
  <2>. QED  BY <1>4, <2>1, <2>2 DEF InBacklog
<1>6. ServingWhileBusy' /\ Truthful'
  BY <1>2, <1>3, <1>4, ElementsTyped DEF ServingWhileBusy, Truthful
<1>7. OneStage'
  <2>1. \A i, j \in DOMAIN backlog' : backlog'[i] = backlog'[j] => i = j
    BY TailElements DEF TypeOK, OneStage
  <2>. QED  BY <1>2, <1>4, <1>5, <2>1 DEF OneStage, NotYetConnected, NotYetQueried
<1>8. Queueing'
  <2>1. \A i, j \in DOMAIN backlog' : i < j => <<backlog'[i], backlog'[j]>> \in Before'
    <3>. SUFFICES ASSUME NEW i \in DOMAIN backlog', NEW j \in DOMAIN backlog', i < j
                  PROVE  <<backlog'[i], backlog'[j]>> \in Before
      BY <1>2
    <3>1. /\ i + 1 \in DOMAIN backlog /\ backlog'[i] = backlog[i + 1]
          /\ j + 1 \in DOMAIN backlog /\ backlog'[j] = backlog[j + 1]
          /\ i + 1 < j + 1
      BY TailElements DEF TypeOK
    <3>. QED  BY <3>1 DEF Queueing
  <2>2. \A q \in InBacklog' : <<serving', q>> \in Before'
    <3>. SUFFICES ASSUME NEW i \in DOMAIN backlog'
                  PROVE  <<backlog[1], backlog'[i]>> \in Before'
      BY <1>4 DEF InBacklog
    <3>1. i + 1 \in DOMAIN backlog /\ i + 1 > 1 /\ backlog'[i] = backlog[i + 1] /\ 1 \in DOMAIN backlog
      BY TailElements DEF TypeOK
    <3>. QED  BY <3>1, <1>2 DEF TypeOK, Queueing
  <2>3. Settled' \subseteq Settled /\ Settled \subseteq Request
    BY <1>2, <1>3, ElementsTyped DEF Settled
  <2>4. Settled' \X InBacklog \subseteq Before'
    BY <1>2, <2>3, ElementsTyped DEF Queueing
  <2>. QED  BY <1>2, <1>3, <1>4, <1>5, <2>1, <2>2, <2>3, <2>4 DEF Queueing
<1>9. InOrder'
  BY SameInOrder
<1>. QED BY <1>1, <1>6, <1>7, <1>8, <1>9

LEMMA ApQueriesStep ==
    ASSUME IInv, ApQueries
    PROVE  IInv'
<1> USE DEF IInv, ApQueries
<1>0. UNCHANGED <<InBacklog, Applied, Ordered, Before, Served>>
  BY SameBacklog, SameApplied, SameOrder, SameServed
<1>1. serving \in Request /\ serving \notin Applied /\ serving \notin executing
  BY DEF TypeOK, ServingWhileBusy, OneStage, NotYetQueried
<1>2. TypeOK'
  BY <1>1 DEF TypeOK, Label
<1>3. ServingWhileBusy' /\ OneStage'
  BY <1>0, <1>1 DEF TypeOK, ServingWhileBusy, OneStage, NotYetConnected, NotYetQueried
<1>4. Truthful'
  BY <1>0 DEF TypeOK, Truthful
<1>5. Queueing'
  BY <1>0, <1>1, ElementsTyped DEF TypeOK, Queueing, Settled, Served
<1>6. InOrder'
  BY SameInOrder
<1>. QED BY <1>2, <1>3, <1>4, <1>5, <1>6

(* The request being served leaves AP, its statement done or orphaned; the *)
(* backlog stays or is emptied.                                            *)
LEMMA ServingLeaves ==
    ASSUME IInv, UNCHANGED <<forward, order, applied, executing>>,
           serving' = NoRequest, ap' \in {"accept", "ended", "down"},
           backlog' = backlog \/ backlog' = <<>>,
           orphaned \subseteq orphaned',
           executing \cap {serving} \subseteq orphaned'
    PROVE  ServingWhileBusy' /\ OneStage' /\ Queueing' /\ InOrder'
<1> USE DEF IInv
<1>1. UNCHANGED <<Applied, Ordered, Before>> /\ Served' = {}
  BY SameApplied, SameOrder DEF Served
<1>2. InBacklog' \subseteq InBacklog
  BY DEF InBacklog
<1>3. NoRequest \notin InBacklog \cup executing \cup Applied
  BY ElementsTyped
<1>4. ServingWhileBusy' /\ OneStage'
  BY <1>1, <1>2, <1>3 DEF ServingWhileBusy, OneStage, NotYetConnected, NotYetQueried
<1>5. Queueing'
  <2>1. \A i, j \in DOMAIN backlog' : i < j => <<backlog'[i], backlog'[j]>> \in Before'
    BY <1>1 DEF TypeOK, Queueing
  <2>2. Settled' \subseteq Settled \cup Served
    BY <1>1 DEF Settled, Served
  <2>3. Settled' \X InBacklog' \subseteq Before'
    BY <1>1, <1>2, <2>2, ElementsTyped DEF Queueing, Settled
  <2>4. executing \subseteq orphaned'
    BY DEF Queueing, Served
  <2>. QED  BY <1>1, <1>2, <2>1, <2>3, <2>4 DEF Queueing
<1>6. InOrder'
  BY SameInOrder
<1>. QED BY <1>4, <1>5, <1>6

LEMMA ApRecvEndsStep ==
    ASSUME IInv, ApRecvEnds
    PROVE  IInv'
<1> USE DEF IInv, ApRecvEnds, EndRound
<1>1. serving \notin executing /\ UNCHANGED Applied
  BY SameApplied DEF TypeOK, ServingWhileBusy, OneStage, NotYetQueried
<1>2. TypeOK'
  BY DEF TypeOK, Label, Answer, ServingWhileBusy, InBacklog
<1>3. ServingWhileBusy' /\ OneStage' /\ Queueing' /\ InOrder'
  BY <1>1, ServingLeaves
<1>4. Truthful'
  BY <1>1 DEF Truthful
<1>. QED BY <1>2, <1>3, <1>4

LEMMA ApRepliesStep ==
    ASSUME IInv, ApReplies
    PROVE  IInv'
<1> USE DEF IInv, ApReplies, EndRound
<1>1. UNCHANGED Applied
  BY SameApplied
<1>2. TypeOK'
  BY DEF TypeOK, Label, Answer, ServingWhileBusy, InBacklog
<1>3. executing \cap {serving} \subseteq orphaned
  BY DEF Queueing
<1>4. ServingWhileBusy' /\ OneStage' /\ Queueing' /\ InOrder'
  BY <1>3, ServingLeaves
<1>5. Truthful'
  BY <1>1 DEF TypeOK, Truthful
<1>. QED BY <1>2, <1>4, <1>5

LEMMA ApEndsStep ==
    ASSUME IInv, ApEnds
    PROVE  IInv'
<1> USE DEF IInv, ApEnds
<1>1. UNCHANGED Applied
  BY SameApplied
<1>2. TypeOK'
  <2>1. backlog' \in Seq(Request) /\ Len(backlog') <= Backlog
    OBVIOUS
  <2>2. hungup' \subseteq Request /\ orphaned' \subseteq Request
    BY ElementsTyped DEF TypeOK
  <2>. QED  BY <2>1, <2>2 DEF TypeOK, Label, Answer
<1>3. ServingWhileBusy' /\ OneStage' /\ Queueing' /\ InOrder'
  BY ServingLeaves
<1>4. Truthful'
  BY <1>1 DEF Truthful
<1>. QED BY <1>2, <1>3, <1>4

-----------------------------------------------------------------------------
(* MySQL.                                                                  *)

LEMMA DbApplyStep ==
    ASSUME IInv, NEW r \in Request, DbApply(r)
    PROVE  IInv'
<1> USE DEF IInv, DbApply
<1>0. UNCHANGED <<InBacklog, Ordered, Before, Served>>
  BY SameBacklog, SameOrder, SameServed
<1>1. Applied' = Applied \cup {r}
  BY AppendElements DEF TypeOK, Applied
<1>2. TypeOK'
  BY AppendElements DEF TypeOK
<1>3. ServingWhileBusy' /\ OneStage' /\ Truthful'
  BY <1>0, <1>1 DEF TypeOK, ServingWhileBusy, OneStage, Truthful, NotYetConnected, NotYetQueried
<1>4. Queueing'
  BY <1>0, <1>1, ElementsTyped DEF TypeOK, Queueing, Settled, Served
<1>5. InOrder'
  <2>. SUFFICES ASSUME NEW i \in DOMAIN applied', NEW j \in DOMAIN applied', i < j,
                       {applied'[i], applied'[j]} \cap orphaned = {}
                PROVE  <<applied'[i], applied'[j]>> \in Before
    BY <1>0, <1>2 DEF TypeOK, InOrder
  <2>1. i \in DOMAIN applied /\ applied'[i] = applied[i] /\ applied[i] \in Applied
    BY AppendElements DEF TypeOK, Applied
  <2>2. CASE j \in DOMAIN applied
    <3>1. applied'[j] = applied[j]
      BY <2>2, AppendElements DEF TypeOK
    <3>. QED  BY <2>1, <2>2, <3>1 DEF InOrder
  <2>3. CASE j \notin DOMAIN applied
    <3>1. applied'[j] = r
      BY <2>3, AppendElements DEF TypeOK
    <3>2. r \in Served
      BY <3>1 DEF Queueing, Served
    <3>3. applied[i] # r
      BY <2>1 DEF OneStage
    <3>4. applied[i] \in Settled
      BY <2>1, <3>2, <3>3 DEF Settled, Served
    <3>. QED  BY <2>1, <3>1, <3>2, <3>4 DEF Queueing
  <2>. QED  BY <2>2, <2>3
<1>. QED BY <1>2, <1>3, <1>4, <1>5

LEMMA DbRefuseStep ==
    ASSUME IInv, NEW r \in Request, DbRefuse(r)
    PROVE  IInv'
<1> USE DEF IInv, DbRefuse
<1>0. UNCHANGED <<InBacklog, Applied, Ordered, Before, Served>>
  BY SameBacklog, SameApplied, SameOrder, SameServed
<1>1. TypeOK'
  BY DEF TypeOK
<1>2. ServingWhileBusy' /\ OneStage' /\ Truthful'
  BY <1>0 DEF TypeOK, ServingWhileBusy, OneStage, Truthful, NotYetConnected, NotYetQueried
<1>3. Queueing'
  BY <1>0, ElementsTyped DEF TypeOK, Queueing, Settled
<1>4. InOrder'
  BY SameInOrder
<1>. QED BY <1>1, <1>2, <1>3, <1>4

-----------------------------------------------------------------------------
(* The invariant.                                                          *)

LEMMA InitIInv == Init => IInv
BY DEF Init, IInv, TypeOK, Step, Answer, Label, ServingWhileBusy, OneStage, Truthful,
       Queueing, InOrder, InBacklog, Applied, Ordered, Served, Settled,
       NotYetConnected, NotYetQueried

LEMMA StutterStep ==
    ASSUME IInv, UNCHANGED vars
    PROVE  IInv'
<1> USE DEF IInv, vars
<1>0. UNCHANGED <<InBacklog, Applied, Ordered, Before, Served>>
  BY SameBacklog, SameApplied, SameOrder, SameServed
<1>1. TypeOK' /\ InOrder'
  BY SameInOrder DEF TypeOK
<1>2. ServingWhileBusy' /\ OneStage' /\ Truthful'
  BY <1>0 DEF ServingWhileBusy, OneStage, Truthful, NotYetConnected, NotYetQueried
<1>3. Queueing'
  BY <1>0 DEF Queueing, Settled
<1>. QED  BY <1>1, <1>2, <1>3

LEMMA NextIInv == IInv /\ [Next]_vars => IInv'
<1>. SUFFICES ASSUME IInv, [Next]_vars
              PROVE  IInv'
  OBVIOUS
<1>1. ASSUME NEW r \in Request, Begin(r) \/ Disp(r)
      PROVE  IInv'
  BY <1>1, BeginStep, ConnectStep, ConnectFailsStep, SendStep, SendFailsStep,
     RecvStep, RecvFailsStep DEF Disp
<1>2. CASE DispDies
  BY <1>2, DispDiesStep
<1>3. CASE ServiceLoop
  BY <1>3, ApAcceptStep, ApRecvStep, ApRecvEndsStep, ApRejectsStep, ApQueriesStep,
     ApQueryDoneStep, ApQueryFailsStep, ApRepliesStep DEF ServiceLoop
<1>4. CASE ApProcess
  BY <1>4, StopServiceStep, DisconnectStep, ApEndsStep, ApStartStep
     DEF ApProcess, ApExits, ApAborts
<1>5. ASSUME NEW r \in Request, DbApply(r) \/ DbRefuse(r)
      PROVE  IInv'
  BY <1>5, DbApplyStep, DbRefuseStep
<1>6. CASE UNCHANGED vars
  BY <1>6, StutterStep
<1>. QED  BY <1>1, <1>2, <1>3, <1>4, <1>5, <1>6 DEF Next

(* The inductive invariant holds in every state of every instance.         *)
THEOREM PathInvariant == Spec => []IInv
BY InitIInv, NextIInv, PTL DEF Spec

(* The variables keep their types, and the backlog its bound.              *)
THEOREM PathTypeCorrect == Spec => []TypeOK
<1>1. IInv => TypeOK
  BY DEF IInv
<1>. QED  BY <1>1, PathInvariant, PTL

(* AP makes the changes in the order in which DISP connected, also those   *)
(* DISP no longer waits for (processor.cpp:716, one connection at a time). *)
THEOREM OrderKept == Spec => []InOrder
<1>1. IInv => InOrder
  BY DEF IInv
<1>. QED  BY <1>1, PathInvariant, PTL

-----------------------------------------------------------------------------
(* The refinement: every step is a step of OrderStore or changes nothing   *)
(* that OrderStore sees.                                                   *)

LEMMA InitStore == Init => Store!Init
BY DEF Init, Store!Init, Told

(* A forward that goes on from one call to the next tells nobody anything. *)
LEMMA ToldWaits ==
    ASSUME NEW r \in Forwarding, NEW step \in {"connect", "send", "recv"},
           forward \in [Request -> Step],
           forward' = [forward EXCEPT ![r] = step]
    PROVE  UNCHANGED Told
BY DEF Told, Forwarding, Step

LEMMA ToldFails ==
    ASSUME NEW S \in SUBSET Forwarding,
           forward \in [Request -> Step],
           forward' = [r \in Request |-> IF r \in S THEN "failed" ELSE forward[r]],
           UNCHANGED applied
    PROVE  Store!Fail(S) /\ S \in SUBSET Request
BY DEF Store!Fail, Told, Forwarding, Step

LEMMA DispMapped ==
    ASSUME IInv, NEW r \in Request, Begin(r) \/ Disp(r)
    PROVE  [Store!Next]_(Store!vars)
<1> USE DEF Store!vars
<1>0. forward \in [Request -> Step] /\ answer \in [Request -> Answer]
  BY DEF IInv, TypeOK
<1>1. CASE Begin(r)
  <2>1. Store!Ask(r)
    BY <1>0, <1>1 DEF Begin, Store!Ask, Told, Forwarding, Step
  <2>. QED  BY <2>1 DEF Store!Next
<1>2. CASE Connect(r) \/ Send(r)
  <2>1. UNCHANGED Told
    BY <1>0, <1>2, ToldWaits DEF Connect, Send, Forwarding
  <2>. QED  BY <1>2, <2>1 DEF Connect, Send
<1>3. ASSUME r \in Forwarding, UNCHANGED applied,
             forward' = [forward EXCEPT ![r] = "failed"]
      PROVE  Store!Next
  <2>1. forward' = [q \in Request |-> IF q \in {r} THEN "failed" ELSE forward[q]]
    BY <1>0, <1>3
  <2>2. Store!Fail({r})
    BY <1>0, <1>3, <2>1, ToldFails
  <2>. QED  BY <2>2 DEF Store!Next
<1>4. CASE ConnectFails(r) \/ SendFails(r) \/ RecvFails(r)
  BY <1>3, <1>4 DEF ConnectFails, SendFails, RecvFails, Forwarding
<1>5. CASE Recv(r) /\ answer[r] # "ok"
  BY <1>3, <1>5 DEF Recv, Forwarding
<1>6. CASE Recv(r) /\ answer[r] = "ok"
  <2>1. r \in Applied
    BY <1>6 DEF IInv, Truthful
  <2>2. Store!Succeed(r)
    BY <1>0, <1>6, <2>1 DEF Recv, Store!Succeed, Store!Applied, Applied, Told, Forwarding, Step
  <2>. QED  BY <2>2 DEF Store!Next
<1>. QED  BY <1>1, <1>2, <1>4, <1>5, <1>6 DEF Disp

LEMMA DispDiesMapped ==
    ASSUME IInv, DispDies
    PROVE  Store!Next
<1>1. Store!Fail(Forwarding) /\ Forwarding \in SUBSET Request
  BY ToldFails DEF IInv, TypeOK, DispDies
<1>. QED  BY <1>1 DEF Store!Next

LEMMA DbApplyMapped ==
    ASSUME IInv, NEW r \in Request, DbApply(r)
    PROVE  Store!Next
<1>1. forward[r] # "new" /\ r \notin Applied
  BY DEF IInv, OneStage, NotYetConnected, DbApply
<1>2. Store!Apply(r)
  BY <1>1 DEF DbApply, Store!Apply, Store!Applied, Applied, Told, Forwarding, IInv, TypeOK, Step
<1>. QED  BY <1>2 DEF Store!Next

LEMMA NextMapped == IInv /\ [Next]_vars => [Store!Next]_(Store!vars)
<1>. SUFFICES ASSUME IInv, [Next]_vars
              PROVE  [Store!Next]_(Store!vars)
  OBVIOUS
<1> USE DEF Store!vars
<1>1. ASSUME NEW r \in Request, Begin(r) \/ Disp(r)
      PROVE  [Store!Next]_(Store!vars)
  BY <1>1, DispMapped
<1>2. CASE DispDies
  BY <1>2, DispDiesMapped
<1>3. ASSUME NEW r \in Request, DbApply(r)
      PROVE  [Store!Next]_(Store!vars)
  BY <1>3, DbApplyMapped
<1>4. ASSUME UNCHANGED <<forward, applied>>
      PROVE  [Store!Next]_(Store!vars)
  BY <1>4 DEF Told, Forwarding
<1>5. CASE ServiceLoop
  BY <1>4, <1>5 DEF ServiceLoop, ApAccept, ApRecv, ApRecvEnds, ApRejects, ApQueries,
                    ApQueryDone, ApQueryFails, ApReplies
<1>6. CASE ApProcess
  BY <1>4, <1>6 DEF ApProcess, StopService, Disconnect, ApExits, ApAborts, ApEnds, ApStart
<1>7. ASSUME NEW r \in Request, DbRefuse(r)
      PROVE  [Store!Next]_(Store!vars)
  BY <1>4, <1>7 DEF DbRefuse
<1>8. CASE UNCHANGED vars
  BY <1>4, <1>8 DEF vars
<1>. QED  BY <1>1, <1>2, <1>3, <1>5, <1>6, <1>7, <1>8 DEF Next

(* forwardToAp, serviceLoop and executeQuery implement OrderStore: "ok" is *)
(* told only of a change that was made, and no change is made twice,       *)
(* whatever times out, dies, is restarted or loses its connection.         *)
THEOREM Implements == Spec => KeepsStore
<1>. QED  BY PathInvariant, InitStore, NextMapped, PTL DEF Spec, KeepsStore, Store!Spec

===============================================================================
