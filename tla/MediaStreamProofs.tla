-------------------------- MODULE MediaStreamProofs --------------------------
(***************************************************************************)
(* The safety properties of MediaStream: the end marker survives overflow, *)
(* the order of chunks is kept and nothing else is lost, for any number of *)
(* subscribers and chunks and every size of queue from two on.             *)
(***************************************************************************)
EXTENDS MediaStream, SequenceTheorems, TLAPS

Calls == [to : Subscribers, item : Nat]

Ends(s) == {i \in 1..Len(queue[s]) : queue[s][i] = End}
EndsTo(s) == {i \in CallsTo(s) : callbacks[i].item = End}

\* whom the end is on its way to, or has reached, is in no list any more; and a
\* subscription yet to be made has nothing
Lists ==
  /\ closed => subscribers = {}
  /\ ~closed => closing = {}
  /\ publishing # {} => published > 0
  /\ \A s \in subscribers \cup closing : Ends(s) = {} /\ EndsTo(s) = {}
  /\ \A s \in Subscribers : state[s] = "none" =>
       /\ queue[s] = <<>> /\ CallsTo(s) = {}
       /\ s \notin subscribers \cup publishing \cup closing

\* at most one chunk comes behind the end: that of a _publish that was under way
\* when close() took the list
Behind(s) ==
  /\ \A i \in Ends(s) :
       /\ EndsTo(s) = {}
       /\ \/ /\ i = Len(queue[s]) /\ \A j, k \in CallsTo(s) : j = k
             /\ CallsTo(s) # {} => s \notin publishing
          \/ i = Len(queue[s]) - 1 /\ CallsTo(s) = {} /\ s \notin publishing
  /\ \A i \in EndsTo(s) :
       /\ Ends(s) = {} /\ \A j \in EndsTo(s) : j = i
       /\ \A j, k \in CallsTo(s) : j > i /\ k > i => j = k
       /\ \A j \in CallsTo(s) : j > i => s \notin publishing

OneBehind == \A s \in Subscribers : Behind(s)

----------------------------------------------------------------------------
\* What a queue is after an offer.
LEMMA OfferedFacts ==
  ASSUME NEW q \in Seq(Nat), Len(q) <= QueueSize, NEW x \in Nat, NEW new, new = Offered(q, x)
  PROVE  /\ new \in Seq(Nat) /\ Len(new) \in Nat /\ Len(new) > 0 /\ Len(new) <= QueueSize
         /\ new[Len(new)] = x
         /\ \E d \in {0, 1} :
              /\ d = 1 => Len(q) = QueueSize
              /\ Len(new) = Len(q) + 1 - d
              /\ \A i \in 1..(Len(new) - 1) : new[i] = q[i + d]
<1>1. Len(q) \in Nat /\ QueueSize \in Nat /\ QueueSize >= 2
  BY QueueAssumption
<1>2. CASE Len(q) = QueueSize
  <2> DEFINE r == Tail(q)
  <2>1. /\ r \in Seq(Nat) /\ Len(r) = Len(q) - 1 /\ \A i \in 1..(Len(q) - 1) : r[i] = q[i + 1]
    <3>1. q # <<>>
      BY <1>1, <1>2
    <3> QED BY <3>1
  <2> HIDE DEF r
  <2>2. new = Append(r, x)
    BY <1>2 DEF Offered, r
  <2>3. /\ new \in Seq(Nat) /\ Len(new) = Len(r) + 1 /\ new[Len(r) + 1] = x
        /\ \A i \in 1..Len(r) : new[i] = r[i]
    BY <2>1, <2>2
  <2> QED BY <1>1, <1>2, <2>1, <2>3
<1>3. CASE Len(q) # QueueSize
  <2>1. new = Append(q, x)
    BY <1>3 DEF Offered
  <2>2. /\ new \in Seq(Nat) /\ Len(new) = Len(q) + 1 /\ new[Len(q) + 1] = x
        /\ \A i \in 1..Len(q) : new[i] = q[i]
    BY <2>1
  <2> QED BY <1>1, <1>3, <2>2
<1> QED BY <1>2, <1>3

\* One more call in the event loop, and one less.
LEMMA AppendCalls ==
  ASSUME callbacks \in Seq(Calls), NEW c \in Calls, callbacks' = Append(callbacks, c),
         NEW t \in Subscribers
  PROVE  /\ Len(callbacks) \in Nat /\ callbacks'[Len(callbacks) + 1] = c
         /\ \A i \in CallsTo(t) : i \in 1..Len(callbacks) /\ callbacks'[i] = callbacks[i]
         /\ CallsTo(t)' = (IF t = c.to THEN CallsTo(t) \cup {Len(callbacks) + 1} ELSE CallsTo(t))
         /\ EndsTo(t)' = (IF t = c.to /\ c.item = End
                          THEN EndsTo(t) \cup {Len(callbacks) + 1} ELSE EndsTo(t))
<1>1. PICK n \in Nat : n = Len(callbacks)
  OBVIOUS
<1>2. /\ callbacks' \in Seq(Calls) /\ Len(callbacks') = n + 1 /\ callbacks'[n + 1] = c
      /\ \A i \in 1..n : callbacks'[i] = callbacks[i]
  BY <1>1
<1>3. 1..(n + 1) = 1..n \cup {n + 1}
  BY <1>1
<1>4. CallsTo(t)' = {i \in 1..n \cup {n + 1} : callbacks'[i].to = t}
  BY <1>2, <1>3 DEF CallsTo
<1>5. CallsTo(t)' = (IF t = c.to THEN CallsTo(t) \cup {n + 1} ELSE CallsTo(t))
  BY <1>1, <1>2, <1>4 DEF CallsTo
<1>6. EndsTo(t)' = {i \in CallsTo(t)' : callbacks'[i].item = End}
  BY DEF EndsTo
<1>7. \A i \in CallsTo(t) : i \in 1..n
  BY <1>1 DEF CallsTo
<1>8. EndsTo(t)' = (IF t = c.to /\ c.item = End THEN EndsTo(t) \cup {n + 1} ELSE EndsTo(t))
  <2>1. CASE t = c.to
    BY <1>2, <1>5, <1>6, <1>7, <2>1 DEF EndsTo
  <2>2. CASE t # c.to
    BY <1>2, <1>5, <1>6, <1>7, <2>2 DEF EndsTo
  <2> QED BY <2>1, <2>2
<1> QED BY <1>1, <1>2, <1>5, <1>7, <1>8

LEMMA TailCalls ==
  ASSUME callbacks \in Seq(Calls), callbacks # <<>>, callbacks' = Tail(callbacks),
         NEW t \in Subscribers
  PROVE  /\ \A i \in CallsTo(t)' : /\ i \in Nat /\ i >= 1 /\ i + 1 \in CallsTo(t)
                                  /\ callbacks'[i] = callbacks[i + 1]
         /\ \A i \in CallsTo(t) : i = 1 \/ (i \in Nat /\ i - 1 \in CallsTo(t)')
         /\ \A i \in EndsTo(t)' : i \in CallsTo(t)' /\ i + 1 \in EndsTo(t)
<1>1. PICK n \in Nat : n + 1 = Len(callbacks)
  <2>1. Len(callbacks) \in Nat /\ Len(callbacks) # 0
    OBVIOUS
  <2>2. Len(callbacks) - 1 \in Nat /\ (Len(callbacks) - 1) + 1 = Len(callbacks)
    BY <2>1
  <2> QED BY <2>2
<1>2. Len(callbacks') = n /\ \A i \in 1..n : callbacks'[i] = callbacks[i + 1]
  BY <1>1
<1>3. \A i \in 1..n : i \in Nat /\ i >= 1 /\ i + 1 \in 1..Len(callbacks)
  BY <1>1
<1>4. \A i \in CallsTo(t)' : i \in 1..n /\ callbacks[i + 1].to = t
  BY <1>2 DEF CallsTo
<1>5. \A i \in CallsTo(t)' : i \in Nat /\ i >= 1 /\ i + 1 \in CallsTo(t)
  BY <1>3, <1>4 DEF CallsTo
<1>6. \A i \in EndsTo(t)' : i \in CallsTo(t)' /\ callbacks'[i].item = End
  BY DEF EndsTo
<1>7. \A i \in EndsTo(t)' : i + 1 \in EndsTo(t)
  BY <1>2, <1>4, <1>5, <1>6 DEF EndsTo
<1>8. \A i \in CallsTo(t) : i = 1 \/ (i \in Nat /\ i - 1 \in CallsTo(t)')
  <2> SUFFICES ASSUME NEW i \in CallsTo(t), i # 1 PROVE i \in Nat /\ i - 1 \in CallsTo(t)'
    OBVIOUS
  <2>1. i \in 1..Len(callbacks) /\ callbacks[i].to = t
    BY DEF CallsTo
  <2>2. i \in Nat /\ i - 1 \in 1..n /\ (i - 1) + 1 = i
    BY <1>1, <2>1
  <2>3. callbacks'[i - 1] = callbacks[i]
    BY <1>2, <2>2
  <2> QED BY <1>2, <2>1, <2>2, <2>3 DEF CallsTo
<1>9. \A i \in CallsTo(t)' : callbacks'[i] = callbacks[i + 1]
  BY <1>2, <1>4
<1> QED BY <1>5, <1>6, <1>7, <1>8, <1>9

----------------------------------------------------------------------------
LEMMA TypesStep ==
  ASSUME TypeOK, [Next]_vars
  PROVE  TypeOK'
<1> USE DEF TypeOK
<1>0. QueueSize \in Nat /\ QueueSize >= 2 /\ MaxChunks \in Nat
  BY QueueAssumption, ChunksAssumption
<1>1. ASSUME NEW s \in Subscribers, Subscribe(s) PROVE TypeOK'
  <2>1. QueueWhenClosed \in Seq(Nat) /\ Len(QueueWhenClosed) = 1
    BY DEF QueueWhenClosed, End
  <2>2. /\ UNCHANGED <<closed, published, publishing, closing, callbacks, got, dropped>>
        /\ subscribers' \subseteq Subscribers
        /\ state' = [state EXCEPT ![s] = "open"] /\ since' = [since EXCEPT ![s] = published]
        /\ queue' = queue \/ queue' = [queue EXCEPT ![s] = QueueWhenClosed]
    BY <1>1 DEF Subscribe
  <2>3. queue' \in [Subscribers -> Seq(Nat)] /\ \A t \in Subscribers : Len(queue'[t]) <= QueueSize
    <3>1. PICK w \in Seq(Nat) : w = QueueWhenClosed /\ Len(w) = 1
      BY <2>1
    <3>2. Len(w) <= QueueSize
      BY <1>0, <3>1
    <3>3. CASE queue' = queue
      BY <3>3
    <3>4. CASE queue' = [queue EXCEPT ![s] = w]
      BY <3>2, <3>4
    <3> QED BY <2>2, <3>1, <3>3, <3>4
  <2> QED BY <2>2, <2>3
<1>2. CASE Publish
  BY <1>2 DEF Publish
<1>3. ASSUME NEW s \in Subscribers, HandOver(s) PROVE TypeOK'
  <2>1. callbacks' \in Seq(Calls)
    <3>1. [to |-> s, item |-> published] \in Calls
      BY DEF Calls
    <3> QED BY <1>3, <3>1 DEF HandOver, Calls
  <2> QED BY <1>3, <2>1 DEF HandOver, Calls
<1>4. CASE Close
  BY <1>4 DEF Close
<1>5. ASSUME NEW s \in Subscribers, HandOverEnd(s) PROVE TypeOK'
  <2>1. callbacks' \in Seq(Calls)
    <3>1. [to |-> s, item |-> End] \in Calls
      BY DEF Calls, End
    <3> QED BY <1>5, <3>1 DEF HandOverEnd, Calls
  <2> QED BY <1>5, <2>1 DEF HandOverEnd, Calls
<1>6. CASE RunCallback
  <2> DEFINE s == Head(callbacks).to
             x == Head(callbacks).item
             new == Offered(queue[s], x)
  <2>1. callbacks # <<>> /\ Head(callbacks) \in Calls /\ Tail(callbacks) \in Seq(Calls)
    <3>1. callbacks # <<>>
      BY <1>6 DEF RunCallback
    <3>2. callbacks \in Seq(Calls)
      BY DEF Calls
    <3> QED BY <3>1, <3>2, HeadTailProperties
  <2>2. s \in Subscribers /\ x \in Nat
    BY <2>1 DEF Calls
  <2>3. /\ queue' = [queue EXCEPT ![s] = new]
        /\ dropped' = [dropped EXCEPT ![s] = @ \cup (ToSet(queue[s]) \ ToSet(new))]
        /\ callbacks' = Tail(callbacks)
        /\ UNCHANGED <<subscribers, closed, published, publishing, closing, since, got, state>>
    BY <1>6 DEF RunCallback
  <2> HIDE DEF s, x
  <2>4. new \in Seq(Nat) /\ Len(new) <= QueueSize
    BY <2>2, OfferedFacts
  <2> HIDE DEF new
  <2>5. ToSet(queue[s]) \subseteq Nat
    <3>1. \A i \in DOMAIN queue[s] : queue[s][i] \in Nat
      BY <2>2, ElementOfSeq, LenProperties
    <3> QED BY <3>1 DEF ToSet
  <2>6. dropped' \in [Subscribers -> SUBSET Nat]
    BY <2>2, <2>3, <2>5
  <2>7. queue' \in [Subscribers -> Seq(Nat)] /\ \A t \in Subscribers : Len(queue'[t]) <= QueueSize
    BY <2>2, <2>3, <2>4
  <2> QED BY <2>1, <2>3, <2>6, <2>7 DEF Calls
<1>7. ASSUME NEW s \in Subscribers, Iterate(s) PROVE TypeOK'
  <2>1. /\ queue[s] # <<>> /\ queue' = [queue EXCEPT ![s] = Tail(@)]
        /\ UNCHANGED <<subscribers, closed, published, publishing, closing, callbacks, since, dropped>>
    BY <1>7 DEF Iterate
  <2> DEFINE q == queue[s]
  <2>2. q \in Seq(Nat) /\ q # <<>> /\ Len(q) <= QueueSize
    BY <2>1
  <2> HIDE DEF q
  <2>3. Head(q) \in Nat /\ Tail(q) \in Seq(Nat) /\ Len(Tail(q)) <= QueueSize
    BY <1>0, <2>2
  <2>4. queue' \in [Subscribers -> Seq(Nat)] /\ \A t \in Subscribers : Len(queue'[t]) <= QueueSize
    BY <2>1, <2>3 DEF q
  <2>5. got' \in [Subscribers -> Seq(Nat)]
    <3>1. Append(got[s], Head(q)) \in Seq(Nat)
      BY <2>3
    <3>2. got' = got \/ got' = [got EXCEPT ![s] = Append(@, Head(q))]
      BY <1>7 DEF Iterate, q
    <3> QED BY <3>1, <3>2
  <2>6. state' \in [Subscribers -> {"none", "open", "ended", "closed"}]
    BY <1>7 DEF Iterate
  <2> QED BY <2>1, <2>4, <2>5, <2>6
<1>8. ASSUME NEW s \in Subscribers, Unsubscribe(s) PROVE TypeOK'
  BY <1>8 DEF Unsubscribe
<1>9. CASE UNCHANGED vars
  BY <1>9 DEF vars
<1> QED BY <1>1, <1>2, <1>3, <1>4, <1>5, <1>6, <1>7, <1>8, <1>9 DEF Next
----------------------------------------------------------------------------
\* A subscription whose queue and calls stay as they are.
LEMMA SameQueue ==
  ASSUME NEW t \in Subscribers, queue'[t] = queue[t]
  PROVE  Ends(t)' = Ends(t)
  BY DEF Ends

LEMMA SameCalls ==
  ASSUME NEW t \in Subscribers, callbacks' = callbacks
  PROVE  CallsTo(t)' = CallsTo(t) /\ EndsTo(t)' = EndsTo(t)
<1>1. CallsTo(t)' = CallsTo(t)
  BY DEF CallsTo
<1> QED BY <1>1 DEF EndsTo

LEMMA SameBehind ==
  ASSUME NEW t \in Subscribers, queue'[t] = queue[t], Behind(t),
         CallsTo(t)' = CallsTo(t), EndsTo(t)' = EndsTo(t),
         t \in publishing' => t \in publishing
  PROVE  Behind(t)'
  BY SameQueue DEF Behind

\* One step of __anext__.
LEMMA TailEnds ==
  ASSUME NEW t \in Subscribers, queue[t] \in Seq(Nat), queue[t] # <<>>,
         queue'[t] = Tail(queue[t])
  PROVE  /\ Len(queue[t]) \in Nat /\ Len(queue'[t]) = Len(queue[t]) - 1
         /\ \A i \in Ends(t)' : i \in Nat /\ i + 1 \in Ends(t)
<1>1. PICK q \in Seq(Nat) : q = queue[t] /\ q # <<>>
  OBVIOUS
<1>2. PICK r : r = queue'[t]
  OBVIOUS
<1>3. r = Tail(q)
  BY <1>1, <1>2
<1>4. Len(q) \in Nat /\ Len(r) = Len(q) - 1 /\ \A i \in 1..(Len(q) - 1) : r[i] = q[i + 1]
  BY <1>1, <1>3
<1>5. \A i \in 1..(Len(q) - 1) : i \in Nat /\ i + 1 \in 1..Len(q)
  BY <1>4
<1> QED BY <1>1, <1>2, <1>4, <1>5 DEF Ends

----------------------------------------------------------------------------
\* What running a callback does to the subscription it is for: the item comes
\* last, and whatever was in the queue keeps its place from the end.
LEMMA RunFacts ==
  ASSUME TypeOK, RunCallback
  PROVE  \E s \in Subscribers, x \in Nat, d \in {0, 1} :
           /\ 1 \in CallsTo(s) /\ x = callbacks[1].item /\ (x = End <=> 1 \in EndsTo(s))
           /\ \A t \in Subscribers \ {s} : queue'[t] = queue[t] /\ dropped'[t] = dropped[t]
           /\ Len(queue[s]) \in Nat /\ (d = 1 => Len(queue[s]) = QueueSize)
           /\ Len(queue'[s]) = Len(queue[s]) + 1 - d
           /\ queue'[s][Len(queue'[s])] = x
           /\ \A i \in 1..(Len(queue'[s]) - 1) : queue'[s][i] = queue[s][i + d]
           /\ dropped'[s] = dropped[s] \cup (ToSet(queue[s]) \ ToSet(queue'[s]))
<1>1. callbacks # <<>> /\ callbacks \in Seq(Calls)
  BY DEF RunCallback, TypeOK, Calls
<1>2. PICK c \in Calls : c = Head(callbacks)
  BY <1>1, HeadTailProperties
<1>3. PICK s \in Subscribers, x \in Nat : s = c.to /\ x = c.item
  BY DEF Calls
<1>4. callbacks[1] = c /\ 1 \in 1..Len(callbacks)
  BY <1>1, <1>2
<1>5. 1 \in CallsTo(s) /\ x = callbacks[1].item /\ (x = End <=> 1 \in EndsTo(s))
  BY <1>3, <1>4 DEF CallsTo, EndsTo
<1>6. PICK q \in Seq(Nat) : q = queue[s] /\ Len(q) <= QueueSize
  BY DEF TypeOK
<1>7. PICK new : new = Offered(q, x)
  OBVIOUS
<1>8. queue' = [queue EXCEPT ![s] = new]
  BY <1>2, <1>3, <1>6, <1>7 DEF RunCallback
<1>9. dropped' = [dropped EXCEPT ![s] = @ \cup (ToSet(q) \ ToSet(new))]
  BY <1>2, <1>3, <1>6, <1>7 DEF RunCallback
<1>10. /\ queue'[s] = new /\ dropped'[s] = dropped[s] \cup (ToSet(q) \ ToSet(new))
       /\ \A t \in Subscribers \ {s} : queue'[t] = queue[t] /\ dropped'[t] = dropped[t]
  BY <1>8, <1>9 DEF TypeOK
<1>11. /\ Len(q) \in Nat
       /\ \E d \in {0, 1} :
            /\ d = 1 => Len(q) = QueueSize
            /\ Len(new) = Len(q) + 1 - d
            /\ \A i \in 1..(Len(new) - 1) : new[i] = q[i + d]
       /\ new[Len(new)] = x
  <2>1. Len(q) \in Nat
    OBVIOUS
  <2> QED BY ONLY <2>1, <1>6, <1>7, OfferedFacts, SMTT(40)
<1>12. PICK d \in {0, 1} :
          /\ d = 1 => Len(q) = QueueSize
          /\ Len(new) = Len(q) + 1 - d
          /\ \A i \in 1..(Len(new) - 1) : new[i] = q[i + d]
  BY <1>11
<1>13. /\ Len(queue[s]) \in Nat /\ (d = 1 => Len(queue[s]) = QueueSize)
       /\ Len(queue'[s]) = Len(queue[s]) + 1 - d
       /\ queue'[s][Len(queue'[s])] = x
       /\ \A i \in 1..(Len(queue'[s]) - 1) : queue'[s][i] = queue[s][i + d]
       /\ dropped'[s] = dropped[s] \cup (ToSet(queue[s]) \ ToSet(queue'[s]))
  BY ONLY <1>6, <1>10, <1>11, <1>12
<1> QED BY ONLY <1>5, <1>10, <1>13

\* The same in terms of the ends in that queue.
LEMMA RunEnds ==
  ASSUME TypeOK, RunCallback, OneBehind
  PROVE  \E s \in Subscribers :
           /\ 1 \in CallsTo(s)
           /\ \A t \in Subscribers \ {s} : queue'[t] = queue[t] /\ dropped'[t] = dropped[t]
           /\ Len(queue'[s]) \in Nat
           /\ 1 \in EndsTo(s) => \A i \in Ends(s)' : i = Len(queue'[s])
           /\ 1 \notin EndsTo(s) => \A i \in Ends(s)' : i = Len(queue'[s]) - 1 /\ Ends(s) # {}
           /\ End \notin dropped[s] => End \notin dropped'[s]
<1>1. PICK s \in Subscribers, x \in Nat, d \in {0, 1} :
           /\ 1 \in CallsTo(s) /\ x = callbacks[1].item /\ (x = End <=> 1 \in EndsTo(s))
           /\ \A t \in Subscribers \ {s} : queue'[t] = queue[t] /\ dropped'[t] = dropped[t]
           /\ Len(queue[s]) \in Nat /\ (d = 1 => Len(queue[s]) = QueueSize)
           /\ Len(queue'[s]) = Len(queue[s]) + 1 - d
           /\ queue'[s][Len(queue'[s])] = x
           /\ \A i \in 1..(Len(queue'[s]) - 1) : queue'[s][i] = queue[s][i + d]
           /\ dropped'[s] = dropped[s] \cup (ToSet(queue[s]) \ ToSet(queue'[s]))
  BY RunFacts
<1>2. PICK n \in Nat : n = Len(queue[s])
  BY <1>1
<1>20. PICK q : q = queue[s]
  OBVIOUS
<1>21. PICK new : new = queue'[s]
  OBVIOUS
<1>3. QueueSize \in Nat /\ QueueSize >= 2
  BY QueueAssumption
<1>4. /\ d = 1 => n = QueueSize
      /\ Len(q) = n /\ Len(new) = n + 1 - d /\ new[n + 1 - d] = x
      /\ \A i \in 1..(n - d) : new[i] = q[i + d]
  <2>1. (n + 1 - d) - 1 = n - d
    OBVIOUS
  <2> QED BY <1>1, <1>2, <1>20, <1>21, <2>1
<1>5. n + 1 - d \in Nat /\ n - d \in Nat
  BY <1>3, <1>4
<1>6. \A i \in Ends(s)' : i = n + 1 - d \/ (i \in 1..(n - d) /\ i + d \in Ends(s))
  <2> SUFFICES ASSUME NEW i \in 1..(n + 1 - d), new[i] = End, i # n + 1 - d
               PROVE  i \in 1..(n - d) /\ i + d \in Ends(s)
    BY <1>2, <1>20, <1>21, <1>4 DEF Ends
  <2>1. i \in 1..(n - d) /\ i + d \in 1..n
    BY <1>5
  <2> QED BY <1>2, <1>20, <1>21, <1>4, <2>1 DEF Ends
<1>7. \A i \in Ends(s)' : new[i] = End
  BY <1>2, <1>20, <1>21 DEF Ends
<1>8. 1 \in EndsTo(s) => Ends(s) = {}
  BY DEF OneBehind, Behind
<1>9. \A i \in Ends(s) : i = n
  BY <1>1, <1>2, <1>20, <1>21 DEF OneBehind, Behind
<1>10. 1 \in EndsTo(s) => \A i \in Ends(s)' : i = n + 1 - d
  BY <1>6, <1>8
<1>11. 1 \notin EndsTo(s) => \A i \in Ends(s)' : i = n - d /\ Ends(s) # {}
  <2> SUFFICES ASSUME 1 \notin EndsTo(s), NEW i \in Ends(s)'
               PROVE  i = n - d /\ Ends(s) # {}
    OBVIOUS
  <2>1. i # n + 1 - d
    BY <1>1, <1>4, <1>7
  <2>2. i \in 1..(n - d) /\ i + d \in Ends(s)
    BY <1>6, <2>1
  <2>3. i + d = n
    BY <1>9, <2>2
  <2> QED BY <2>2, <2>3
<1>12. End \notin dropped[s] => End \notin dropped'[s]
  <2> SUFFICES ASSUME End \in ToSet(q), End \notin ToSet(new)
               PROVE  FALSE
    BY <1>1, <1>2, <1>20, <1>21
  <2>1. \A i \in 1..(n + 1 - d) : new[i] # End
    <3>1. new = queue'[s] /\ queue'[s] \in Seq(Nat)
      BY <1>2, <1>20, <1>21, TypesStep DEF TypeOK, Next
    <3>2. DOMAIN new = 1..(n + 1 - d)
      BY <1>4, <3>1, LenProperties
    <3> QED BY <3>2 DEF ToSet
  <2>2. PICK p \in 1..n : q[p] = End
    <3>1. q \in Seq(Nat)
      BY <1>2, <1>20, <1>21 DEF TypeOK
    <3>2. DOMAIN q = 1..n
      BY <1>4, <3>1, LenProperties
    <3> QED BY <3>2 DEF ToSet
  <2>3. p = n
    <3>1. p \in Ends(s)
      BY <1>2, <1>20, <1>21, <1>4, <2>2 DEF Ends
    <3> QED BY <1>9, <3>1
  <2>4. n - d \in 1..(n - d) /\ n - d \in 1..(n + 1 - d) /\ (n - d) + d = n
    BY <1>3, <1>4, <2>2, <2>3
  <2>5. new[n - d] = q[n]
    BY <1>4, <2>4
  <2> QED BY <2>1, <2>2, <2>3, <2>4, <2>5
<1> QED
  <2>1. n - d = (n + 1 - d) - 1 /\ Len(queue'[s]) = n + 1 - d
    BY <1>2, <1>20, <1>21, <1>4
  <2> QED BY <1>1, <1>5, <1>10, <1>11, <1>12, <2>1

----------------------------------------------------------------------------
\* The lists of subscriptions, and what those have that are in them.
LEMMA ListsStep ==
  ASSUME TypeOK, Lists, OneBehind, [Next]_vars
  PROVE  Lists'
<1> USE DEF Lists
<1>1. ASSUME NEW s \in Subscribers, Subscribe(s) PROVE Lists'
  <2>1. /\ UNCHANGED <<closed, published, publishing, closing, callbacks>>
        /\ state[s] = "none" /\ state' = [state EXCEPT ![s] = "open"]
        /\ \/ closed /\ queue' = [queue EXCEPT ![s] = QueueWhenClosed] /\ subscribers' = subscribers
           \/ ~closed /\ subscribers' = subscribers \cup {s} /\ queue' = queue
    BY <1>1 DEF Subscribe
  <2>2. \A t \in Subscribers : CallsTo(t)' = CallsTo(t) /\ EndsTo(t)' = EndsTo(t)
    BY <2>1, SameCalls
  <2>3. \A t \in Subscribers \ {s} : queue'[t] = queue[t] /\ state'[t] = state[t] /\ Ends(t)' = Ends(t)
    BY <2>1, SameQueue DEF TypeOK
  <2>4. state'[s] = "open"
    BY <2>1 DEF TypeOK
  <2>5. queue[s] = <<>> /\ CallsTo(s) = {} /\ s \notin subscribers \cup publishing \cup closing
    BY <2>1
  <2>6. \A t \in Subscribers : state'[t] = "none" =>
          /\ queue'[t] = <<>> /\ CallsTo(t)' = {}
          /\ t \notin subscribers' \cup publishing' \cup closing'
    BY <2>1, <2>2, <2>3, <2>4
  <2>7. \A t \in subscribers' \cup closing' : Ends(t)' = {} /\ EndsTo(t)' = {}
    <3>1. ~closed => Ends(s)' = {} /\ EndsTo(s)' = {}
      <4>1. ~closed => queue'[s] = <<>>
        BY <2>1, <2>5
      <4>2. EndsTo(s)' = {}
        BY <2>2, <2>5 DEF EndsTo
      <4>3. queue'[s] = <<>> => Ends(s)' = {}
        <5>1. ASSUME queue'[s] = <<>>, NEW i \in Ends(s)' PROVE FALSE
          <6>1. i \in 1..Len(queue'[s]) /\ Len(queue'[s]) = 0
            BY <5>1 DEF Ends
          <6> QED BY <6>1
        <5> QED BY <5>1
      <4> QED BY <4>1, <4>2, <4>3
    <3> QED BY <2>1, <2>2, <2>3, <2>5, <3>1 DEF TypeOK
  <2> QED BY <2>1, <2>6, <2>7
<1>2. CASE Publish
  <2>1. \A t \in Subscribers : CallsTo(t)' = CallsTo(t) /\ EndsTo(t)' = EndsTo(t) /\ Ends(t)' = Ends(t)
    BY <1>2, SameCalls, SameQueue DEF Publish
  <2> QED BY <1>2, <2>1 DEF Publish, TypeOK
<1>3. ASSUME NEW s \in Subscribers, HandOver(s) PROVE Lists'
  <2> DEFINE c == [to |-> s, item |-> published]
  <2>1. c \in Calls /\ c.to = s /\ c.item # End
    BY <1>3 DEF HandOver, TypeOK, Calls, End
  <2>2. callbacks' = Append(callbacks, c) /\ callbacks \in Seq(Calls)
    BY <1>3 DEF HandOver, TypeOK, Calls
  <2> HIDE DEF c
  <2>3. \A t \in Subscribers : EndsTo(t)' = EndsTo(t) /\ (t # s => CallsTo(t)' = CallsTo(t))
    BY <2>1, <2>2, AppendCalls
  <2>4. \A t \in Subscribers : Ends(t)' = Ends(t)
    BY <1>3, SameQueue DEF HandOver
  <2> QED BY <1>3, <2>3, <2>4 DEF HandOver, TypeOK
<1>4. CASE Close
  <2>1. \A t \in Subscribers : CallsTo(t)' = CallsTo(t) /\ EndsTo(t)' = EndsTo(t) /\ Ends(t)' = Ends(t)
    BY <1>4, SameCalls, SameQueue DEF Close
  <2> QED BY <1>4, <2>1 DEF Close, TypeOK
<1>5. ASSUME NEW s \in Subscribers, HandOverEnd(s) PROVE Lists'
  <2> DEFINE c == [to |-> s, item |-> End]
  <2>1. c \in Calls /\ c.to = s
    BY DEF Calls, End
  <2>2. callbacks' = Append(callbacks, c) /\ callbacks \in Seq(Calls)
    BY <1>5 DEF HandOverEnd, TypeOK, Calls
  <2> HIDE DEF c
  <2>3. \A t \in Subscribers \ {s} : EndsTo(t)' = EndsTo(t) /\ CallsTo(t)' = CallsTo(t)
    BY <2>1, <2>2, AppendCalls
  <2>4. \A t \in Subscribers : Ends(t)' = Ends(t)
    BY <1>5, SameQueue DEF HandOverEnd
  <2>5. subscribers = {}
    BY <1>5 DEF HandOverEnd
  <2> QED BY <1>5, <2>3, <2>4, <2>5 DEF HandOverEnd, TypeOK
<1>6. CASE RunCallback
  <2>1. PICK s \in Subscribers :
          /\ 1 \in CallsTo(s)
          /\ \A t \in Subscribers \ {s} : queue'[t] = queue[t]
          /\ 1 \notin EndsTo(s) => \A i \in Ends(s)' : Ends(s) # {}
    BY <1>6, RunEnds
  <2>2. /\ callbacks \in Seq(Calls) /\ callbacks # <<>> /\ callbacks' = Tail(callbacks)
        /\ UNCHANGED <<subscribers, closed, published, publishing, closing, state>>
    BY <1>6 DEF RunCallback, TypeOK, Calls
  <2>3. \A t \in Subscribers : /\ CallsTo(t) = {} => CallsTo(t)' = {}
                               /\ EndsTo(t) = {} => EndsTo(t)' = {}
    <3>1. ASSUME NEW t \in Subscribers
          PROVE  /\ \A i \in CallsTo(t)' : i + 1 \in CallsTo(t)
                 /\ \A i \in EndsTo(t)' : i + 1 \in EndsTo(t)
      BY <2>2, TailCalls
    <3> QED BY <3>1
  <2>4. \A t \in Subscribers \ {s} : Ends(t)' = Ends(t)
    BY <2>1, SameQueue
  <2>5. \A t \in subscribers \cup closing : Ends(t)' = {} /\ EndsTo(t)' = {}
    BY <2>1, <2>3, <2>4 DEF TypeOK
  <2>6. \A t \in Subscribers : state[t] = "none" => t # s /\ queue'[t] = <<>> /\ CallsTo(t)' = {}
    BY <2>1, <2>3
  <2> QED BY <2>2, <2>5, <2>6
<1>7. ASSUME NEW s \in Subscribers, Iterate(s) PROVE Lists'
  <2>1. /\ UNCHANGED <<subscribers, closed, published, publishing, closing, callbacks>>
        /\ queue[s] # <<>> /\ state[s] = "open" /\ queue' = [queue EXCEPT ![s] = Tail(@)]
        /\ state' = state \/ state' = [state EXCEPT ![s] = "ended"]
    BY <1>7 DEF Iterate
  <2>2. \A t \in Subscribers : CallsTo(t)' = CallsTo(t) /\ EndsTo(t)' = EndsTo(t)
    BY <2>1, SameCalls
  <2>3. \A t \in Subscribers \ {s} : queue'[t] = queue[t] /\ state'[t] = state[t] /\ Ends(t)' = Ends(t)
    BY <2>1, SameQueue DEF TypeOK
  <2>4. state'[s] # "none" /\ queue'[s] = Tail(queue[s]) /\ queue[s] \in Seq(Nat)
    BY <2>1 DEF TypeOK
  <2>5. Ends(s) = {} => Ends(s)' = {}
    BY <2>1, <2>4, TailEnds
  <2> QED BY <2>1, <2>2, <2>3, <2>4, <2>5 DEF TypeOK
<1>8. ASSUME NEW s \in Subscribers, Unsubscribe(s) PROVE Lists'
  <2>1. \A t \in Subscribers : CallsTo(t)' = CallsTo(t) /\ EndsTo(t)' = EndsTo(t) /\ Ends(t)' = Ends(t)
    BY <1>8, SameCalls, SameQueue DEF Unsubscribe
  <2> QED BY <1>8, <2>1 DEF Unsubscribe, TypeOK
<1>9. CASE UNCHANGED vars
  <2>1. \A t \in Subscribers : CallsTo(t)' = CallsTo(t) /\ EndsTo(t)' = EndsTo(t) /\ Ends(t)' = Ends(t)
    BY <1>9, SameCalls, SameQueue DEF vars
  <2> QED BY <1>9, <2>1 DEF vars, TypeOK
<1> QED BY <1>1, <1>2, <1>3, <1>4, <1>5, <1>6, <1>7, <1>8, <1>9 DEF Next

\* At most one chunk behind the end, in the queue or on its way to it.
LEMMA OneBehindStep ==
  ASSUME TypeOK, Lists, OneBehind, [Next]_vars
  PROVE  OneBehind'
<1> SUFFICES ASSUME NEW t \in Subscribers PROVE Behind(t)'
  BY DEF OneBehind
<1>0. Behind(t)
  BY DEF OneBehind
<1>1. ASSUME NEW s \in Subscribers, Subscribe(s) PROVE Behind(t)'
  <2>1. /\ callbacks' = callbacks /\ publishing' = publishing /\ state[s] = "none"
        /\ queue' = queue \/ queue' = [queue EXCEPT ![s] = QueueWhenClosed]
    BY <1>1 DEF Subscribe
  <2>2. CallsTo(t)' = CallsTo(t) /\ EndsTo(t)' = EndsTo(t)
    BY <2>1, SameCalls
  <2>3. CASE queue'[t] = queue[t]
    BY <1>0, <2>1, <2>2, <2>3, SameBehind
  <2>4. CASE t = s /\ queue'[t] = QueueWhenClosed
    <3>1. CallsTo(t) = {} /\ t \notin publishing
      BY <2>1, <2>4 DEF Lists
    <3>2. EndsTo(t) = {}
      BY <3>1 DEF EndsTo
    <3>3. Len(queue'[t]) = 1
      BY <2>4 DEF QueueWhenClosed
    <3>4. \A i \in Ends(t)' : i = Len(queue'[t])
      BY <3>3 DEF Ends
    <3> QED BY <2>1, <2>2, <3>1, <3>2, <3>4 DEF Behind
  <2> QED BY <2>1, <2>3, <2>4 DEF TypeOK
<1>2. CASE Publish
  <2>1. callbacks' = callbacks /\ queue' = queue /\ publishing' = subscribers
    BY <1>2 DEF Publish
  <2>2. CallsTo(t)' = CallsTo(t) /\ EndsTo(t)' = EndsTo(t) /\ Ends(t)' = Ends(t)
    BY <2>1, SameCalls, SameQueue
  <2>3. CASE t \in subscribers
    <3>1. Ends(t) = {} /\ EndsTo(t) = {}
      BY <2>3 DEF Lists
    <3> QED BY <2>2, <3>1 DEF Behind
  <2>4. CASE t \notin subscribers
    BY <1>0, <2>1, <2>2, <2>4, SameBehind
  <2> QED BY <2>3, <2>4
<1>3. ASSUME NEW s \in Subscribers, HandOver(s) PROVE Behind(t)'
  <2> DEFINE c == [to |-> s, item |-> published]
  <2>1. c \in Calls /\ c.to = s /\ c.item # End
    BY <1>3 DEF HandOver, TypeOK, Calls, End, Lists
  <2>2. callbacks' = Append(callbacks, c) /\ callbacks \in Seq(Calls)
    BY <1>3 DEF HandOver, TypeOK, Calls
  <2> HIDE DEF c
  <2>3. PICK n \in Nat : n = Len(callbacks)
    BY <2>2
  <2>4. /\ \A i \in CallsTo(t) : i \in 1..n
        /\ CallsTo(t)' = (IF t = s THEN CallsTo(t) \cup {n + 1} ELSE CallsTo(t))
        /\ EndsTo(t)' = EndsTo(t)
    BY <2>1, <2>2, <2>3, AppendCalls
  <2>5. queue' = queue /\ publishing' = publishing \ {s} /\ s \in publishing
    BY <1>3 DEF HandOver
  <2>6. Ends(t)' = Ends(t)
    BY <2>5, SameQueue
  <2>7. CASE t = s
    <3>1. \A i \in Ends(t) : EndsTo(t) = {} /\ i = Len(queue[t]) /\ CallsTo(t) = {}
      BY <1>0, <2>5, <2>7 DEF Behind
    <3>2. \A i \in EndsTo(t) : \A j \in CallsTo(t) : ~(j > i)
      BY <1>0, <2>5, <2>7 DEF Behind
    <3>3. \A i \in Ends(t)' :
            /\ EndsTo(t)' = {} /\ i = Len(queue'[t]) /\ t \notin publishing'
            /\ \A j, k \in CallsTo(t)' : j = k
      BY <2>4, <2>5, <2>6, <2>7, <3>1
    <3>4. \A i \in EndsTo(t)' :
            /\ Ends(t)' = {} /\ (\A j \in EndsTo(t)' : j = i) /\ t \notin publishing'
            /\ \A j, k \in CallsTo(t)' : j > i /\ k > i => j = k
      BY <1>0, <2>4, <2>5, <2>6, <2>7, <3>2 DEF Behind
    <3> QED BY <3>3, <3>4 DEF Behind
  <2>8. CASE t # s
    BY <1>0, <2>4, <2>5, <2>8, SameBehind
  <2> QED BY <2>7, <2>8
<1>4. CASE Close
  <2>1. CallsTo(t)' = CallsTo(t) /\ EndsTo(t)' = EndsTo(t)
    BY <1>4, SameCalls DEF Close
  <2> QED BY <1>0, <1>4, <2>1, SameBehind DEF Close
<1>5. ASSUME NEW s \in Subscribers, HandOverEnd(s) PROVE Behind(t)'
  <2> DEFINE c == [to |-> s, item |-> End]
  <2>1. c \in Calls /\ c.to = s /\ c.item = End
    BY DEF Calls, End
  <2>2. callbacks' = Append(callbacks, c) /\ callbacks \in Seq(Calls)
    BY <1>5 DEF HandOverEnd, TypeOK, Calls
  <2> HIDE DEF c
  <2>3. PICK n \in Nat : n = Len(callbacks)
    BY <2>2
  <2>4. /\ \A i \in CallsTo(t) : i \in 1..n
        /\ t = s => /\ CallsTo(t)' = CallsTo(t) \cup {n + 1}
                    /\ EndsTo(t)' = EndsTo(t) \cup {n + 1}
        /\ t # s => CallsTo(t)' = CallsTo(t) /\ EndsTo(t)' = EndsTo(t)
    BY <2>1, <2>2, <2>3, AppendCalls
  <2>5. queue' = queue /\ publishing' = publishing /\ s \in closing
    BY <1>5 DEF HandOverEnd
  <2>6. Ends(t)' = Ends(t)
    BY <2>5, SameQueue
  <2>7. CASE t = s
    <3>1. Ends(t) = {} /\ EndsTo(t) = {}
      BY <2>5, <2>7 DEF Lists
    <3>2. EndsTo(t)' = {n + 1}
      BY <2>4, <2>7, <3>1
    <3>3. \A j \in CallsTo(t)' : ~(j > n + 1)
      BY <2>4, <2>7
    <3> QED BY <2>6, <3>1, <3>2, <3>3 DEF Behind
  <2>8. CASE t # s
    BY <1>0, <2>4, <2>5, <2>8, SameBehind
  <2> QED BY <2>7, <2>8
<1>6. CASE RunCallback
  <2>1. PICK s \in Subscribers :
           /\ 1 \in CallsTo(s)
           /\ \A u \in Subscribers \ {s} : queue'[u] = queue[u]
           /\ Len(queue'[s]) \in Nat
           /\ 1 \in EndsTo(s) => \A i \in Ends(s)' : i = Len(queue'[s])
           /\ 1 \notin EndsTo(s) => \A i \in Ends(s)' : i = Len(queue'[s]) - 1 /\ Ends(s) # {}
    BY <1>6, RunEnds
  <2>2. /\ callbacks \in Seq(Calls) /\ callbacks # <<>> /\ callbacks' = Tail(callbacks)
        /\ publishing' = publishing
    BY <1>6 DEF RunCallback, TypeOK, Calls
  <2>3. /\ \A i \in CallsTo(t)' : i \in Nat /\ i >= 1 /\ i + 1 \in CallsTo(t)
        /\ \A i \in EndsTo(t)' : i \in CallsTo(t)' /\ i + 1 \in EndsTo(t)
    BY <2>2, TailCalls
  <2>4. \* what holds of the calls still to run
        \A i \in EndsTo(t)' :
          /\ Ends(t) = {} /\ 1 \notin EndsTo(t) /\ \A j \in EndsTo(t)' : j = i
          /\ \A j, k \in CallsTo(t)' : j > i /\ k > i => j = k
          /\ \A j \in CallsTo(t)' : j > i => t \notin publishing'
    <3> SUFFICES ASSUME NEW i \in EndsTo(t)'
                 PROVE  /\ Ends(t) = {} /\ 1 \notin EndsTo(t) /\ \A j \in EndsTo(t)' : j = i
                        /\ \A j, k \in CallsTo(t)' : j > i /\ k > i => j = k
                        /\ \A j \in CallsTo(t)' : j > i => t \notin publishing'
      OBVIOUS
    <3>1. i \in Nat /\ i >= 1 /\ i + 1 \in EndsTo(t)
      BY <2>3
    <3>2. /\ Ends(t) = {} /\ \A j \in EndsTo(t) : j = i + 1
          /\ \A j, k \in CallsTo(t) : j > i + 1 /\ k > i + 1 => j = k
          /\ \A j \in CallsTo(t) : j > i + 1 => t \notin publishing
      BY <1>0, <3>1 DEF Behind
    <3>3. \A j \in CallsTo(t)' : j > i => j + 1 > i + 1
      BY <2>3, <3>1
    <3>4. 1 \notin EndsTo(t) /\ \A j \in EndsTo(t)' : j = i
      BY <2>3, <3>1, <3>2
    <3>5. \A j, k \in CallsTo(t)' : j > i /\ k > i => j = k
      <4> SUFFICES ASSUME NEW j \in CallsTo(t)', NEW k \in CallsTo(t)', j > i, k > i
                   PROVE  j = k
        OBVIOUS
      <4>1. j + 1 = k + 1 /\ j \in Nat /\ k \in Nat
        BY <2>3, <3>2, <3>3
      <4> QED BY <4>1
    <3>6. \A j \in CallsTo(t)' : j > i => t \notin publishing'
      BY <2>2, <2>3, <3>2, <3>3
    <3> QED BY <3>2, <3>4, <3>5, <3>6
  <2>5. CASE t # s
    <3>1. Ends(t)' = Ends(t) /\ queue'[t] = queue[t]
      BY <2>1, <2>5, SameQueue
    <3>2. \A i \in Ends(t)' :
             /\ EndsTo(t)' = {}
             /\ \/ /\ i = Len(queue'[t]) /\ \A j, k \in CallsTo(t)' : j = k
                   /\ CallsTo(t)' # {} => t \notin publishing'
                \/ i = Len(queue'[t]) - 1 /\ CallsTo(t)' = {} /\ t \notin publishing'
      <4> SUFFICES ASSUME NEW i \in Ends(t)
                   PROVE  /\ EndsTo(t)' = {}
                          /\ \/ /\ i = Len(queue[t]) /\ \A j, k \in CallsTo(t)' : j = k
                                /\ CallsTo(t)' # {} => t \notin publishing'
                             \/ i = Len(queue[t]) - 1 /\ CallsTo(t)' = {} /\ t \notin publishing'
        BY <3>1
      <4>1. EndsTo(t)' = {}
        BY <1>0, <2>3 DEF Behind
      <4>2. CASE /\ i = Len(queue[t]) /\ \A j, k \in CallsTo(t) : j = k
                 /\ CallsTo(t) # {} => t \notin publishing
        <5>1. \A j, k \in CallsTo(t)' : j = k
          <6> SUFFICES ASSUME NEW j \in CallsTo(t)', NEW k \in CallsTo(t)' PROVE j = k
            OBVIOUS
          <6>1. j \in Nat /\ k \in Nat /\ j + 1 = k + 1
            BY <2>3, <4>2
          <6> QED BY <6>1
        <5>2. CallsTo(t)' # {} => t \notin publishing'
          BY <2>2, <2>3, <4>2
        <5> QED BY <4>1, <4>2, <5>1, <5>2
      <4>3. CASE i = Len(queue[t]) - 1 /\ CallsTo(t) = {} /\ t \notin publishing
        BY <2>2, <2>3, <4>1, <4>3
      <4> QED BY <1>0, <4>2, <4>3 DEF Behind
    <3> QED BY <2>4, <3>1, <3>2 DEF Behind
  <2>6. CASE t = s /\ 1 \in EndsTo(t)
    <3>1. EndsTo(t)' = {}
      BY <2>4, <2>6
    <3>2. /\ \A j, k \in CallsTo(t) : j > 1 /\ k > 1 => j = k
          /\ \A j \in CallsTo(t) : j > 1 => t \notin publishing
      BY <1>0, <2>6 DEF Behind
    <3>3. \A j, k \in CallsTo(t)' : j = k
      <4> SUFFICES ASSUME NEW j \in CallsTo(t)', NEW k \in CallsTo(t)' PROVE j = k
        OBVIOUS
      <4>1. j \in Nat /\ k \in Nat /\ j + 1 > 1 /\ k + 1 > 1
        BY <2>3
      <4>2. j + 1 = k + 1
        BY <2>3, <3>2, <4>1
      <4> QED BY <4>1, <4>2
    <3>4. CallsTo(t)' # {} => t \notin publishing'
      <4> SUFFICES ASSUME NEW j \in CallsTo(t)' PROVE t \notin publishing'
        OBVIOUS
      <4>1. j + 1 > 1
        BY <2>3
      <4> QED BY <2>2, <2>3, <3>2, <4>1
    <3>5. \A i \in Ends(t)' : i = Len(queue'[t])
      BY <2>1, <2>6
    <3> QED BY <3>1, <3>3, <3>4, <3>5 DEF Behind
  <2>7. CASE t = s /\ 1 \notin EndsTo(t)
    <3>1. \A i \in Ends(t)' : i = Len(queue'[t]) - 1 /\ Ends(t) # {}
      BY <2>1, <2>7
    <3>2. Ends(t) # {} => EndsTo(t) = {} /\ CallsTo(t) = {1} /\ t \notin publishing
      BY <1>0, <2>1, <2>7 DEF Behind
    <3>3. Ends(t) # {} => EndsTo(t)' = {} /\ CallsTo(t)' = {} /\ t \notin publishing'
      <4>1. CallsTo(t) = {1} => CallsTo(t)' = {}
        BY <2>3
      <4> QED BY <2>2, <2>3, <3>2, <4>1
    <3>4. EndsTo(t)' # {} => Ends(t)' = {}
      BY <2>4, <3>1
    <3> QED BY <2>4, <3>1, <3>3, <3>4 DEF Behind
  <2> QED BY <2>5, <2>6, <2>7
<1>7. ASSUME NEW s \in Subscribers, Iterate(s) PROVE Behind(t)'
  <2>1. /\ callbacks' = callbacks /\ publishing' = publishing
        /\ queue[s] # <<>> /\ queue' = [queue EXCEPT ![s] = Tail(@)]
    BY <1>7 DEF Iterate
  <2>2. CallsTo(t)' = CallsTo(t) /\ EndsTo(t)' = EndsTo(t)
    BY <2>1, SameCalls
  <2>3. CASE t # s
    <3>1. queue'[t] = queue[t]
      BY <2>1, <2>3 DEF TypeOK
    <3> QED BY <1>0, <2>1, <2>2, <3>1, SameBehind
  <2>4. CASE t = s
    <3>1. queue[t] \in Seq(Nat) /\ queue[t] # <<>> /\ queue'[t] = Tail(queue[t])
      BY <2>1, <2>4 DEF TypeOK
    <3>2. PICK n \in Nat, m \in Int : n = Len(queue[t]) /\ m = Len(queue'[t]) /\ m = n - 1
      BY <3>1, TailEnds
    <3>3. \A i \in Ends(t)' : i \in Nat /\ i + 1 \in Ends(t)
      BY <3>1, TailEnds
    <3>4. \A i \in Ends(t)' : (i + 1 = n => i = m) /\ (i + 1 = n - 1 => i = m - 1)
      BY <3>2, <3>3
    <3>5. \A i \in Ends(t)' :
             /\ EndsTo(t) = {}
             /\ \/ /\ i + 1 = n /\ \A j, k \in CallsTo(t) : j = k
                   /\ CallsTo(t) # {} => t \notin publishing
                \/ i + 1 = n - 1 /\ CallsTo(t) = {} /\ t \notin publishing
      BY <1>0, <3>2, <3>3 DEF Behind
    <3>6. Ends(t) = {} => Ends(t)' = {}
      BY <3>3
    <3> QED BY <1>0, <2>1, <2>2, <3>2, <3>4, <3>5, <3>6 DEF Behind
  <2> QED BY <2>3, <2>4
<1>8. ASSUME NEW s \in Subscribers, Unsubscribe(s) PROVE Behind(t)'
  <2>1. CallsTo(t)' = CallsTo(t) /\ EndsTo(t)' = EndsTo(t)
    BY <1>8, SameCalls DEF Unsubscribe
  <2> QED BY <1>0, <1>8, <2>1, SameBehind DEF Unsubscribe
<1>9. CASE UNCHANGED vars
  <2>1. CallsTo(t)' = CallsTo(t) /\ EndsTo(t)' = EndsTo(t)
    BY <1>9, SameCalls DEF vars
  <2> QED BY <1>0, <1>9, <2>1, SameBehind DEF vars
<1> QED BY <1>1, <1>2, <1>3, <1>4, <1>5, <1>6, <1>7, <1>8, <1>9 DEF Next

\* The end is never evicted: a queue of two or more has room for what comes behind it.
LEMMA EndSurvivesStep ==
  ASSUME TypeOK, OneBehind, EndSurvives, [Next]_vars
  PROVE  EndSurvives'
<1>1. CASE RunCallback
  <2>1. PICK s \in Subscribers :
          /\ \A t \in Subscribers \ {s} : dropped'[t] = dropped[t]
          /\ End \notin dropped[s] => End \notin dropped'[s]
    BY <1>1, RunEnds
  <2> QED BY <2>1 DEF EndSurvives
<1>2. CASE dropped' = dropped
  BY <1>2 DEF EndSurvives
<1> QED
  BY <1>1, <1>2 DEF Next, vars, Publish, Close, Subscribe, HandOver, HandOverEnd, Iterate, Unsubscribe

----------------------------------------------------------------------------
\* The order of the chunks: in what was returned, then in the queue, then in the
\* event loop.
Order(s) ==
  /\ \A i, j \in 1..Len(got[s]) : i < j => Before(got[s][i], got[s][j])
  /\ \A i, j \in 1..Len(queue[s]) : i < j => Before(queue[s][i], queue[s][j])
  /\ \A i, j \in CallsTo(s) : i < j => Before(callbacks[i].item, callbacks[j].item)
  /\ \A i \in 1..Len(got[s]) : \A j \in 1..Len(queue[s]) : Before(got[s][i], queue[s][j])
  /\ \A i \in 1..Len(got[s]) : \A j \in CallsTo(s) : Before(got[s][i], callbacks[j].item)
  /\ \A i \in 1..Len(queue[s]) : \A j \in CallsTo(s) : Before(queue[s][i], callbacks[j].item)

\* a chunk later than subscribe(), and older than the one yet to be handed over
Fits(s, x) ==
  x = End \/ (since[s] < x /\ x <= published /\ (s \in publishing => x < published))

Recent(s) ==
  /\ since[s] <= published /\ (s \in publishing => since[s] < published)
  /\ state[s] = "none" => got[s] = <<>>
  /\ \A i \in 1..Len(got[s]) : Fits(s, got[s][i])
  /\ \A i \in 1..Len(queue[s]) : Fits(s, queue[s][i])
  /\ \A i \in CallsTo(s) : Fits(s, callbacks[i].item)

Ordered == \A s \in Subscribers : Order(s) /\ Recent(s)

\* A subscription nothing happens to.
LEMMA SameOrder ==
  ASSUME NEW t \in Subscribers, Order(t), Recent(t), TypeOK,
         got'[t] = got[t], queue'[t] = queue[t], since'[t] = since[t],
         CallsTo(t)' = CallsTo(t), \A i \in CallsTo(t) : callbacks'[i].item = callbacks[i].item,
         published' = published \/ (published' = published + 1 /\ t \notin publishing),
         published' = published => (t \in publishing' => t \in publishing),
         state'[t] = "none" => state[t] = "none"
  PROVE  Order(t)' /\ Recent(t)'
<1>1. Order(t)'
  BY DEF Order
<1>2. published \in Nat /\ since[t] \in Nat
  BY DEF TypeOK
<1>3. \A x \in Nat : Fits(t, x) => Fits(t, x)'
  <2> SUFFICES ASSUME NEW x \in Nat, Fits(t, x), x # End
               PROVE  since'[t] < x /\ x <= published' /\ (t \in publishing' => x < published')
    BY DEF Fits, End
  <2> QED BY <1>2 DEF Fits
<1>4. since'[t] <= published' /\ (t \in publishing' => since'[t] < published')
  BY <1>2 DEF Recent
<1>5. /\ \A i \in 1..Len(got[t]) : got[t][i] \in Nat
      /\ \A i \in 1..Len(queue[t]) : queue[t][i] \in Nat
  <2>1. got[t] \in Seq(Nat) /\ queue[t] \in Seq(Nat)
    BY DEF TypeOK
  <2> QED BY <2>1
<1>6. \A i \in CallsTo(t) : callbacks[i].item \in Nat
  <2>1. callbacks \in Seq(Calls)
    BY DEF TypeOK, Calls
  <2>2. \A i \in CallsTo(t) : callbacks[i] \in Calls
    BY <2>1 DEF CallsTo
  <2> QED BY <2>2 DEF Calls
<1>7. \A i \in 1..Len(got'[t]) : Fits(t, got[t][i])'
  BY <1>3, <1>5 DEF Recent
<1>8. \A i \in 1..Len(queue'[t]) : Fits(t, queue[t][i])'
  BY <1>3, <1>5 DEF Recent
<1>9. \A i \in CallsTo(t)' : Fits(t, callbacks[i].item)'
  BY <1>3, <1>6 DEF Recent
<1> QED BY <1>1, <1>4, <1>7, <1>8, <1>9 DEF Recent

LEMMA OrderedStep ==
  ASSUME TypeOK, Lists, Ordered, [Next]_vars
  PROVE  Ordered'
<1>0. \A t \in Subscribers : Order(t) /\ Recent(t)
  BY DEF Ordered
<1>1. ASSUME NEW s \in Subscribers, Subscribe(s) PROVE Ordered'
  <2>1. /\ state[s] = "none" /\ state' = [state EXCEPT ![s] = "open"]
        /\ since' = [since EXCEPT ![s] = published]
        /\ queue' = queue \/ queue' = [queue EXCEPT ![s] = <<End>>]
        /\ UNCHANGED <<published, publishing, callbacks, got>>
    BY <1>1 DEF Subscribe, QueueWhenClosed
  <2>2. \A t \in Subscribers : CallsTo(t)' = CallsTo(t)
    BY <2>1, SameCalls
  <2>3. ASSUME NEW t \in Subscribers \ {s} PROVE Order(t)' /\ Recent(t)'
    <3>1. queue'[t] = queue[t] /\ since'[t] = since[t] /\ state'[t] = state[t]
      BY <2>1 DEF TypeOK
    <3> QED BY <1>0, <2>1, <2>2, <3>1, SameOrder
  <2>4. /\ CallsTo(s)' = {} /\ Len(got'[s]) = 0 /\ s \notin publishing'
        /\ since'[s] = published /\ state'[s] = "open"
        /\ queue'[s] = <<>> \/ queue'[s] = <<End>>
    BY <1>0, <2>1, <2>2 DEF Lists, Recent, TypeOK
  <2>5. /\ \A i, j \in 1..Len(queue'[s]) : ~(i < j)
        /\ \A i \in 1..Len(queue'[s]) : queue'[s][i] = End
    <3>1. CASE queue'[s] = <<>>
      BY <3>1
    <3>2. CASE queue'[s] = <<End>>
      BY <3>2
    <3> QED BY <2>4, <3>1, <3>2
  <2>6. published \in Nat
    BY DEF TypeOK
  <2>7. Order(s)'
    BY <2>4, <2>5 DEF Order, Before
  <2>8. Recent(s)'
    BY <2>1, <2>4, <2>5, <2>6 DEF Recent, Fits
  <2> QED BY <2>3, <2>7, <2>8 DEF Ordered
<1>2. CASE Publish
  <2>1. /\ publishing = {} /\ published' = published + 1
        /\ UNCHANGED <<callbacks, queue, since, got, state>> /\ published \in Nat
    BY <1>2 DEF Publish, TypeOK
  <2>2. \A t \in Subscribers : CallsTo(t)' = CallsTo(t)
    BY <2>1, SameCalls
  <2>3. ASSUME NEW t \in Subscribers PROVE Order(t)' /\ Recent(t)'
    BY <1>0, <2>1, <2>2, SameOrder
  <2> QED BY <2>3 DEF Ordered
<1>3. ASSUME NEW s \in Subscribers, NEW x \in Nat,
             callbacks' = Append(callbacks, [to |-> s, item |-> x]),
             x = End \/ (x = published /\ s \in publishing /\ s \notin publishing'),
             publishing' \subseteq publishing,
             UNCHANGED <<published, queue, since, got, state>>
      PROVE  Ordered'
  <2>1. PICK c \in Calls : c = [to |-> s, item |-> x] /\ c.to = s /\ c.item = x
    <3>1. [to |-> s, item |-> x] \in Calls
      BY DEF Calls
    <3> QED BY <3>1
  <2>2. callbacks \in Seq(Calls) /\ callbacks' = Append(callbacks, c)
    BY <1>3, <2>1 DEF TypeOK, Calls
  <2>3. PICK n \in Nat : n = Len(callbacks)
    BY <2>2
  <2>4. \A t \in Subscribers :
          /\ \A i \in CallsTo(t) : i \in 1..n /\ callbacks'[i] = callbacks[i]
          /\ CallsTo(t)' = (IF t = s THEN CallsTo(t) \cup {n + 1} ELSE CallsTo(t))
    BY <2>1, <2>2, <2>3, AppendCalls
  <2>5. callbacks'[n + 1].item = x
    BY <2>1, <2>2, <2>3, AppendCalls
  <2>6. ASSUME NEW t \in Subscribers \ {s} PROVE Order(t)' /\ Recent(t)'
    BY <1>0, <1>3, <2>4, <2>6, SameOrder
  <2>7. \A y : Fits(s, y) => Before(y, x) /\ Fits(s, y)'
    BY <1>3 DEF Fits, Before
  <2>8. \A i, j \in CallsTo(s)' : i < j => Before(callbacks'[i].item, callbacks'[j].item)
    <3> SUFFICES ASSUME NEW i \in CallsTo(s)', NEW j \in CallsTo(s)', i < j
                 PROVE  Before(callbacks'[i].item, callbacks'[j].item)
      OBVIOUS
    <3>1. i \in CallsTo(s)
      BY <2>3, <2>4
    <3>2. CASE j = n + 1
      BY <1>0, <2>4, <2>5, <2>7, <3>1, <3>2 DEF Recent
    <3>3. CASE j # n + 1
      BY <1>0, <2>4, <3>1, <3>3 DEF Order
    <3> QED BY <3>2, <3>3
  <2>9. \A j \in CallsTo(s)' :
          /\ \A i \in 1..Len(got[s]) : Before(got[s][i], callbacks'[j].item)
          /\ \A i \in 1..Len(queue[s]) : Before(queue[s][i], callbacks'[j].item)
          /\ Fits(s, callbacks[j].item)'
    <3> SUFFICES ASSUME NEW j \in CallsTo(s)'
                 PROVE  /\ \A i \in 1..Len(got[s]) : Before(got[s][i], callbacks'[j].item)
                        /\ \A i \in 1..Len(queue[s]) : Before(queue[s][i], callbacks'[j].item)
                        /\ Fits(s, callbacks[j].item)'
      OBVIOUS
    <3>1. CASE j = n + 1
      <4>1. Fits(s, x)'
        BY <1>0, <1>3 DEF Fits, Recent, TypeOK
      <4> QED BY <1>0, <2>5, <2>7, <3>1, <4>1 DEF Recent
    <3>2. CASE j # n + 1
      <4>1. j \in CallsTo(s) /\ callbacks'[j] = callbacks[j]
        BY <2>4, <3>2
      <4> QED BY <1>0, <2>7, <4>1 DEF Order, Recent
    <3> QED BY <3>1, <3>2
  <2>10. Order(s)'
    BY <1>0, <1>3, <2>8, <2>9 DEF Order
  <2>11. Recent(s)'
    BY <1>0, <1>3, <2>7, <2>9 DEF Recent
  <2> QED BY <2>6, <2>10, <2>11 DEF Ordered
<1>4. ASSUME NEW s \in Subscribers, HandOver(s) PROVE Ordered'
  BY <1>3, <1>4 DEF HandOver, TypeOK
<1>5. ASSUME NEW s \in Subscribers, HandOverEnd(s) PROVE Ordered'
  BY <1>3, <1>5 DEF HandOverEnd, End
<1>6. CASE RunCallback
  <2>1. PICK s \in Subscribers, x \in Nat, d \in {0, 1} :
           /\ 1 \in CallsTo(s) /\ x = callbacks[1].item
           /\ \A t \in Subscribers \ {s} : queue'[t] = queue[t]
           /\ Len(queue[s]) \in Nat /\ Len(queue'[s]) = Len(queue[s]) + 1 - d
           /\ queue'[s][Len(queue'[s])] = x
           /\ \A i \in 1..(Len(queue'[s]) - 1) : queue'[s][i] = queue[s][i + d]
    BY <1>6, RunFacts
  <2>2. /\ callbacks \in Seq(Calls) /\ callbacks # <<>> /\ callbacks' = Tail(callbacks)
        /\ UNCHANGED <<published, publishing, since, got, state>>
    BY <1>6 DEF RunCallback, TypeOK, Calls
  <2>3. \A t \in Subscribers : \A i \in CallsTo(t)' :
          /\ i \in Nat /\ i >= 1 /\ i + 1 \in CallsTo(t) /\ callbacks'[i] = callbacks[i + 1]
    BY <2>2, TailCalls
  <2>4. PICK n \in Nat : n = Len(queue[s])
    BY <2>1
  <2>5. PICK q : q = queue[s]
    OBVIOUS
  <2>6. PICK new : new = queue'[s]
    OBVIOUS
  <2>7. /\ Len(q) = n /\ Len(new) = n + 1 - d /\ new[n + 1 - d] = x
        /\ \A i \in 1..(n - d) : new[i] = q[i + d]
    <3>1. (n + 1 - d) - 1 = n - d
      OBVIOUS
    <3> QED BY <2>1, <2>4, <2>5, <2>6, <3>1
  <2>8. \A i \in 1..(n + 1 - d) :
          i = n + 1 - d \/ (i \in 1..(n - d) /\ i + d \in 1..n /\ new[i] = q[i + d])
    <3> SUFFICES ASSUME NEW i \in 1..(n + 1 - d), i # n + 1 - d
                 PROVE  i \in 1..(n - d) /\ i + d \in 1..n
      BY <2>7
    <3> QED OBVIOUS
  <2>9. ASSUME NEW t \in Subscribers
        PROVE  /\ \A i, j \in CallsTo(t)' : i < j => Before(callbacks'[i].item, callbacks'[j].item)
               /\ \A i \in 1..Len(got[t]) : \A j \in CallsTo(t)' :
                    Before(got[t][i], callbacks'[j].item)
               /\ \A i \in CallsTo(t)' : Fits(t, callbacks'[i].item)
    <3>1. \A i, j \in CallsTo(t)' : i < j => i + 1 < j + 1
      BY <2>3
    <3> QED BY <1>0, <2>3, <3>1 DEF Order, Recent
  <2>10. \A t \in Subscribers : \A y : Fits(t, y) => Fits(t, y)'
    BY <2>2 DEF Fits
  <2>11. ASSUME NEW t \in Subscribers \ {s} PROVE Order(t)' /\ Recent(t)'
    <3>1. /\ queue'[t] = queue[t] /\ got'[t] = got[t] /\ since'[t] = since[t]
          /\ UNCHANGED <<published, publishing, state>>
      BY <2>1, <2>2
    <3>2. \A i \in 1..Len(queue[t]) : \A j \in CallsTo(t)' : Before(queue[t][i], callbacks'[j].item)
      BY <1>0, <2>3 DEF Order
    <3>3. Order(t)'
      BY <1>0, <2>9, <3>1, <3>2 DEF Order
    <3> QED BY <1>0, <2>9, <2>10, <3>1, <3>3 DEF Recent
  <2>12. /\ \A j \in 1..n : Before(q[j], x) /\ Fits(s, q[j])
         /\ \A j \in CallsTo(s)' : Before(x, callbacks'[j].item)
         /\ \A i \in 1..Len(got[s]) : Before(got[s][i], x)
         /\ Fits(s, x)
    <3>1. \A j \in CallsTo(s)' : 1 < j + 1
      BY <2>3
    <3> QED BY <1>0, <2>1, <2>3, <2>4, <2>5, <3>1 DEF Order, Recent
  <2>13. \A i, j \in 1..(n + 1 - d) : i < j => Before(new[i], new[j])
    <3> SUFFICES ASSUME NEW i \in 1..(n + 1 - d), NEW j \in 1..(n + 1 - d), i < j
                 PROVE  Before(new[i], new[j])
      OBVIOUS
    <3>1. i # n + 1 - d
      OBVIOUS
    <3>2. i + d \in 1..n /\ new[i] = q[i + d]
      BY <2>8, <3>1
    <3>3. CASE j = n + 1 - d
      BY <2>7, <2>12, <3>2, <3>3
    <3>4. CASE j # n + 1 - d
      <4>1. j + d \in 1..n /\ new[j] = q[j + d] /\ i + d < j + d
        BY <2>8, <3>4
      <4>2. \A k, l \in 1..n : k < l => Before(q[k], q[l])
        BY <1>0, <2>4, <2>5 DEF Order
      <4> QED BY <3>2, <4>1, <4>2
    <3> QED BY <3>3, <3>4
  <2>14. \A i \in 1..(n + 1 - d) :
           /\ Fits(s, new[i])
           /\ \A j \in CallsTo(s)' : Before(new[i], callbacks'[j].item)
           /\ \A j \in 1..Len(got[s]) : Before(got[s][j], new[i])
    <3> SUFFICES ASSUME NEW i \in 1..(n + 1 - d)
                 PROVE  /\ Fits(s, new[i])
                        /\ \A j \in CallsTo(s)' : Before(new[i], callbacks'[j].item)
                        /\ \A j \in 1..Len(got[s]) : Before(got[s][j], new[i])
      OBVIOUS
    <3>1. CASE i = n + 1 - d
      BY <2>7, <2>12, <3>1
    <3>2. CASE i # n + 1 - d
      <4>1. i + d \in 1..n /\ new[i] = q[i + d]
        BY <2>8, <3>2
      <4>2. \A j \in CallsTo(s)' : Before(q[i + d], callbacks[j + 1].item)
        BY <1>0, <2>3, <2>4, <2>5, <4>1 DEF Order
      <4>3. \A j \in 1..Len(got[s]) : Before(got[s][j], q[i + d])
        BY <1>0, <2>4, <2>5, <4>1 DEF Order
      <4> QED BY <2>3, <2>12, <4>1, <4>2, <4>3
    <3> QED BY <3>1, <3>2
  <2>15. Order(s)'
    BY <1>0, <2>2, <2>6, <2>7, <2>9, <2>13, <2>14 DEF Order
  <2>16. Recent(s)'
    BY <1>0, <2>2, <2>6, <2>7, <2>9, <2>10, <2>14 DEF Recent
  <2> QED BY <2>11, <2>15, <2>16 DEF Ordered
<1>7. ASSUME NEW s \in Subscribers, Iterate(s) PROVE Ordered'
  <2>1. PICK q \in Seq(Nat), g \in Seq(Nat) : q = queue[s] /\ g = got[s]
    BY DEF TypeOK
  <2>2. /\ q # <<>> /\ queue' = [queue EXCEPT ![s] = Tail(q)] /\ state[s] = "open"
        /\ \/ got' = got
           \/ got' = [got EXCEPT ![s] = Append(g, Head(q))]
        /\ state' = state \/ state' = [state EXCEPT ![s] = "ended"]
        /\ UNCHANGED <<published, publishing, callbacks, since>>
    BY <1>7, <2>1 DEF Iterate, TypeOK
  <2>3. \A t \in Subscribers : CallsTo(t)' = CallsTo(t)
    BY <2>2, SameCalls
  <2>4. ASSUME NEW t \in Subscribers \ {s} PROVE Order(t)' /\ Recent(t)'
    <3>1. queue'[t] = queue[t] /\ got'[t] = got[t] /\ (state'[t] = "none" => state[t] = "none")
      BY <2>2, SMTT(40) DEF TypeOK
    <3> QED BY <1>0, <2>2, <2>3, <3>1, SameOrder
  <2>5. PICK m \in Nat, n \in Nat : m = Len(g) /\ n + 1 = Len(q)
    <3>1. Len(g) \in Nat /\ Len(q) \in Nat /\ Len(q) # 0
      BY <2>2
    <3>2. Len(q) - 1 \in Nat /\ (Len(q) - 1) + 1 = Len(q)
      BY <3>1
    <3> QED BY <3>1, <3>2
  <2>6. PICK r : r = queue'[s]
    OBVIOUS
  <2>7. PICK h : h = got'[s]
    OBVIOUS
  <2>8. Len(r) = n /\ \A i \in 1..n : r[i] = q[i + 1] /\ i + 1 \in 1..(n + 1)
    <3>1. r = Tail(q)
      BY <2>2, <2>6 DEF TypeOK
    <3> QED BY <2>2, <2>5, <3>1
  <2>9. \/ Len(h) = m /\ \A i \in 1..m : h[i] = g[i]
        \/ Len(h) = m + 1 /\ h[m + 1] = q[1] /\ \A i \in 1..m : h[i] = g[i]
    <3>1. CASE got' = got
      BY <2>1, <2>5, <2>7, <3>1
    <3>2. CASE got' = [got EXCEPT ![s] = Append(g, Head(q))]
      <4>1. h = Append(g, q[1]) /\ q[1] \in Nat
        BY <2>1, <2>2, <2>7, <3>2 DEF TypeOK
      <4> QED BY <2>5, <4>1
    <3> QED BY <2>2, <3>1, <3>2
  <2>10. /\ 1 \in 1..(n + 1) /\ \A i \in 1..n : 1 < i + 1
         /\ \A i, j \in 1..n : i < j => i + 1 < j + 1
         /\ \A i \in 1..(m + 1) : i \in 1..m \/ i = m + 1
         /\ \A i \in 1..m : i < m + 1
    OBVIOUS
  <2>11. /\ \A i, j \in 1..m : i < j => Before(g[i], g[j])
         /\ \A i, j \in 1..(n + 1) : i < j => Before(q[i], q[j])
         /\ \A i \in 1..m : \A j \in 1..(n + 1) : Before(g[i], q[j])
         /\ \A j \in CallsTo(s) : /\ \A i \in 1..m : Before(g[i], callbacks[j].item)
                                  /\ \A i \in 1..(n + 1) : Before(q[i], callbacks[j].item)
         /\ \A i \in 1..m : Fits(s, g[i])
         /\ \A i \in 1..(n + 1) : Fits(s, q[i])
    BY <1>0, <2>1, <2>5 DEF Order, Recent
  <2>12. /\ \A i, j \in 1..n : i < j => Before(r[i], r[j])
         /\ \A i \in 1..n : Fits(s, r[i])
         /\ \A j \in CallsTo(s) : \A i \in 1..n : Before(r[i], callbacks[j].item)
    BY <2>8, <2>10, <2>11
  <2>13. /\ \A i, j \in 1..Len(h) : i < j => Before(h[i], h[j])
         /\ \A i \in 1..Len(h) : \A j \in 1..n : Before(h[i], r[j])
         /\ \A j \in CallsTo(s) : \A i \in 1..Len(h) : Before(h[i], callbacks[j].item)
         /\ \A i \in 1..Len(h) : Fits(s, h[i])
    <3>1. CASE Len(h) = m /\ \A i \in 1..m : h[i] = g[i]
      BY <2>8, <2>11, <3>1
    <3>2. CASE Len(h) = m + 1 /\ h[m + 1] = q[1] /\ \A i \in 1..m : h[i] = g[i]
      <4>1. ASSUME NEW i \in 1..(m + 1), NEW j \in 1..(m + 1), i < j PROVE Before(h[i], h[j])
        <5>1. i \in 1..m
          BY <4>1
        <5>2. j \in 1..m \/ j = m + 1
          BY <2>10
        <5> QED BY <2>10, <2>11, <3>2, <4>1, <5>1, <5>2
      <4>2. \A i \in 1..(m + 1) :
              /\ \A j \in 1..n : Before(h[i], r[j])
              /\ \A j \in CallsTo(s) : Before(h[i], callbacks[j].item)
              /\ Fits(s, h[i])
        BY <2>8, <2>10, <2>11, <3>2
      <4> QED BY <3>2, <4>1, <4>2
    <3> QED BY <2>9, <3>1, <3>2
  <2>14. Order(s)'
    BY <1>0, <2>2, <2>3, <2>6, <2>7, <2>8, <2>12, <2>13 DEF Order
  <2>15. \A y : Fits(s, y) => Fits(s, y)'
    BY <2>2 DEF Fits
  <2>16. state'[s] # "none"
    BY <2>2 DEF TypeOK
  <2>17. Recent(s)'
    BY <1>0, <2>2, <2>3, <2>6, <2>7, <2>8, <2>12, <2>13, <2>15, <2>16 DEF Recent
  <2> QED BY <2>4, <2>14, <2>17 DEF Ordered
<1>8. CASE \/ Close \/ UNCHANGED vars \/ \E s \in Subscribers : Unsubscribe(s)
  <2>1. /\ UNCHANGED <<published, publishing, callbacks, queue, since, got>>
        /\ \A t \in Subscribers : state'[t] = "none" => state[t] = "none"
    BY <1>8 DEF Close, vars, Unsubscribe, TypeOK
  <2>2. \A t \in Subscribers : CallsTo(t)' = CallsTo(t)
    BY <2>1, SameCalls
  <2>3. ASSUME NEW t \in Subscribers PROVE Order(t)' /\ Recent(t)'
    BY <1>0, <2>1, <2>2, SameOrder
  <2> QED BY <2>3 DEF Ordered
<1> QED BY <1>1, <1>2, <1>4, <1>5, <1>6, <1>7, <1>8 DEF Next

----------------------------------------------------------------------------
\* Where a chunk published to s may be.
Somewhere(s, c) ==
  \/ c \in ToSet(got[s]) \cup ToSet(queue[s]) \cup dropped[s]
  \/ \E i \in CallsTo(s) : callbacks[i].item = c
  \/ c = published /\ s \in publishing

LEMMA OnlyOverflowDropsStep ==
  ASSUME TypeOK, Lists, OnlyOverflowDrops, [Next]_vars
  PROVE  OnlyOverflowDrops'
<1>0. \A t \in subscribers : \A c \in (since[t] + 1)..published : Somewhere(t, c)
  BY DEF OnlyOverflowDrops, Somewhere
<1>00. ASSUME \A t \in subscribers' : \A c \in (since'[t] + 1)..published' : Somewhere(t, c)'
       PROVE  OnlyOverflowDrops'
  BY <1>00 DEF OnlyOverflowDrops, Somewhere
<1>1. ASSUME NEW s \in Subscribers, Subscribe(s) PROVE OnlyOverflowDrops'
  <2>1. /\ state[s] = "none" /\ since' = [since EXCEPT ![s] = published]
        /\ UNCHANGED <<published, publishing, callbacks, got, dropped>>
        /\ \/ closed /\ subscribers' = subscribers
           \/ subscribers' = subscribers \cup {s} /\ queue' = queue
    BY <1>1 DEF Subscribe
  <2>2. closed => subscribers = {}
    BY DEF Lists
  <2>3. \A t \in Subscribers : CallsTo(t)' = CallsTo(t)
    BY <2>1, SameCalls
  <2>4. ASSUME NEW t \in subscribers', NEW c \in (since'[t] + 1)..published' PROVE Somewhere(t, c)'
    <3>1. queue' = queue
      BY <2>1, <2>2
    <3>2. CASE t = s
      <4>1. since'[t] = published /\ published \in Nat /\ published' = published
        BY <2>1, <3>2 DEF TypeOK
      <4> QED BY <4>1
    <3>3. CASE t # s
      <4>1. t \in subscribers /\ t \in Subscribers /\ since'[t] = since[t]
        BY <2>1, <2>2, <3>3 DEF TypeOK
      <4> QED BY <1>0, <2>1, <2>3, <3>1, <4>1 DEF Somewhere
    <3> QED BY <3>2, <3>3
  <2> QED BY <1>00, <2>4
<1>2. CASE Publish
  <2>1. /\ publishing = {} /\ published' = published + 1 /\ publishing' = subscribers
        /\ UNCHANGED <<subscribers, callbacks, queue, since, got, dropped>>
    BY <1>2 DEF Publish
  <2>2. \A t \in Subscribers : CallsTo(t)' = CallsTo(t)
    BY <2>1, SameCalls
  <2>3. ASSUME NEW t \in subscribers', NEW c \in (since'[t] + 1)..published' PROVE Somewhere(t, c)'
    <3>1. since[t] \in Nat /\ published \in Nat /\ t \in Subscribers /\ t \in subscribers
      BY <2>1 DEF TypeOK
    <3>2. c = published + 1 \/ c \in (since[t] + 1)..published
      BY <2>1, <3>1
    <3> QED BY <1>0, <2>1, <2>2, <3>1, <3>2 DEF Somewhere
  <2> QED BY <1>00, <2>3
<1>3. ASSUME NEW s \in Subscribers, NEW x \in Nat,
             callbacks' = Append(callbacks, [to |-> s, item |-> x]),
             \/ x = published /\ publishing' = publishing \ {s}
             \/ publishing' = publishing,
             UNCHANGED <<subscribers, published, queue, since, got, dropped>>
      PROVE  OnlyOverflowDrops'
  <2>1. PICK c \in Calls : c = [to |-> s, item |-> x] /\ c.to = s /\ c.item = x
    <3>1. [to |-> s, item |-> x] \in Calls
      BY DEF Calls
    <3> QED BY <3>1
  <2>2. callbacks \in Seq(Calls) /\ callbacks' = Append(callbacks, c)
    BY <1>3, <2>1 DEF TypeOK, Calls
  <2>3. PICK n \in Nat : n = Len(callbacks)
    BY <2>2
  <2>4. \A t \in Subscribers :
          /\ \A i \in CallsTo(t) : i \in CallsTo(t)' /\ callbacks'[i] = callbacks[i]
          /\ t = s => n + 1 \in CallsTo(t)' /\ callbacks'[n + 1].item = x
    BY <2>1, <2>2, <2>3, AppendCalls
  <2>5. ASSUME NEW t \in subscribers', NEW e \in (since'[t] + 1)..published' PROVE Somewhere(t, e)'
    <3>1. t \in subscribers /\ t \in Subscribers /\ e \in (since[t] + 1)..published
      BY <1>3 DEF TypeOK
    <3> QED BY <1>0, <1>3, <2>4, <3>1 DEF Somewhere
  <2> QED BY <1>00, <2>5
<1>4. ASSUME NEW s \in Subscribers, HandOver(s) PROVE OnlyOverflowDrops'
  BY <1>3, <1>4 DEF HandOver, TypeOK
<1>5. ASSUME NEW s \in Subscribers, HandOverEnd(s) PROVE OnlyOverflowDrops'
  BY <1>3, <1>5 DEF HandOverEnd, End
<1>6. CASE RunCallback
  <2>1. PICK s \in Subscribers, x \in Nat, d \in {0, 1} :
           /\ 1 \in CallsTo(s) /\ x = callbacks[1].item
           /\ \A t \in Subscribers \ {s} : queue'[t] = queue[t] /\ dropped'[t] = dropped[t]
           /\ Len(queue[s]) \in Nat /\ Len(queue'[s]) = Len(queue[s]) + 1 - d
           /\ queue'[s][Len(queue'[s])] = x
           /\ dropped'[s] = dropped[s] \cup (ToSet(queue[s]) \ ToSet(queue'[s]))
           /\ d = 1 => Len(queue[s]) = QueueSize
    BY <1>6, RunFacts
  <2>2. /\ callbacks \in Seq(Calls) /\ callbacks # <<>> /\ callbacks' = Tail(callbacks)
        /\ UNCHANGED <<subscribers, published, publishing, since, got>>
    BY <1>6 DEF RunCallback, TypeOK, Calls
  <2>3. \A t \in Subscribers : \A i \in CallsTo(t) : i = 1 \/ (i \in Nat /\ i - 1 \in CallsTo(t)')
    BY <2>2, TailCalls
  <2>4. \A t \in Subscribers : \A i \in CallsTo(t)' :
          /\ i \in Nat /\ callbacks'[i] = callbacks[i + 1]
    BY <2>2, TailCalls
  <2>5. x \in ToSet(queue'[s])
    <3>1. PICK new \in Seq(Nat) : new = queue'[s]
      BY TypesStep DEF TypeOK
    <3>2. PICK n \in Nat : n = Len(queue[s])
      BY <2>1
    <3>3. Len(new) = n + 1 - d /\ n + 1 - d >= 1
      BY <2>1, <3>1, <3>2, QueueAssumption
    <3>4. Len(new) \in DOMAIN new /\ new[Len(new)] = x
      BY <2>1, <3>1, <3>3
    <3> QED BY <3>1, <3>4 DEF ToSet
  <2>6. \A t \in Subscribers \ {s} : 1 \notin CallsTo(t)
    BY <2>1 DEF CallsTo
  <2>7. \A t \in Subscribers : \A c : (\E i \in CallsTo(t) : callbacks[i].item = c)
          => (t = s /\ c = x) \/ \E i \in CallsTo(t)' : callbacks'[i].item = c
    <3> SUFFICES ASSUME NEW t \in Subscribers, NEW i \in CallsTo(t)
                 PROVE  \/ t = s /\ callbacks[i].item = x
                        \/ \E j \in CallsTo(t)' : callbacks'[j].item = callbacks[i].item
      OBVIOUS
    <3>1. CASE i = 1
      BY <2>1, <2>6, <3>1
    <3>2. CASE i # 1
      <4>1. i \in Nat /\ i - 1 \in CallsTo(t)' /\ (i - 1) + 1 = i
        BY <2>3, <3>2
      <4>2. callbacks'[i - 1] = callbacks[i]
        BY <2>4, <4>1
      <4> QED BY <4>1, <4>2
    <3> QED BY <3>1, <3>2
  <2>8. \A t \in Subscribers : ToSet(queue[t]) \cup dropped[t] \subseteq ToSet(queue'[t]) \cup dropped'[t]
    BY <2>1
  <2>9. ASSUME NEW t \in subscribers', NEW c \in (since'[t] + 1)..published' PROVE Somewhere(t, c)'
    <3>1. t \in Subscribers /\ Somewhere(t, c)
      BY <1>0, <2>2 DEF TypeOK
    <3> QED BY <2>2, <2>5, <2>7, <2>8, <3>1, ZenonT(60) DEF Somewhere
  <2> QED BY <1>00, <2>9
<1>7. ASSUME NEW s \in Subscribers, Iterate(s) PROVE OnlyOverflowDrops'
  <2>1. PICK q \in Seq(Nat), g \in Seq(Nat) : q = queue[s] /\ g = got[s]
    BY DEF TypeOK
  <2>2. /\ q # <<>> /\ queue' = [queue EXCEPT ![s] = Tail(q)]
        /\ \/ got' = got /\ Head(q) = End
           \/ got' = [got EXCEPT ![s] = Append(g, Head(q))]
        /\ UNCHANGED <<subscribers, published, publishing, callbacks, since, dropped>>
    BY <1>7, <2>1 DEF Iterate, TypeOK
  <2>3. \A t \in Subscribers : CallsTo(t)' = CallsTo(t)
    BY <2>2, SameCalls
  <2>4. ToSet(q) \subseteq {Head(q)} \cup ToSet(Tail(q))
    <3>0. DOMAIN q = 1..Len(q) /\ Head(q) = q[1]
      BY <2>2
    <3> SUFFICES ASSUME NEW i \in 1..Len(q), i # 1 PROVE q[i] \in ToSet(Tail(q))
      BY <3>0 DEF ToSet
    <3>1. Tail(q) \in Seq(Nat) /\ i - 1 \in 1..Len(Tail(q)) /\ Tail(q)[i - 1] = q[i]
      BY <2>2
    <3>2. i - 1 \in DOMAIN Tail(q)
      BY <3>1
    <3> QED BY <3>1, <3>2 DEF ToSet
  <2>5. \A y \in Nat : ToSet(g) \cup {y} \subseteq ToSet(Append(g, y))
    <3> SUFFICES ASSUME NEW y \in Nat PROVE ToSet(g) \cup {y} \subseteq ToSet(Append(g, y))
      OBVIOUS
    <3>0. Append(g, y) \in Seq(Nat)
      OBVIOUS
    <3>1. PICK h \in Seq(Nat) : h = Append(g, y)
      BY <3>0
    <3>2. /\ Len(h) = Len(g) + 1 /\ Len(g) \in Nat /\ h[Len(g) + 1] = y
          /\ \A i \in 1..Len(g) : h[i] = g[i]
      BY <3>1
    <3>3. DOMAIN h = 1..(Len(g) + 1) /\ DOMAIN g = 1..Len(g)
      BY <3>2
    <3> QED BY <3>1, <3>2, <3>3 DEF ToSet
  <2>6. ASSUME NEW t \in subscribers', NEW c \in (since'[t] + 1)..published' PROVE Somewhere(t, c)'
    <3>1. t \in Subscribers /\ Somewhere(t, c) /\ since[t] \in Nat
      BY <1>0, <2>2 DEF TypeOK
    <3>2. c # End
      BY <2>2, <3>1 DEF End
    <3>3. CASE t # s
      <4>1. queue'[t] = queue[t] /\ got'[t] = got[t]
        BY <2>2, <3>3 DEF TypeOK
      <4> QED BY <2>2, <2>3, <3>1, <4>1 DEF Somewhere
    <3>4. CASE t = s
      <4>1. queue'[s] = Tail(q) /\ (got'[s] = g \/ got'[s] = Append(g, Head(q)))
        BY <2>1, <2>2 DEF TypeOK
      <4>2. Head(q) \in Nat
        BY <2>2
      <4>3. ToSet(g) \subseteq ToSet(got'[s])
        BY <2>5, <4>1, <4>2
      <4>4. c \in ToSet(q) => c \in ToSet(got'[s]) \cup ToSet(queue'[s])
        <5>1. CASE c = Head(q)
          <6>1. got'[s] = Append(g, Head(q))
            BY <2>1, <2>2, <3>2, <5>1 DEF TypeOK
          <6> QED BY <2>5, <4>2, <5>1, <6>1
        <5>2. CASE c # Head(q)
          BY <2>4, <4>1, <5>2
        <5> QED BY <5>1, <5>2
      <4> QED BY <2>1, <2>2, <2>3, <3>1, <3>4, <4>3, <4>4 DEF Somewhere
    <3> QED BY <3>3, <3>4
  <2> QED BY <1>00, <2>6
<1>8. CASE \/ Close \/ UNCHANGED vars \/ \E s \in Subscribers : Unsubscribe(s)
  <2>1. /\ UNCHANGED <<published, publishing, callbacks, queue, since, got, dropped>>
        /\ subscribers' \subseteq subscribers /\ subscribers \subseteq Subscribers
    BY <1>8 DEF Close, vars, Unsubscribe, TypeOK
  <2>2. \A t \in Subscribers : CallsTo(t)' = CallsTo(t)
    BY <2>1, SameCalls
  <2>3. ASSUME NEW t \in subscribers', NEW c \in (since'[t] + 1)..published' PROVE Somewhere(t, c)'
    <3>1. t \in Subscribers /\ Somewhere(t, c)
      BY <1>0, <2>1
    <3> QED BY <2>1, <2>2, <3>1 DEF Somewhere
  <2> QED BY <1>00, <2>3
<1> QED BY <1>1, <1>2, <1>4, <1>5, <1>6, <1>7, <1>8 DEF Next

----------------------------------------------------------------------------
IInv == TypeOK /\ Lists /\ OneBehind /\ EndSurvives /\ Ordered /\ OnlyOverflowDrops

\* The inductive invariant of MediaStream.
THEOREM StreamInvariant == Spec => []IInv
<1>1. Init => IInv
  <2> SUFFICES ASSUME Init PROVE IInv
    OBVIOUS
  <2> USE DEF Init
  <2>1. \A t \in Subscribers : Ends(t) = {} /\ CallsTo(t) = {} /\ EndsTo(t) = {}
    <3>1. Len(callbacks) = 0 /\ \A t \in Subscribers : Len(queue[t]) = 0
      OBVIOUS
    <3>2. \A i \in 1..0 : FALSE
      OBVIOUS
    <3> QED BY ONLY <3>1, <3>2 DEF Ends, CallsTo, EndsTo
  <2>2. TypeOK
    <3>1. QueueSize \in Nat /\ QueueSize >= 0 /\ callbacks \in Seq([to : Subscribers, item : Nat])
      BY QueueAssumption
    <3>2. /\ queue \in [Subscribers -> Seq(Nat)] /\ got \in [Subscribers -> Seq(Nat)]
          /\ \A t \in Subscribers : queue[t] = <<>> /\ Len(<<>>) = 0
      OBVIOUS
    <3>3. \A t \in Subscribers : Len(queue[t]) <= QueueSize
      BY ONLY <3>1, <3>2
    <3>4. since \in [Subscribers -> Nat] /\ dropped \in [Subscribers -> SUBSET Nat]
      OBVIOUS
    <3>5. published \in Nat
      OBVIOUS
    <3> QED BY <3>1, <3>2, <3>3, <3>4, <3>5 DEF TypeOK
  <2>3. Lists /\ OneBehind /\ EndSurvives
    BY <2>1 DEF Lists, OneBehind, Behind, EndSurvives
  <2>4. Ordered
    <3>1. \A t \in Subscribers : Len(queue[t]) = 0 /\ Len(got[t]) = 0
      OBVIOUS
    <3> QED BY <2>1, <3>1 DEF Ordered, Order, Recent
  <2>5. OnlyOverflowDrops
    BY DEF OnlyOverflowDrops
  <2> QED BY <2>2, <2>3, <2>4, <2>5 DEF IInv
<1>2. IInv /\ [Next]_vars => IInv'
  BY TypesStep, ListsStep, OneBehindStep, EndSurvivesStep, OrderedStep, OnlyOverflowDropsStep
  DEF IInv
<1> QED BY <1>1, <1>2, PTL DEF Spec

\* The fields of the stream have their types, and no queue outgrows its size.
THEOREM StreamTyped == Spec => []TypeOK
<1>1. IInv => TypeOK
  BY DEF IInv
<1> QED BY <1>1, StreamInvariant, PTL

\* Overflow never costs an iterator the end marker, however the threads that
\* publish and close interleave with the event loop.
THEOREM EndIsKept == Spec => []EndSurvives
<1>1. IInv => EndSurvives
  BY DEF IInv
<1> QED BY <1>1, StreamInvariant, PTL

\* What a subscription gets is in the order of publication, without repetition.
THEOREM OrderIsKept == Spec => []ChunksInOrder
<1>1. IInv => ChunksInOrder
  <2> SUFFICES ASSUME IInv, NEW s \in Subscribers, NEW kept, kept = got[s] \o queue[s]
               PROVE  /\ \A j \in 1..Len(kept) :
                           /\ Before(since[s], kept[j])
                           /\ \A i \in 1..(j - 1) : Before(kept[i], kept[j])
                      /\ \A j \in CallsTo(s) :
                           /\ Before(since[s], callbacks[j].item)
                           /\ \A i \in 1..Len(kept) : Before(kept[i], callbacks[j].item)
                           /\ \A i \in CallsTo(s) : i < j => Before(callbacks[i].item, callbacks[j].item)
    BY DEF ChunksInOrder
  <2>1. Order(s) /\ Recent(s)
    BY DEF IInv, Ordered
  <2>2. PICK g \in Seq(Nat), q \in Seq(Nat) : g = got[s] /\ q = queue[s]
    BY DEF IInv, TypeOK
  <2>3. PICK m \in Nat, n \in Nat : m = Len(g) /\ n = Len(q)
    OBVIOUS
  <2>4. Len(kept) = m + n /\ \A i \in 1..(m + n) : kept[i] = IF i <= m THEN g[i] ELSE q[i - m]
    <3>1. kept = g \o q
      BY <2>2
    <3> QED BY <2>3, <3>1, ConcatProperties
  <2>5. \A i \in 1..(m + n) : i <= m => i \in 1..m
    OBVIOUS
  <2>6. \A i \in 1..(m + n) : ~(i <= m) => i - m \in 1..n
    OBVIOUS
  <2>7. \A y : Fits(s, y) => Before(since[s], y)
    BY DEF Fits, Before
  <2>8. \A j \in 1..(m + n) :
          /\ Before(since[s], kept[j])
          /\ \A i \in CallsTo(s) : Before(kept[j], callbacks[i].item)
    <3> SUFFICES ASSUME NEW j \in 1..(m + n)
                 PROVE  /\ Before(since[s], kept[j])
                        /\ \A i \in CallsTo(s) : Before(kept[j], callbacks[i].item)
      OBVIOUS
    <3>1. CASE j <= m
      <4>1. j \in 1..Len(got[s]) /\ kept[j] = got[s][j]
        BY <2>2, <2>3, <2>4, <2>5, <3>1
      <4> QED BY <2>1, <2>7, <4>1 DEF Order, Recent
    <3>2. CASE ~(j <= m)
      <4>1. j - m \in 1..Len(queue[s]) /\ kept[j] = queue[s][j - m]
        BY <2>2, <2>3, <2>4, <2>6, <3>2
      <4> QED BY <2>1, <2>7, <4>1 DEF Order, Recent
    <3> QED BY <3>1, <3>2
  <2>9. ASSUME NEW j \in 1..(m + n), NEW i \in 1..(j - 1) PROVE Before(kept[i], kept[j])
    <3>1. i \in 1..(m + n) /\ i < j
      OBVIOUS
    <3>2. CASE j <= m
      <4>1. i \in 1..m /\ j \in 1..m
        BY <3>1, <3>2
      <4>2. kept[i] = got[s][i] /\ kept[j] = got[s][j] /\ m = Len(got[s])
        BY <2>2, <2>3, <2>4, <3>1, <4>1
      <4> QED BY <2>1, <3>1, <4>1, <4>2 DEF Order
    <3>3. CASE ~(j <= m) /\ i <= m
      <4>1. i \in 1..m /\ j - m \in 1..n
        BY <3>1, <3>3
      <4> QED BY <2>1, <2>2, <2>3, <2>4, <3>1, <3>3, <4>1 DEF Order
    <3>4. CASE ~(j <= m) /\ ~(i <= m)
      <4>1. i - m \in 1..n /\ j - m \in 1..n /\ i - m < j - m
        BY <3>1, <3>4
      <4> QED BY <2>1, <2>2, <2>3, <2>4, <3>1, <3>4, <4>1 DEF Order
    <3> QED BY <3>2, <3>3, <3>4
  <2>10. \A j \in CallsTo(s) :
           /\ Before(since[s], callbacks[j].item)
           /\ \A i \in CallsTo(s) : i < j => Before(callbacks[i].item, callbacks[j].item)
    BY <2>1, <2>7 DEF Order, Recent
  <2> QED BY <2>4, <2>8, <2>9, <2>10
<1> QED BY <1>1, StreamInvariant, PTL

\* A subscription misses nothing but what overflow evicted.
THEOREM NothingElseIsLost == Spec => []OnlyOverflowDrops
<1>1. IInv => OnlyOverflowDrops
  BY DEF IInv
<1> QED BY <1>1, StreamInvariant, PTL
==============================================================================
