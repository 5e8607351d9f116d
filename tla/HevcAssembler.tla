---------------------------- MODULE HevcAssembler ----------------------------
(***************************************************************************)
(* HevcAssembler (nexxt/media.py): the NAL units of the video conversation *)
(* arrive whole or cut into fragments, each in a record of its own.  What  *)
(* is abstract is the payload: a fragment is the number of its NAL unit,   *)
(* its place among the n fragments, and what its FU header says.           *)
(***************************************************************************)
EXTENDS Naturals, Sequences

\* the record of the i-th of n fragments of NAL unit nal, as the camera cuts it
Fragment(nal, i, n) ==
  [nal |-> nal, i |-> i, n |-> n, start |-> i = 1, end |-> i = n]

NoFu == <<>>   \* _fu_buffer is None

FuTypeOf(fu) == fu[1].nal.kind

Result(buffer, nals) == [fu |-> buffer, nals |-> nals]

FedKeepingStart(fu, f) ==
  LET grown == Append(fu, f)
  IN  IF f.n = 1 THEN Result(NoFu, {<<f>>})
      ELSE IF (fu = NoFu /\ ~f.start) \/ (fu # NoFu /\ f.nal.kind # FuTypeOf(fu))
           THEN Result(NoFu, {})
           ELSE IF f.end THEN Result(NoFu, {grown}) ELSE Result(grown, {})

\* feed: the buffer afterwards and the NAL units completed, none or one.  A NAL
\* unit that is whole drops an unfinished one; so do a START and a fragment of
\* another type; a fragment without START is dropped itself.
Fed(fu, f) ==
  LET grown == IF f.start THEN <<f>> ELSE Append(fu, f)
  IN  IF f.n = 1 THEN Result(NoFu, {<<f>>})
      ELSE IF ~f.start /\ (fu = NoFu \/ f.nal.kind # FuTypeOf(fu)) THEN Result(NoFu, {})
      ELSE IF f.end THEN Result(NoFu, {grown}) ELSE Result(grown, {})

\* one NAL unit, from its START to its END, in order and nothing twice
Unmixed(nal) ==
  /\ nal[1].i = 1 /\ nal[Len(nal)].i = nal[1].n
  /\ \A j \in 2..Len(nal) : nal[j].nal = nal[1].nal /\ nal[j - 1].i < nal[j].i
=============================================================================
