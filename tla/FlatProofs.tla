----------------------------- MODULE FlatProofs -----------------------------
(***************************************************************************)
(* The continuation list implements the flat file of FlatFile, for one     *)
(* writer that writes continuously and block by block and any number of    *)
(* readers and of tasks that call fsync.                                   *)
(***************************************************************************)
EXTENDS FlatView, OneWriterProofs, SizeProofs, SequenceTheorems

\* Writes of one block, into parts that have room for theirs; no truncate,
\* which only reaches the head, and no chmod
Blockwise == WriteLens \subseteq {1} /\ MaxPart = CLen /\ "setattr" \notin Calls

-----------------------------------------------------------------------------
(* The inductive invariant                                                 *)

\* The parts are filled one after the other, up to the end of the data
Filled ==
    \A k \in Chunks :
        /\ wend <= StartOf(k) => data[k] = <<>>
        /\ wend > StartOf(k) => Len(data[k]) = Least(wend - StartOf(k), CLen)

\* What a call has and may return
InCall(t) ==
    /\ pc[t] \in {"idle", "open"} => call[t] = NoCall
    /\ pc[t] \notin {"idle", "open"} => call[t].op \in {"open", "fsync"} \cup Reads \cup Writes
    /\ pc[t] \notin {"idle", "open", "up", "sum"} => res[t] = <<>>
    /\ call[t].lo <= wend
    /\ call[t].op = "open" => call[t].at = 0
    /\ call[t].op \in Reads => call[t].n > 0
    /\ call[t].op \in Writes => call[t].n = 1 /\ call[t].at <= wend

\* A read that does not get to a part was called at or after the end of the
\* file: the list did not reach its offset
NotBefore(t) ==
    pc[t] = "walk" /\ part[t] # 0 /\ cd[t]["next"] = 0 =>
        call[t].lo <= StartOf(part[t]) + CLen

FlatInv == /\ res = [t \in Tasks |-> res[t]]
           /\ Filled
           /\ \A t \in Tasks : InCall(t) /\ NotBefore(t)

\* f_pos is where the call began until it returns, and ppos is past what the
\* client has read or written, from the start of the part
AtPos(t) ==
    /\ pc[t] = "idle" \/ call[t].op = "open" => fpos[t] = 0
    /\ pc[t] = "sum" \/ call[t].op \in {"read", "write", "fsync"} => fpos[t] = call[t].at
    /\ pc[t] \in {"up", "sum"} =>
          /\ res[t] \in Seq(Blocks \cup {Hole})
          /\ call[t].op \in Reads => ppos[t] = (call[t].at % CLen) + Len(res[t])
          /\ call[t].op \in Writes => ppos[t] = (call[t].at % CLen) + 1

PosInv == \A t \in Tasks : AtPos(t)

-----------------------------------------------------------------------------
(* The content of the file                                                 *)

\* The part that the i-th block of the file belongs to, and the block
PartAt(i)  == CHOOSE k \in Chunks : StartOf(k) < i /\ i <= StartOf(k) + CLen
BlockAt(i) == data[PartAt(i)][i - StartOf(PartAt(i))]

\* The blocks from the start of the part in chunk k on
Rest(k) == [i \in 1 .. wend - StartOf(k) |-> BlockAt(StartOf(k) + i)]

\* What the content is read off from
Shape == /\ data \in [Chunks -> Seq(Blocks \cup {Hole})] /\ wend \in Nat
         /\ Filled /\ Within(wend) /\ ForwardLinked

\* The parts are disjoint.
LEMMA PartIs ==
    ASSUME NEW k \in Chunks, NEW i \in Int, StartOf(k) < i, i <= StartOf(k) + CLen
    PROVE  PartAt(i) = k
<1>1. ASSUME NEW m \in Chunks, StartOf(m) < i, i <= StartOf(m) + CLen PROVE m = k
  <2>1. CLen \in Nat /\ StartOf(k) \in Nat /\ StartOf(m) \in Nat
    BY StartFacts, ChunkAssumption
  <2>2. CASE m < k
    <3>1. m + 1 \in Chunks /\ m + 1 <= k
      BY <2>2, ChunkAssumption DEF Chunks
    <3>2. StartOf(m) + CLen <= StartOf(k)
      BY <3>1, StartFacts, StartsGrow
    <3> QED
      BY <1>1, <2>1, <3>2
  <2>3. CASE k < m
    <3>1. k + 1 \in Chunks /\ k + 1 <= m
      BY <2>3, ChunkAssumption DEF Chunks
    <3>2. StartOf(k) + CLen <= StartOf(m)
      BY <3>1, StartFacts, StartsGrow
    <3> QED
      BY <1>1, <2>1, <3>2
  <2> QED
    BY <2>2, <2>3 DEF Chunks
<1> QED
  BY <1>1 DEF PartAt

\* Together they have a place for every block.
LEMMA PartsTile ==
    ASSUME NEW i \in Nat \ {0}, i <= StartOf(NChunks) + CLen
    PROVE  \E k \in Chunks : StartOf(k) < i /\ i <= StartOf(k) + CLen
<1> DEFINE T == {k \in Chunks : i <= StartOf(k) + CLen}
<1>1. T \subseteq Nat /\ NChunks \in T
  BY ChunkAssumption DEF Chunks
<1>2. PICK k \in T : \A m \in T : k <= m
  <2> HIDE DEF T
  <2> QED
    BY <1>1, LeastNat
<1>3. CASE k = HeadPart
  BY <1>3, StartFacts
<1>4. CASE k # HeadPart
  <2>1. k - 1 \in Chunks /\ (k - 1) + 1 = k
    BY <1>4, ChunkAssumption DEF Chunks, HeadPart
  <2>2. k - 1 \notin T
    BY <1>2, <2>1 DEF Chunks
  <2>3. /\ StartOf(k) = StartOf(k - 1) + CLen
        /\ StartOf(k - 1) \in Nat /\ CLen \in Nat
    BY <2>1, StartFacts, ChunkAssumption
  <2> QED
    BY <2>1, <2>2, <2>3
<1> QED
  BY <1>3, <1>4

\* The blocks of a part are those at its place in the file.
LEMMA BlocksOf ==
    ASSUME NEW k \in Chunks, NEW i \in 1 .. CLen
    PROVE  BlockAt(StartOf(k) + i) = data[k][i]
<1>1. StartOf(k) \in Nat /\ CLen \in Nat
  BY StartFacts, ChunkAssumption
<1>2. PartAt(StartOf(k) + i) = k
  <2>1. /\ StartOf(k) + i \in Int /\ StartOf(k) < StartOf(k) + i
        /\ StartOf(k) + i <= StartOf(k) + CLen
    BY <1>1
  <2> QED
    BY <2>1, PartIs
<1>3. (StartOf(k) + i) - StartOf(k) = i
  BY <1>1
<1> QED
  BY <1>2, <1>3 DEF BlockAt

\* Lengths of the parts.
LEMMA PartLens ==
    ASSUME Shape, NEW k \in Chunks
    PROVE  /\ StartOf(k) \in Nat /\ CLen \in Nat \ {0} /\ Len(data[k]) \in 0 .. CLen
           /\ wend <= StartOf(k) <=> data[k] = <<>>
           /\ wend <= StartOf(k) => Len(data[k]) = 0
           /\ wend > StartOf(k) /\ Len(data[k]) < CLen => wend = StartOf(k) + Len(data[k])
           /\ wend > StartOf(k) => wend >= StartOf(k) + Len(data[k])
           /\ Len(data[k]) = CLen => wend >= StartOf(k) + CLen
<1>1. StartOf(k) \in Nat /\ CLen \in Nat \ {0} /\ wend \in Nat
  BY StartFacts, ChunkAssumption DEF Shape
<1>2. Len(data[k]) \in Nat /\ (data[k] = <<>> => Len(data[k]) = 0)
  BY DEF Shape
<1>3. CASE wend <= StartOf(k)
  BY <1>1, <1>2, <1>3 DEF Shape, Filled
<1>4. CASE wend > StartOf(k)
  <2>1. Len(data[k]) = Least(wend - StartOf(k), CLen)
    BY <1>4 DEF Shape, Filled
  <2> QED
    BY <1>1, <1>2, <1>4, <2>1 DEF Least
<1> QED
  BY <1>1, <1>3, <1>4

\* Nothing is behind the last part of the list.
LEMMA DataEnds ==
    ASSUME Shape
    PROVE  wend <= StartOf(NChunks) + CLen /\ StartOf(NChunks) \in Nat /\ NChunks \in Chunks
<1>1. NChunks \in Chunks /\ CLen \in Nat /\ wend \in Nat
  BY ChunkAssumption DEF Chunks, Shape
<1>2. PICK k \in Chunks : wend <= StartOf(k) + CLen
  BY DEF Shape, Within
<1>3. StartOf(k) <= StartOf(NChunks) /\ StartOf(k) \in Nat /\ StartOf(NChunks) \in Nat
  BY <1>1, StartsGrow DEF Chunks
<1> QED
  BY <1>1, <1>2, <1>3

\* A sequence is the function of its elements.
LEMMA SeqIsFun ==
    ASSUME NEW S, NEW w \in Seq(S)
    PROVE  w = [i \in 1 .. Len(w) |-> w[i]]
  OBVIOUS

\* From says what Rest is.
LEMMA RestStep ==
    ASSUME Shape, NEW k \in 1 .. NChunks + 1
    PROVE  Rest(k) = IF k \notin Chunks \/ ~Linked(k) THEN <<>>
                     ELSE IF Len(data[k]) < CLen THEN data[k]
                     ELSE SubSeq(data[k], 1, CLen) \o Rest(k + 1)
<1>0. NChunks \in Chunks /\ NChunks \in Nat /\ wend \in Nat
  BY DataEnds, ChunkAssumption DEF Shape
<1>1. CASE k \notin Chunks
  <2>1. k = NChunks + 1
    BY <1>0, <1>1 DEF Chunks
  <2>2. StartOf(k) = StartOf(NChunks) + CLen
    BY <1>0, <2>1, StartFacts
  <2>3. wend - StartOf(k) <= 0 /\ wend - StartOf(k) \in Int
    BY <1>0, <2>2, DataEnds, ChunkAssumption
  <2>4. Rest(k) = <<>>
    BY <2>3 DEF Rest
  <2> QED
    BY <1>1, <2>4
<1>2. CASE k \in Chunks /\ wend <= StartOf(k)
  <2>1. Rest(k) = <<>> /\ data[k] = <<>> /\ Len(data[k]) < CLen
    <3>1. wend - StartOf(k) <= 0 /\ wend - StartOf(k) \in Int
      BY <1>0, <1>2, PartLens
    <3>2. data[k] = <<>> /\ Len(data[k]) < CLen
      BY <1>0, <1>2, PartLens
    <3> QED
      BY <3>1, <3>2 DEF Rest
  <2> QED
    BY <1>2, <2>1
<1>3. CASE k \in Chunks /\ wend > StartOf(k)
  <2>1. /\ StartOf(k) \in Nat /\ CLen \in Nat \ {0} /\ Len(data[k]) \in 0 .. CLen
        /\ data[k] # <<>> /\ Linked(k)
    <3>1. StartOf(k) \in Nat /\ CLen \in Nat \ {0} /\ Len(data[k]) \in 0 .. CLen /\ data[k] # <<>>
      BY <1>0, <1>3, PartLens
    <3> QED
      BY <1>3, <3>1 DEF Shape, ForwardLinked
  <2>2. data[k] = [i \in 1 .. Len(data[k]) |-> data[k][i]]
    BY <1>3 DEF Shape
  <2>3. CASE Len(data[k]) < CLen
    <3>1. wend - StartOf(k) = Len(data[k])
      BY <1>0, <1>3, <2>1, <2>3, PartLens
    <3>2. \A i \in 1 .. Len(data[k]) : BlockAt(StartOf(k) + i) = data[k][i]
      BY <1>3, <2>1, BlocksOf
    <3>3. Rest(k) = data[k]
      <4>1. Rest(k) = [i \in 1 .. Len(data[k]) |-> BlockAt(StartOf(k) + i)]
        BY <3>1 DEF Rest
      <4>2. @ = [i \in 1 .. Len(data[k]) |-> data[k][i]]
        BY <3>2
      <4> QED
        BY <2>2, <4>1, <4>2
    <3> QED
      BY <1>3, <2>1, <2>3, <3>3
  <2>4. CASE Len(data[k]) = CLen
    <3> DEFINE n == wend - StartOf(k)
    <3>1. n \in Nat /\ n >= CLen
      BY <1>0, <1>3, <2>1, <2>4, PartLens
    <3>2. StartOf(k + 1) = StartOf(k) + CLen
      BY <1>3, StartFacts
    <3>3. wend - StartOf(k + 1) = n - CLen /\ n - CLen \in Nat
      <4>1. wend \in Nat /\ StartOf(k) \in Nat /\ CLen \in Nat
        BY <1>0, <2>1
      <4>2. wend - (StartOf(k) + CLen) = n - CLen
        BY <4>1
      <4> HIDE DEF n
      <4> QED
        BY <3>1, <3>2, <4>1, <4>2
    <3>4. data[k] \in Seq(Blocks \cup {Hole}) /\ SubSeq(data[k], 1, CLen) = data[k]
      BY <1>3, <2>1, <2>2, <2>4 DEF Shape
    <3>5. /\ Rest(k + 1) = [i \in 1 .. n - CLen |-> BlockAt(StartOf(k + 1) + i)]
          /\ Rest(k) = [i \in 1 .. n |-> BlockAt(StartOf(k) + i)]
      BY <3>3 DEF Rest
    <3> DEFINE s == data[k]  u == Rest(k + 1)
    <3>6. \A i \in 1 .. CLen : BlockAt(StartOf(k) + i) = s[i]
      BY <1>3, BlocksOf
    <3>7. \A i \in 1 .. n - CLen : BlockAt(StartOf(k) + (CLen + i)) = u[i]
      <4>1. \A i \in 1 .. n - CLen : StartOf(k) + (CLen + i) = StartOf(k + 1) + i
        BY <2>1, <3>2
      <4> QED
        BY <3>5, <4>1
    <3>8. Len(u) = n - CLen /\ Len(s) = CLen
      BY <2>4, <3>3, <3>5
    <3>9. s \o u = [i \in 1 .. n |-> BlockAt(StartOf(k) + i)]
      <4>1. /\ s \o u = [i \in 1 .. Len(s \o u) |-> (s \o u)[i]]
            /\ Len(s \o u) = Len(s) + Len(u)
            /\ \A i \in 1 .. Len(s) + Len(u) :
                  (s \o u)[i] = IF i <= Len(s) THEN s[i] ELSE u[i - Len(s)]
        <5> DEFINE S == Blocks \cup {Hole} \cup {u[i] : i \in 1 .. n - CLen}
        <5>1. s \in Seq(S)
          BY <2>2, <3>4
        <5>2. u \in Seq(S)
          <6>1. u = [i \in 1 .. n - CLen |-> u[i]]
            BY <3>5
          <6> HIDE DEF u, n
          <6> QED
            BY <3>3, <6>1
        <5> HIDE DEF S, s, u
        <5>3. s \o u \in Seq(S)
          BY <5>1, <5>2
        <5>4. s \o u = [i \in 1 .. Len(s \o u) |-> (s \o u)[i]]
          BY <5>3, SeqIsFun
        <5>5. /\ Len(s \o u) = Len(s) + Len(u)
              /\ \A i \in 1 .. Len(s) + Len(u) :
                    (s \o u)[i] = IF i <= Len(s) THEN s[i] ELSE u[i - Len(s)]
          BY <5>1, <5>2, ConcatProperties, Zenon
        <5> QED
          BY <5>4, <5>5, Zenon
      <4>2. Len(s) + Len(u) = n
        BY <2>1, <3>1, <3>8
      <4>3. ASSUME NEW i \in 1 .. n
            PROVE  (IF i <= CLen THEN s[i] ELSE u[i - CLen]) = BlockAt(StartOf(k) + i)
        <5>1. CASE i <= CLen
          <6>1. i \in 1 .. CLen
            BY <2>1, <5>1
          <6> QED
            BY <3>6, <5>1, <6>1
        <5>2. CASE ~(i <= CLen)
          <6>1. i - CLen \in 1 .. n - CLen /\ CLen + (i - CLen) = i
            BY <2>1, <3>1, <5>2
          <6> QED
            BY <3>7, <5>2, <6>1
        <5> QED
          BY <5>1, <5>2
      <4> HIDE DEF s, u, n
      <4> QED
        BY <3>8, <4>1, <4>2, <4>3
    <3>10. Rest(k) = SubSeq(data[k], 1, CLen) \o Rest(k + 1)
      BY <3>4, <3>5, <3>9
    <3>11. ~(Len(data[k]) < CLen)
      BY <2>1, <2>4
    <3> QED
      BY <1>3, <2>1, <3>10, <3>11
  <2>5. Len(data[k]) < CLen \/ Len(data[k]) = CLen
    BY <2>1
  <2> QED
    BY <2>3, <2>4, <2>5
<1>4. k \notin Chunks \/ wend <= StartOf(k) \/ wend > StartOf(k)
  BY <1>0, StartFacts
<1> QED
  BY <1>1, <1>2, <1>3, <1>4

\* The blocks of the file, in order
FlatSeq == [i \in 1 .. wend |-> BlockAt(i)]

\* From is well defined, and its value at the head is the sequence of all blocks.
LEMMA ContentIs == Shape => Content = FlatSeq
<1> SUFFICES ASSUME Shape PROVE Content = FlatSeq
  OBVIOUS
<1> DEFINE D == 1 .. NChunks + 1
           Body(g) == [k \in D |->
               IF k \notin Chunks \/ ~Linked(k) THEN <<>>
               ELSE IF Len(data[k]) < CLen THEN data[k]
               ELSE SubSeq(data[k], 1, CLen) \o g[k + 1]]
           G == [k \in D |-> Rest(k)]
<1>0. NChunks \in Nat \ {0} /\ Chunks = 1 .. NChunks
  BY ChunkAssumption DEF Chunks
<1>1. From = CHOOSE g : g = Body(g)
  BY DEF From
<1>2. G = Body(G)
  <2>1. ASSUME NEW k \in D PROVE Rest(k) = Body(G)[k]
    <3>1. k \in Chunks => G[k + 1] = Rest(k + 1)
      BY <1>0
    <3> HIDE DEF G
    <3>2. Body(G)[k] = IF k \notin Chunks \/ ~Linked(k) THEN <<>>
                       ELSE IF Len(data[k]) < CLen THEN data[k]
                       ELSE SubSeq(data[k], 1, CLen) \o G[k + 1]
      OBVIOUS
    <3>3. Rest(k) = IF k \notin Chunks \/ ~Linked(k) THEN <<>>
                    ELSE IF Len(data[k]) < CLen THEN data[k]
                    ELSE SubSeq(data[k], 1, CLen) \o Rest(k + 1)
      BY RestStep
    <3> HIDE DEF Body, D
    <3> QED
      BY <3>1, <3>2, <3>3
  <2>2. Body(G) = [k \in D |-> Body(G)[k]]
    OBVIOUS
  <2> HIDE DEF Body
  <2> QED
    BY <2>1, <2>2
<1>3. From = Body(From)
  <2> HIDE DEF Body, G
  <2> QED
    BY <1>1, <1>2
<1>4. \A k \in D : From[k] = IF k \notin Chunks \/ ~Linked(k) THEN <<>>
                              ELSE IF Len(data[k]) < CLen THEN data[k]
                              ELSE SubSeq(data[k], 1, CLen) \o From[k + 1]
  BY <1>3
<1>5. \A k \in D : From[k] = Rest(k)
  <2> DEFINE T == {d \in 0 .. NChunks : From[NChunks + 1 - d] # Rest(NChunks + 1 - d)}
  <2>1. T = {}
    <3> SUFFICES ASSUME T # {} PROVE FALSE
      OBVIOUS
    <3>1. PICK d \in T : \A y \in T : d <= y
      <4>1. T \subseteq Nat
        OBVIOUS
      <4> HIDE DEF T
      <4> QED
        BY <4>1, LeastNat
    <3> DEFINE k == NChunks + 1 - d
    <3>2. d \in 0 .. NChunks /\ From[k] # Rest(k)
      OBVIOUS
    <3>3. k \in D
      BY <1>0, <3>2
    <3>4. k \in Chunks => From[k + 1] = Rest(k + 1)
      <4> SUFFICES ASSUME k \in Chunks PROVE From[k + 1] = Rest(k + 1)
        OBVIOUS
      <4>1. d - 1 \in 0 .. NChunks /\ NChunks + 1 - (d - 1) = k + 1 /\ ~(d <= d - 1)
        BY <1>0, <3>2
      <4>2. d - 1 \notin T
        <5> HIDE DEF T
        <5> QED
          BY <3>1, <4>1
      <4> QED
        BY <4>1, <4>2
    <3>5. Rest(k) = IF k \notin Chunks \/ ~Linked(k) THEN <<>>
                    ELSE IF Len(data[k]) < CLen THEN data[k]
                    ELSE SubSeq(data[k], 1, CLen) \o Rest(k + 1)
      BY <3>3, RestStep
    <3> HIDE DEF k, T
    <3> QED
      BY <1>4, <3>2, <3>3, <3>4, <3>5
  <2> SUFFICES ASSUME NEW k \in D PROVE From[k] = Rest(k)
    OBVIOUS
  <2>2. (NChunks + 1) - k \in 0 .. NChunks /\ NChunks + 1 - ((NChunks + 1) - k) = k
    BY <1>0
  <2>3. (NChunks + 1) - k \notin T
    BY <2>1
  <2> QED
    BY <2>2, <2>3
<1>6. Content = Rest(HeadPart)
  BY <1>0, <1>5 DEF Content, HeadPart
<1>7. wend - StartOf(HeadPart) = wend /\ \A i \in 1 .. wend : StartOf(HeadPart) + i = i
  BY StartFacts DEF Shape
<1> QED
  BY <1>6, <1>7 DEF Rest, FlatSeq

-----------------------------------------------------------------------------
(* The invariant is inductive                                              *)

\* create_continuation opens its file without O_APPEND, as the call has it.
LEMMA NoAppend ==
    ASSUME NEW c \in CallType, c.app = FALSE
    PROVE  [c EXCEPT !.app = FALSE] = c
  BY DEF CallType

\* A task changes only its own result and f_pos.
LEMMA ResOthers ==
    ASSUME IInv, NEW t \in Tasks, Enter(t) \/ Step(t)
    PROVE  /\ \A u \in Tasks \ {t} : res'[u] = res[u] /\ fpos'[u] = fpos[u]
           /\ res' = res \/ \E r : res' = [res EXCEPT ![t] = r]
<1>1. DOMAIN res = Tasks /\ DOMAIN fpos = Tasks
  BY DEF IInv, TypeOK, LocalType
<1>2. CASE Open(t) \/ Read(t) \/ Pread(t) \/ Write(t) \/ Pwrite(t) \/ Fsync(t)
  BY <1>1, <1>2 DEF Open, Read, Pread, ReadFrom, Write, Pwrite, WriteTo, Fsync, Begin
<1>3. CASE Seek(t) \/ Close(t) \/ Setattr(t)
  BY <1>1, <1>3 DEF Seek, Close, Setattr, Begin
<1>4. CASE Lock(t) \/ WalkOn(t) \/ WalkFound(t)
  BY <1>4 DEF Lock, WalkOn, WalkFound
<1>5. CASE WalkNoOpen(t) \/ WalkErr(t) \/ WalkEnd(t) \/ TailErr(t) \/ CreateErr(t)
  BY <1>1, <1>5 DEF WalkNoOpen, WalkErr, WalkEnd, TailErr, CreateErr, Return
<1>6. CASE TailOn(t) \/ TailEnd(t) \/ Create(t)
  BY <1>6 DEF TailOn, TailEnd, Create
<1>7. CASE SetNew(t) \/ SetPrev(t) \/ SetErr(t) \/ LoadNew(t)
  BY <1>7 DEF SetNew, SetPrev, SetField, SetErr, LoadNew
<1>8. CASE LoadNewErr(t)
  BY <1>1, <1>8 DEF LoadNewErr, Return
<1>9. CASE ReadClient(t) \/ WriteClient(t) \/ ClientErr(t)
  BY <1>1, <1>9 DEF ReadClient, WriteClient, ClientErr
<1>10. CASE SumStart(t) \/ SumOn(t) \/ SumEnd(t)
  BY <1>1, <1>10 DEF SumStart, SumOn, SumEnd, Return
<1>11. CASE SyncOn(t) \/ SyncLost(t) \/ SyncEnd(t) \/ SyncErr(t)
  BY <1>1, <1>11 DEF SyncOn, SyncLost, SyncEnd, SyncErr, Return
<1> QED
  BY <1>2, <1>3, <1>4, <1>5, <1>6, <1>7, <1>8, <1>9, <1>10, <1>11 DEF Enter, Step

\* A step of t leaves the calls of the others what they are: the file only
\* grows.
LEMMA FlatGrows ==
    ASSUME IInv, FlatInv, NEW t \in Tasks, Enter(t) \/ Step(t),
           wend' \in Nat, wend <= wend', Filled', InCall(t)', NotBefore(t)'
    PROVE  FlatInv'
<1>1. res' = [u \in Tasks |-> res'[u]]
  <2>1. res = [u \in Tasks |-> res[u]]
    BY DEF FlatInv
  <2> QED
    BY <2>1, ResOthers
<1>2. ASSUME NEW u \in Tasks \ {t} PROVE InCall(u)' /\ NotBefore(u)'
  <2>1. InCall(u) /\ NotBefore(u) /\ call[u].lo \in Nat /\ call[u].at \in Nat /\ wend \in Nat
    BY DEF FlatInv, IInv, TypeOK, LocalType, CallType, HistoryType
  <2>2. /\ pc'[u] = pc[u] /\ call'[u] = call[u] /\ part'[u] = part[u] /\ cd'[u] = cd[u]
        /\ res'[u] = res[u]
    BY StepOthers, ResOthers DEF Same
  <2>3. InCall(u)'
    BY <2>1, <2>2 DEF InCall
  <2>4. NotBefore(u)'
    BY <2>1, <2>2 DEF NotBefore
  <2> QED
    BY <2>3, <2>4
<1> QED
  BY <1>1, <1>2 DEF FlatInv

\* A step that leaves the blocks alone.
LEMMA FlatSame ==
    ASSUME IInv, FlatInv, NEW t \in Tasks, Enter(t) \/ Step(t),
           UNCHANGED <<data, wend>>, InCall(t)', NotBefore(t)'
    PROVE  FlatInv'
<1>1. wend' \in Nat /\ wend <= wend'
  BY DEF IInv, TypeOK, HistoryType
<1>2. Filled'
  BY DEF FlatInv, Filled
<1> QED
  BY <1>1, <1>2, FlatGrows

\* A step inside a call that changes neither the call nor its result.
LEMMA FlatInside ==
    ASSUME IInv, FlatInv, NEW t \in Tasks, Step(t), UNCHANGED <<data, wend, call, res>>,
           pc'[t] \notin {"idle", "open"}, pc[t] \notin {"idle", "open"},
           pc[t] \in {"up", "sum"} => pc'[t] \in {"up", "sum"},
           pc'[t] # "walk" \/ part'[t] = 0
    PROVE  FlatInv'
<1>1. InCall(t) /\ NotBefore(t)
  BY DEF FlatInv
<1>2. InCall(t)'
  BY <1>1 DEF InCall
<1>3. NotBefore(t)'
  BY <1>1 DEF NotBefore
<1> QED
  BY <1>2, <1>3, FlatSame

\* The end of a call.
LEMMA FlatReturn ==
    ASSUME IInv, FlatInv, NEW t \in Tasks, Step(t), UNCHANGED <<data, wend>>,
           NEW r, Return(t, r)
    PROVE  FlatInv'
<1>1. pc'[t] \in {"idle", "open"} /\ call'[t] = NoCall
  BY DEF Return, Goto, IInv, TypeOK, LocalType
<1>2. NoCall.op = "none" /\ NoCall.lo = 0 /\ wend \in Nat
  BY DEF NoCall, IInv, TypeOK, HistoryType
<1>3. InCall(t)' /\ NotBefore(t)'
  BY <1>1, <1>2 DEF InCall, NotBefore, Reads, Writes
<1> QED
  BY <1>3, FlatSame

\* A call begins with the length of the file as it is.
LEMMA EnterFlat ==
    ASSUME Sequential, Blockwise, IInv, FlatInv, NEW t \in Tasks, Enter(t)
    PROVE  FlatInv'
<1>1. LocalType /\ wend \in Nat
  BY DEF IInv, TypeOK, HistoryType
<1>2. CASE \E op \in {"open", "fsync"} \cup Reads \cup Writes : \E n, v, p, a :
             /\ Begin(t, SysCall(op, n, v, p, a), "lock")
             /\ op = "open" => p = 0
             /\ op \in Reads => n > 0
             /\ op \in Writes => n = 1 /\ p <= wend
             /\ UNCHANGED <<data, wend>>
  <2>1. PICK op \in {"open", "fsync"} \cup Reads \cup Writes :
          \E n, v, p, a :
             /\ Begin(t, SysCall(op, n, v, p, a), "lock")
             /\ op = "open" => p = 0
             /\ op \in Reads => n > 0
             /\ op \in Writes => n = 1 /\ p <= wend
    BY <1>2
  <2>2. PICK n, v, p, a :
             /\ Begin(t, SysCall(op, n, v, p, a), "lock")
             /\ op = "open" => p = 0
             /\ op \in Reads => n > 0
             /\ op \in Writes => n = 1 /\ p <= wend
    BY <2>1
  <2>3. /\ SysCall(op, n, v, p, a).op = op /\ SysCall(op, n, v, p, a).at = p
        /\ SysCall(op, n, v, p, a).n = n /\ SysCall(op, n, v, p, a).lo = wend
    BY Zenon DEF SysCall
  <2>4. pc'[t] = "lock" /\ call'[t] = SysCall(op, n, v, p, a) /\ res'[t] = <<>>
    BY <1>1, <2>2 DEF Begin, Goto, LocalType
  <2>5. call'[t].op = op /\ call'[t].at = p /\ call'[t].n = n /\ call'[t].lo = wend
    BY <2>3, <2>4
  <2>6. InCall(t)'
    BY <1>1, <1>2, <2>2, <2>4, <2>5 DEF InCall
  <2>7. NotBefore(t)'
    BY <2>4 DEF NotBefore
  <2> QED
    BY <1>2, <2>6, <2>7, FlatSame
<1>3. CASE Open(t)
  BY <1>2, <1>3 DEF Open, Reads, Writes, disk
<1>4. ASSUME NEW op \in Reads, NEW p, ReadFrom(t, op, p) PROVE FlatInv'
  <2>1. op \notin Writes /\ op # "open"
    BY DEF Reads, Writes
  <2>2. PICK n \in ReadLens : Begin(t, SysCall(op, n, Hole, p, FALSE), "lock")
    BY <1>4 DEF ReadFrom
  <2>3. n > 0 /\ UNCHANGED <<data, wend>>
    BY <1>4, <2>2, InputAssumption DEF ReadFrom, disk
  <2> QED
    BY <1>2, <2>1, <2>2, <2>3
<1>5. ASSUME NEW op \in Writes, NEW p, WriteTo(t, op, p) PROVE FlatInv'
  <2>1. op \notin Reads /\ op # "open"
    BY DEF Reads, Writes
  <2>2. PICK n \in WriteLens, v \in Blocks, a \in Appends :
           Begin(t, SysCall(op, n, v, p, a), "lock")
    BY <1>5 DEF WriteTo
  <2>3. n = 1 /\ p <= wend /\ UNCHANGED <<data, wend>>
    BY <1>5, <2>2 DEF WriteTo, disk, Blockwise, Sequential
  <2> QED
    BY <1>2, <2>1, <2>2, <2>3
<1>6. CASE Fsync(t)
  <2>1. Begin(t, SysCall("fsync", 0, Hole, fpos[t], FALSE), "lock") /\ UNCHANGED <<data, wend>>
    BY <1>6 DEF Fsync, disk
  <2>2. "fsync" \notin Reads \cup Writes
    BY DEF Reads, Writes
  <2> QED
    BY <1>2, <2>1, <2>2
<1>7. CASE Seek(t) \/ Close(t)
  <2>1. /\ pc[t] = "open" /\ pc'[t] \in {"idle", "open"} /\ call'[t] = call[t]
        /\ UNCHANGED <<data, wend>>
    BY <1>1, <1>7 DEF Seek, Close, Goto, LocalType, disk
  <2>2. InCall(t)
    BY DEF FlatInv
  <2>3. call[t] = NoCall /\ NoCall.op = "none"
    BY <2>1, <2>2 DEF InCall, NoCall
  <2>4. InCall(t)' /\ NotBefore(t)'
    BY <2>1, <2>2, <2>3 DEF InCall, NotBefore, Reads, Writes
  <2> QED
    BY <2>1, <2>4, FlatSame
<1>8. ~Setattr(t)
  BY DEF Blockwise, Setattr
<1>9. "read" \in Reads /\ "pread" \in Reads /\ "write" \in Writes /\ "pwrite" \in Writes
  BY DEF Reads, Writes
<1> QED
  BY <1>3, <1>4, <1>5, <1>6, <1>7, <1>8, <1>9 DEF Enter, Read, Pread, Write, Pwrite

\* get_cont_at_offset: a reader that finds no next part has seen a list that
\* ended there, when the file was at least as long as at the call.
LEMMA WalkFlat ==
    ASSUME OneWriter, IInv, ChainInv, AimInv, FlatInv, NEW t \in Tasks,
           Lock(t) \/ WalkOn(t) \/ WalkFound(t) \/ WalkNoOpen(t) \/ WalkEnd(t) \/ WalkErr(t)
    PROVE  FlatInv'
<1>1. LocalType /\ wend \in Nat /\ Step(t) /\ ~Fault
  BY FaultFree DEF IInv, TypeOK, HistoryType, Step
<1>2. CASE Lock(t)
  <2>1. /\ UNCHANGED <<data, wend, call, res>> /\ pc[t] = "lock" /\ part'[t] = part[t]
        /\ pc'[t] \in {"sync", "walk"}
    BY <1>1, <1>2 DEF Lock, Goto, LocalType, disk
  <2>2. part[t] = 0
    BY <2>1 DEF IInv, TaskOK
  <2> QED
    BY <1>1, <2>1, <2>2, FlatInside
<1>3. CASE WalkOn(t)
  <2> DEFINE k == Following(t)
  <2>1. /\ pc[t] = "walk" /\ pc'[t] = "walk" /\ part'[t] = k /\ cd'[t] = xattr[k]
        /\ UNCHANGED <<xattr, data, wend, call, res>> /\ NextCont(t)
    BY <1>1, <1>3 DEF WalkOn, Hold, LocalType, disk
  <2>2. k \in Chunks
    BY <2>1, FollowingFacts
  <2> HIDE DEF k
  <2>3. InCall(t) /\ call[t].lo \in Nat
    BY <1>1 DEF FlatInv, LocalType, CallType
  <2>4. ASSUME xattr[k]["next"] = 0 PROVE call[t].lo <= StartOf(k) + CLen
    <3>1. PICK m \in Chunks : InList(m) /\ wend <= StartOf(m) + CLen
      BY DEF AimInv, Within
    <3>2. ~Links(k)
      BY <2>4 DEF Links
    <3>3. StartOf(m) <= StartOf(k)
      BY <2>2, <3>1, <3>2, ChainEnds
    <3>4. StartOf(m) \in Nat /\ StartOf(k) \in Nat /\ CLen \in Nat
      BY <2>2, StartFacts, ChunkAssumption
    <3>5. call[t].lo <= wend
      BY <2>3 DEF InCall
    <3> QED
      BY <1>1, <2>3, <3>1, <3>3, <3>4, <3>5
  <2>5. InCall(t)'
    BY <2>1, <2>3 DEF InCall
  <2>6. NotBefore(t)'
    BY <2>1, <2>4 DEF NotBefore
  <2> QED
    BY <1>1, <2>1, <2>5, <2>6, FlatSame
<1>4. CASE WalkFound(t)
  <2>1. /\ UNCHANGED <<data, wend, call, res>> /\ pc[t] = "walk"
        /\ pc'[t] = IF call[t].op = "open" THEN "up" ELSE "io"
    BY <1>1, <1>4 DEF WalkFound, Goto, LocalType, disk
  <2>2. "open" \notin Reads
    BY DEF Reads
  <2> QED
    BY <1>1, <2>1, <2>2, FlatInside
<1>5. ~WalkNoOpen(t)
  BY <1>1 DEF WalkNoOpen
<1>6. CASE WalkEnd(t) /\ call[t].op \in Writes
  <2>1. /\ UNCHANGED <<data, wend, call, res>> /\ pc[t] = "walk" /\ pc'[t] = "tail"
    BY <1>1, <1>6 DEF WalkEnd, Goto, LocalType, disk
  <2> QED
    BY <1>1, <2>1, FlatInside
<1>7. CASE WalkEnd(t) /\ call[t].op \notin Writes
  <2>1. UNCHANGED <<data, wend>> /\ \E r : Return(t, r)
    BY <1>7 DEF WalkEnd, disk
  <2> QED
    BY <1>1, <2>1, FlatReturn
<1>8. CASE WalkErr(t)
  <2>1. UNCHANGED <<data, wend>> /\ Return(t, Err)
    BY <1>8 DEF WalkErr, disk
  <2> QED
    BY <1>1, <2>1, FlatReturn
<1> QED
  BY <1>2, <1>3, <1>4, <1>5, <1>6, <1>7, <1>8

\* create_continuation does not change the call: a continuous writer has no
\* O_APPEND.
LEMMA LoadSame ==
    ASSUME IInv, AimInv, NEW t \in Tasks, LoadNew(t)
    PROVE  call' = call
<1>1. call \in [Tasks -> CallType] /\ pc[t] = "load"
  BY DEF IInv, TypeOK, LocalType, LoadNew
<1>2. call[t].op \in Writes
  BY <1>1 DEF IInv, PosOK, Creating
<1>3. call[t] \in CallType /\ ~call[t].app
  BY <1>1, <1>2 DEF AimInv, Aimed
<1>4. call[t].app \in BOOLEAN
  BY <1>3 DEF CallType
<1>5. call[t].app = FALSE
  BY <1>3, <1>4, Zenon
<1>6. [call[t] EXCEPT !.app = FALSE] = call[t]
  BY <1>3, <1>5, NoAppend
<1>7. call' = [call EXCEPT ![t] = [call[t] EXCEPT !.app = FALSE]]
  BY DEF LoadNew
<1>8. call' = [call EXCEPT ![t] = call[t]]
  BY <1>6, <1>7
<1> QED
  BY <1>1, <1>8

\* create_continuation changes no blocks.
LEMMA CreateFlat ==
    ASSUME OneWriter, IInv, AimInv, FlatInv, NEW t \in Tasks,
           \/ TailOn(t) \/ TailEnd(t) \/ TailErr(t) \/ Create(t) \/ CreateErr(t)
           \/ SetNew(t) \/ SetPrev(t) \/ SetErr(t) \/ LoadNew(t) \/ LoadNewErr(t)
    PROVE  FlatInv'
<1>1. LocalType /\ Step(t) /\ ~Fault /\ faults = 0
  BY FaultFree DEF IInv, TypeOK, Step
<1>2. CASE TailOn(t) \/ TailEnd(t) \/ Create(t)
  <2>1. /\ UNCHANGED <<data, wend, call, res>> /\ pc[t] \in {"tail", "create"}
        /\ pc'[t] \in {"tail", "create", "setnew"}
    BY <1>1, <1>2 DEF TailOn, TailEnd, Create, Goto, LocalType, disk
  <2> QED
    BY <1>1, <2>1, FlatInside
<1>3. CASE TailErr(t) \/ CreateErr(t)
  <2>1. UNCHANGED <<data, wend>> /\ Return(t, Err)
    BY <1>3 DEF TailErr, CreateErr, disk
  <2> QED
    BY <1>1, <2>1, FlatReturn
<1>4. CASE SetNew(t) \/ SetPrev(t)
  <2>1. /\ UNCHANGED <<data, wend, call, res>> /\ pc[t] \in {"setnew", "setprev"}
        /\ pc'[t] \in {"setnew", "setprev", "load"}
    BY <1>1, <1>4 DEF SetNew, SetPrev, SetField, LocalType
  <2> QED
    BY <1>1, <2>1, FlatInside
<1>5. ~SetErr(t)
  BY <1>1 DEF SetErr
<1>6. CASE LoadNew(t)
  <2>1. call' = call
    BY <1>6, LoadSame
  <2>2. UNCHANGED <<data, wend, res>> /\ pc[t] = "load" /\ pc'[t] = "io"
    BY <1>1, <1>6 DEF LoadNew, Goto, LocalType, disk
  <2> QED
    BY <1>1, <2>1, <2>2, FlatInside
<1>7. ~LoadNewErr(t)
  <2>1. pc[t] = "load" => Complete(ToChunk(t))
    BY <1>1 DEF IInv, TaskOK, ToChunk
  <2> QED
    BY <1>1, <2>1 DEF LoadNewErr
<1> QED
  BY <1>2, <1>3, <1>4, <1>5, <1>6, <1>7

\* What a write is given and does.
LEMMA WriteFacts ==
    ASSUME Sequential, Blockwise, IInv, AimInv, FlatInv, NEW t \in Tasks, pc[t] = "io",
           call[t].op \in Writes
    PROVE  /\ part[t] \in Chunks /\ ppos[t] \in 0 .. CLen - 1
           /\ call[t].at = StartOf(part[t]) + ppos[t] /\ call[t].at \in Nat
           /\ call[t].n = 1 /\ call[t].at <= wend
           /\ WritePos(t) = ppos[t] /\ ~Refused(t)
           /\ StartOf(part[t]) \in Nat /\ CLen \in Nat \ {0} /\ wend \in Nat
<1>1. part[t] \in Chunks
  BY DEF IInv, TaskOK
<1>2. ppos[t] \in 0 .. CLen - 1 /\ call[t].at - StartOf(part[t]) = ppos[t] /\ ~call[t].app
  BY DEF AimInv, Aimed
<1>3. call[t].n = 1 /\ call[t].at <= wend
  BY DEF FlatInv, InCall
<1>4. call[t].at \in Nat /\ wend \in Nat
  BY DEF IInv, TypeOK, LocalType, CallType, HistoryType
<1>5. StartOf(part[t]) \in Nat /\ CLen \in Nat \ {0}
  BY <1>1, StartFacts, ChunkAssumption
<1>6. WritePos(t) = ppos[t]
  BY <1>2 DEF WritePos
<1>7. ~Refused(t)
  BY <1>2, <1>3, <1>5, <1>6 DEF Refused, Blockwise
<1> QED
  BY <1>1, <1>2, <1>3, <1>4, <1>5, <1>6, <1>7

\* The same of the blocks after it.
LEMMA WriteData ==
    ASSUME Sequential, Blockwise, IInv, AimInv, FlatInv, NEW t \in Tasks, WriteClient(t)
    PROVE  /\ \A k \in Chunks \ {part[t]} : data'[k] = data[k]
           /\ data'[part[t]] = WriteAt(data[part[t]], ppos[t], 1, call[t].v)
           /\ wend' = Most(wend, call[t].at + 1)
           /\ UNCHANGED <<call, res, fpos>>
           /\ pc[t] = "io" /\ pc'[t] = "up" /\ call[t].op \in Writes
<1>1. data \in [Chunks -> Seq(Blocks \cup {Hole})] /\ pc \in [Tasks -> Places] /\ Continuous
  BY DEF IInv, TypeOK, DiskType, LocalType, Sequential
<1>2. call[t].n = 1 /\ WritePos(t) = ppos[t] /\ part[t] \in Chunks
  BY WriteFacts DEF WriteClient
<1>3. data' = [data EXCEPT ![part[t]] = WriteAt(data[part[t]], ppos[t], 1, call[t].v)]
  BY <1>2 DEF WriteClient
<1>4. /\ wend' = Most(wend, call[t].at + 1) /\ UNCHANGED <<call, res, fpos>>
      /\ pc[t] = "io" /\ pc'[t] = "up" /\ call[t].op \in Writes
  BY <1>1, <1>2 DEF WriteClient, Goto
<1> QED
  BY <1>1, <1>2, <1>3, <1>4

\* How long a client file is after a write.
LEMMA WriteLen ==
    ASSUME NEW s \in Seq(Blocks \cup {Hole}), NEW p \in Nat, NEW v
    PROVE  /\ Len(WriteAt(s, p, 1, v)) = Most(Len(s), p + 1)
           /\ DOMAIN WriteAt(s, p, 1, v) = 1 .. Most(Len(s), p + 1)
           /\ \A i \in 1 .. Most(Len(s), p + 1) :
                 WriteAt(s, p, 1, v)[i] = IF p < i /\ i <= p + 1 THEN v
                                          ELSE IF i <= Len(s) THEN s[i] ELSE Hole
<1>1. Most(Len(s), p + 1) \in Nat
  BY DEF Most
<1> QED
  BY <1>1 DEF WriteAt

\* A write at the end of the file fills the next place, another one none.
LEMMA WriteFilled ==
    ASSUME Sequential, Blockwise, IInv, AimInv, FlatInv, NEW t \in Tasks, WriteClient(t)
    PROVE  Filled' /\ wend' \in Nat /\ wend <= wend'
<1> DEFINE j == part[t]  p == ppos[t]
<1>1. /\ j \in Chunks /\ p \in 0 .. CLen - 1 /\ call[t].at = StartOf(j) + p
      /\ call[t].at <= wend /\ StartOf(j) \in Nat /\ CLen \in Nat \ {0} /\ wend \in Nat
  BY WriteFacts DEF WriteClient
<1>2. /\ \A k \in Chunks \ {j} : data'[k] = data[k]
      /\ data'[j] = WriteAt(data[j], p, 1, call[t].v) /\ wend' = Most(wend, call[t].at + 1)
  BY WriteData
<1>3. data[j] \in Seq(Blocks \cup {Hole})
  BY <1>1 DEF IInv, TypeOK, DiskType
<1> HIDE DEF j, p
<1>4. Len(data'[j]) = Most(Len(data[j]), p + 1) /\ Len(data[j]) \in Nat
  BY <1>1, <1>2, <1>3, WriteLen
<1>5. wend' \in Nat /\ wend <= wend' /\ (call[t].at < wend => wend' = wend)
      /\ (call[t].at = wend => wend' = wend + 1)
  BY <1>1, <1>2 DEF Most
<1>6. ASSUME NEW k \in Chunks
      PROVE  /\ wend' <= StartOf(k) => data'[k] = <<>>
             /\ wend' > StartOf(k) => Len(data'[k]) = Least(wend' - StartOf(k), CLen)
  <2>1. /\ wend <= StartOf(k) => data[k] = <<>>
        /\ wend > StartOf(k) => Len(data[k]) = Least(wend - StartOf(k), CLen)
    BY DEF FlatInv, Filled
  <2>2. StartOf(k) \in Nat
    BY StartFacts
  <2>3. CASE k = j
    <3>1. wend <= StartOf(k) => Len(data[k]) = 0
      BY <2>1
    <3>2. wend' > StartOf(k)
      BY <1>1, <1>5, <2>2, <2>3
    <3>3. Len(data'[k]) = Least(wend' - StartOf(k), CLen)
      <4> DEFINE n == Len(data[j])
      <4>1. CASE call[t].at < wend
        <5>1. n = Least(wend - StartOf(j), CLen) /\ p + 1 <= wend - StartOf(j) /\ wend' = wend
          BY <1>1, <1>5, <2>1, <2>3, <4>1
        <5>2. n = Most(n, p + 1)
          BY <1>1, <1>4, <5>1 DEF Least, Most
        <5> QED
          BY <1>4, <2>3, <5>1, <5>2
      <4>2. CASE call[t].at = wend
        <5>1. wend - StartOf(j) = p /\ wend' - StartOf(j) = p + 1
          BY <1>1, <1>5, <4>2
        <5>2. n = p
          <6>1. CASE p = 0
            BY <1>1, <2>3, <3>1, <5>1, <6>1
          <6>2. CASE p > 0
            <7>1. n = Least(p, CLen)
              BY <1>1, <2>1, <2>3, <5>1, <6>2
            <7> QED
              BY <1>1, <7>1 DEF Least
          <6> QED
            BY <1>1, <6>1, <6>2
        <5>3. Most(n, p + 1) = p + 1 /\ Least(p + 1, CLen) = p + 1
          BY <1>1, <5>2 DEF Most, Least
        <5> QED
          BY <1>4, <2>3, <5>1, <5>3
      <4> QED
        BY <1>1, <4>1, <4>2
    <3> QED
      BY <1>5, <2>2, <3>2, <3>3
  <2>4. CASE k < j
    <3>1. k + 1 \in Chunks /\ k + 1 <= j
      BY <1>1, <2>4, ChunkAssumption DEF Chunks
    <3>2. StartOf(k) + CLen <= StartOf(j)
      BY <1>1, <3>1, StartFacts, StartsGrow
    <3>3. data'[k] = data[k]
      BY <1>1, <1>2, <2>4 DEF Chunks
    <3> QED
      BY <1>1, <1>5, <2>1, <2>2, <3>2, <3>3 DEF Least
  <2>5. CASE j < k
    <3>1. j + 1 \in Chunks /\ j + 1 <= k
      BY <1>1, <2>5, ChunkAssumption DEF Chunks
    <3>2. StartOf(j) + CLen <= StartOf(k)
      BY <1>1, <3>1, StartFacts, StartsGrow
    <3>3. data'[k] = data[k]
      BY <1>1, <1>2, <2>5 DEF Chunks
    <3>4. CASE wend' = wend
      BY <2>1, <3>3, <3>4
    <3>5. CASE wend' = wend + 1
      <4>1. wend' <= StartOf(k) /\ wend <= StartOf(k) /\ ~(wend' > StartOf(k))
        BY <1>1, <1>5, <2>2, <3>2, <3>5
      <4> QED
        BY <2>1, <3>3, <4>1
    <3> QED
      BY <1>1, <1>5, <3>4, <3>5
  <2> QED
    BY <1>1, <2>3, <2>4, <2>5 DEF Chunks
<1>7. Filled'
  BY <1>6 DEF Filled
<1> QED
  BY <1>5, <1>7

\* What a read is given, and what it finds.
LEMMA ReadFacts ==
    ASSUME IInv, AimInv, FlatInv, NEW t \in Tasks, ReadClient(t)
    PROVE  /\ part[t] \in Chunks /\ ppos[t] \in 0 .. CLen - 1
           /\ call[t].at = StartOf(part[t]) + ppos[t] /\ call[t].at \in Nat
           /\ call[t].n \in Nat \ {0}
           /\ StartOf(part[t]) \in Nat /\ CLen \in Nat \ {0} /\ wend \in Nat
           /\ data[part[t]] \in Seq(Blocks \cup {Hole}) /\ Len(data[part[t]]) \in Nat
           /\ res'[t] = ReadAt(data[part[t]], ppos[t], call[t].n)
           /\ UNCHANGED <<data, wend, call, fpos>> /\ pc[t] = "io" /\ pc'[t] = "up"
           /\ res[t] = <<>> /\ call[t].op \in Reads
<1>1. pc[t] = "io" /\ call[t].op \in Reads
  BY DEF ReadClient
<1>2. part[t] \in Chunks
  BY <1>1 DEF IInv, TaskOK
<1>3. ppos[t] \in 0 .. CLen - 1 /\ call[t].at - StartOf(part[t]) = ppos[t]
  BY <1>1 DEF AimInv, Aimed
<1>4. call[t].n > 0 /\ res[t] = <<>>
  BY <1>1 DEF FlatInv, InCall
<1>5. call[t].at \in Nat /\ wend \in Nat /\ call[t].n \in Nat
  BY DEF IInv, TypeOK, LocalType, CallType, HistoryType
<1>6. StartOf(part[t]) \in Nat /\ CLen \in Nat \ {0}
  BY <1>2, StartFacts, ChunkAssumption
<1>7. data[part[t]] \in Seq(Blocks \cup {Hole}) /\ Len(data[part[t]]) \in Nat
  BY <1>2 DEF IInv, TypeOK, DiskType
<1>8. /\ res'[t] = ReadAt(data[part[t]], ppos[t], call[t].n)
      /\ UNCHANGED <<data, wend, call, fpos>> /\ pc'[t] = "up"
  BY DEF ReadClient, Goto, IInv, TypeOK, LocalType, disk
<1>9. call[t].n \in Nat \ {0} /\ call[t].at = StartOf(part[t]) + ppos[t]
  BY <1>3, <1>4, <1>5, <1>6
<1> QED
  BY <1>1, <1>2, <1>3, <1>4, <1>5, <1>6, <1>7, <1>8, <1>9

\* A read that finds nothing in the part of its offset is at the end of the file.
LEMMA ReadNothing ==
    ASSUME IInv, AimInv, FlatInv, NEW t \in Tasks, ReadClient(t), res'[t] = <<>>
    PROVE  call[t].at >= wend
<1> DEFINE k == part[t]  p == ppos[t]  s == data[part[t]]  n == call[t].n
<1>1. /\ k \in Chunks /\ p \in 0 .. CLen - 1 /\ n \in Nat \ {0}
      /\ call[t].at = StartOf(k) + p /\ StartOf(k) \in Nat /\ CLen \in Nat \ {0}
      /\ wend \in Nat /\ s \in Seq(Blocks \cup {Hole}) /\ Len(s) \in Nat
      /\ res'[t] = ReadAt(s, p, n)
  BY ReadFacts
<1>2. p >= Len(s)
  <2> SUFFICES ASSUME p < Len(s) PROVE FALSE
    BY <1>1
  <2> DEFINE m == Least(p + n, Len(s))
  <2>0. p \in Nat /\ n \in Nat \ {0} /\ Len(s) \in Nat
    BY <1>1
  <2> HIDE DEF s, p, n
  <2>1. m \in Nat /\ p + 1 <= m /\ m <= Len(s)
    BY <2>0 DEF Least
  <2>2. ReadAt(s, p, n) = SubSeq(s, p + 1, m)
    BY DEF ReadAt
  <2> HIDE DEF m
  <2>3. Len(SubSeq(s, p + 1, m)) = m - p
    BY <1>1, <2>1
  <2>4. Len(SubSeq(s, p + 1, m)) = 0
    <3>1. SubSeq(s, p + 1, m) = <<>>
      BY <1>1, <2>2, Zenon
    <3>2. Len(<<>>) = 0
      OBVIOUS
    <3> QED
      BY <3>1, <3>2, Zenon
  <2>5. p \in Nat
    BY <1>1
  <2> QED
    BY <2>1, <2>3, <2>4, <2>5
<1>3. Len(s) < CLen
  BY <1>1, <1>2
<1>4. wend > StartOf(k) => Len(s) = Least(wend - StartOf(k), CLen)
  BY <1>1 DEF FlatInv, Filled
<1> QED
  BY <1>1, <1>2, <1>3, <1>4 DEF Least

\* The client calls and what follows them.
LEMMA ClientFlat ==
    ASSUME Sequential, Blockwise, OneWriter, IInv, AimInv, FlatInv, NEW t \in Tasks,
           \/ ReadClient(t) \/ WriteClient(t) \/ ClientErr(t)
           \/ SumStart(t) \/ SumOn(t) \/ SumEnd(t)
           \/ SyncOn(t) \/ SyncLost(t) \/ SyncEnd(t) \/ SyncErr(t)
    PROVE  FlatInv'
<1>1. LocalType /\ Step(t) /\ ~Fault /\ InCall(t) /\ NotBefore(t)
  BY FaultFree DEF IInv, TypeOK, Step, FlatInv
<1>2. CASE ReadClient(t)
  <2> DEFINE k == part[t]  p == ppos[t]  s == data[part[t]]  n == call[t].n
  <2>1. /\ k \in Chunks /\ p \in 0 .. CLen - 1 /\ n \in Nat \ {0}
        /\ call[t].at = StartOf(k) + p /\ StartOf(k) \in Nat /\ CLen \in Nat \ {0}
        /\ wend \in Nat /\ s \in Seq(Blocks \cup {Hole}) /\ Len(s) \in Nat
        /\ res'[t] = ReadAt(s, p, n)
        /\ UNCHANGED <<data, wend, call>> /\ pc[t] = "io" /\ pc'[t] = "up"
    BY <1>2, ReadFacts
  <2>4. InCall(t)'
    BY <1>1, <2>1 DEF InCall
  <2>5. NotBefore(t)'
    BY <2>1 DEF NotBefore
  <2> QED
    BY <1>1, <2>1, <2>4, <2>5, FlatSame
<1>3. CASE WriteClient(t)
  <2>1. /\ UNCHANGED <<call, res>> /\ pc[t] = "io" /\ pc'[t] = "up" /\ call[t].op \in Writes
    BY <1>3, WriteData
  <2>2. Filled' /\ wend' \in Nat /\ wend <= wend'
    BY <1>3, WriteFilled
  <2>3. wend \in Nat /\ call[t].lo \in Nat /\ call[t].at \in Nat
    BY DEF IInv, TypeOK, LocalType, CallType, HistoryType
  <2>4. call[t].op \notin Reads /\ call[t].op # "open"
    BY <2>1 DEF Reads, Writes
  <2>5. InCall(t)'
    BY <1>1, <2>1, <2>2, <2>3 DEF InCall
  <2>6. NotBefore(t)'
    BY <2>1, <2>4 DEF NotBefore
  <2> QED
    BY <1>1, <2>2, <2>5, <2>6, FlatGrows
<1>4. ~ClientErr(t)
  <2>1. pc[t] = "io" => ~Refused(t)
    BY WriteFacts DEF Refused
  <2> QED
    BY <1>1, <2>1 DEF ClientErr
<1>5. CASE SumStart(t) \/ SumOn(t)
  <2>1. /\ UNCHANGED <<data, wend, call, res>> /\ pc[t] \in {"up", "sum"} /\ pc'[t] = "sum"
    BY <1>1, <1>5 DEF SumStart, SumOn, Goto, LocalType, disk
  <2> QED
    BY <1>1, <2>1, FlatInside
<1>6. CASE SumEnd(t) \/ SyncEnd(t) \/ SyncErr(t)
  <2>1. UNCHANGED <<data, wend>> /\ \E r : Return(t, r)
    BY <1>6 DEF SumEnd, SyncEnd, SyncErr, disk
  <2> QED
    BY <1>1, <2>1, FlatReturn
<1>7. CASE SyncOn(t)
  <2>1. /\ UNCHANGED <<data, wend, call, res>> /\ pc[t] = "sync" /\ pc'[t] = "sync"
    BY <1>1, <1>7 DEF SyncOn, LocalType
  <2> QED
    BY <1>1, <2>1, FlatInside
<1>8. ~SyncLost(t)
  BY <1>1 DEF SyncLost
<1> QED
  BY <1>2, <1>3, <1>4, <1>5, <1>6, <1>7, <1>8

\* An empty file, and nobody in a call.
LEMMA InitFlat ==
    ASSUME Init
    PROVE  FlatInv
<1>1. /\ res = [t \in Tasks |-> <<>>] /\ wend = 0 /\ data = [k \in Chunks |-> <<>>]
      /\ call = [t \in Tasks |-> NoCall] /\ pc = [t \in Tasks |-> "idle"]
  BY DEF Init
<1>2. Filled
  <2>1. \A k \in Chunks : ~(wend > StartOf(k))
    BY <1>1, StartFacts
  <2> QED
    BY <1>1, <2>1 DEF Filled
<1>3. NoCall.op = "none" /\ NoCall.lo = 0
  BY DEF NoCall
<1>4. ASSUME NEW t \in Tasks PROVE InCall(t) /\ NotBefore(t)
  BY <1>1, <1>3 DEF InCall, NotBefore, Reads, Writes
<1>5. res = [t \in Tasks |-> res[t]]
  BY <1>1
<1> QED
  BY <1>2, <1>4, <1>5 DEF FlatInv

\* The parts are filled in order and a read knows when it is at the end.
THEOREM FlatInductive == OneWriter /\ Sequential /\ Blockwise => (Spec => []FlatInv)
<1> SUFFICES ASSUME OneWriter, Sequential, Blockwise PROVE Spec => []FlatInv
  OBVIOUS
<1>1. Init => FlatInv
  BY InitFlat
<1>2. IInv /\ ChainInv /\ AimInv /\ FlatInv /\ [Next]_vars => FlatInv'
  <2> SUFFICES ASSUME IInv, ChainInv, AimInv, FlatInv, [Next]_vars PROVE FlatInv'
    OBVIOUS
  <2>1. ASSUME NEW t \in Tasks, Enter(t) PROVE FlatInv'
    BY <2>1, EnterFlat
  <2>2. ASSUME NEW t \in Tasks, Step(t) PROVE FlatInv'
    BY <2>2, WalkFlat, CreateFlat, ClientFlat DEF Step
  <2>3. CASE Evict \/ Restart \/ Lookup \/ LookupErr
    BY <2>3 DEF ChainInv, OneWriter, Evict, Restart, Lookup, LookupErr
  <2>4. CASE UNCHANGED vars
    <3>1. UNCHANGED <<data, pc, call, part, cd, res, wend>>
      BY <2>4 DEF vars, disk, inode, local
    <3>2. ASSUME NEW t \in Tasks PROVE InCall(t)' /\ NotBefore(t)'
      BY <3>1 DEF FlatInv, InCall, NotBefore
    <3>3. Filled'
      BY <3>1 DEF FlatInv, Filled
    <3> QED
      BY <3>1, <3>2, <3>3 DEF FlatInv
  <2> QED
    BY <2>1, <2>2, <2>3, <2>4 DEF Next
<1> QED
  BY <1>1, <1>2, Inductive, ChainInductive, AimInductive, PTL DEF Spec

-----------------------------------------------------------------------------
(* f_pos and the position in the part                                      *)

\* An offset of the part in chunk k, relative to its start
LEMMA PosInPart ==
    ASSUME NEW k \in Chunks, NEW p \in 0 .. CLen - 1
    PROVE  (StartOf(k) + p) % CLen = p
<1>1. CLen \in Nat \ {0} /\ k - 1 \in Nat
  BY ChunkAssumption DEF Chunks
<1> QED
  BY <1>1, DivMod DEF StartOf

\* A step of t keeps the others where they are.
LEMMA PosStep ==
    ASSUME IInv, PosInv, NEW t \in Tasks, Enter(t) \/ Step(t), AtPos(t)'
    PROVE  PosInv'
<1> SUFFICES ASSUME NEW u \in Tasks \ {t} PROVE AtPos(u)'
  BY DEF PosInv
<1>1. /\ pc'[u] = pc[u] /\ call'[u] = call[u] /\ ppos'[u] = ppos[u]
      /\ res'[u] = res[u] /\ fpos'[u] = fpos[u] /\ AtPos(u)
  BY StepOthers, ResOthers DEF Same, PosInv
<1> QED
  BY <1>1 DEF AtPos

\* The end of a call.
LEMMA PosReturn ==
    ASSUME IInv, PosInv, NEW t \in Tasks, Step(t), NEW r, Return(t, r)
    PROVE  PosInv'
<1>1. LocalType /\ AtPos(t)
  BY DEF IInv, TypeOK, PosInv
<1>2. call'[t] = NoCall /\ NoCall.op = "none"
  BY <1>1 DEF Return, LocalType, NoCall
<1>3. pc'[t] \in {"idle", "open"} /\ (pc'[t] = "idle" => call[t].op = "open")
  BY <1>1 DEF Return, Goto, LocalType
<1>4. call[t].op = "open" => fpos'[t] = 0
  BY <1>1 DEF Return, LocalType, AtPos
<1>5. AtPos(t)'
  BY <1>2, <1>3, <1>4 DEF AtPos, Reads, Writes
<1> QED
  BY <1>5, PosStep

\* A call that begins at position p.
LEMMA PosBegin ==
    ASSUME IInv, PosInv, NEW t \in Tasks, Enter(t), NEW op, NEW n, NEW v, NEW p, NEW a,
           Begin(t, SysCall(op, n, v, p, a), "lock"), fpos' = fpos,
           op = "open" => pc[t] = "idle", op \in {"read", "write", "fsync"} => p = fpos[t]
    PROVE  PosInv'
<1>1. LocalType /\ AtPos(t)
  BY DEF IInv, TypeOK, PosInv
<1>2. SysCall(op, n, v, p, a).op = op /\ SysCall(op, n, v, p, a).at = p
  BY Zenon DEF SysCall
<1>3. pc'[t] = "lock" /\ call'[t] = SysCall(op, n, v, p, a)
  BY <1>1 DEF Begin, Goto, LocalType
<1>4. AtPos(t)'
  BY <1>1, <1>2, <1>3 DEF AtPos
<1> QED
  BY <1>4, PosStep

\* A call begins where f_pos is, lseek and close are between calls.
LEMMA EnterPos ==
    ASSUME Blockwise, IInv, FlatInv, PosInv, NEW t \in Tasks, Enter(t)
    PROVE  PosInv'
<1>1. CASE Open(t) \/ Fsync(t)
  BY <1>1, PosBegin DEF Open, Fsync
<1>2. ASSUME NEW op \in Reads, NEW p, op = "read" => p = fpos[t], ReadFrom(t, op, p)
      PROVE  PosInv'
  <2>1. PICK n \in ReadLens : Begin(t, SysCall(op, n, Hole, p, FALSE), "lock")
    BY <1>2 DEF ReadFrom
  <2>2. fpos' = fpos /\ op \notin {"open", "write", "fsync"}
    BY <1>2 DEF ReadFrom, Reads
  <2> QED
    BY <1>2, <2>1, <2>2, PosBegin
<1>3. ASSUME NEW op \in Writes, NEW p, op = "write" => p = fpos[t], WriteTo(t, op, p)
      PROVE  PosInv'
  <2>1. PICK n \in WriteLens, v \in Blocks, a \in Appends :
           Begin(t, SysCall(op, n, v, p, a), "lock")
    BY <1>3 DEF WriteTo
  <2>2. fpos' = fpos /\ op \notin {"open", "read", "fsync"}
    BY <1>3 DEF WriteTo, Writes
  <2> QED
    BY <1>3, <2>1, <2>2, PosBegin
<1>4. CASE Seek(t) \/ Close(t)
  <2>1. /\ pc[t] = "open" /\ call'[t] = call[t] /\ pc'[t] \in {"idle", "open"}
        /\ pc'[t] = "idle" => fpos'[t] = 0
    BY <1>4 DEF Seek, Close, Goto, IInv, TypeOK, LocalType
  <2>2. call[t].op = "none"
    BY <2>1 DEF FlatInv, InCall, NoCall
  <2>3. AtPos(t)'
    BY <2>1, <2>2 DEF AtPos, Reads, Writes
  <2> QED
    BY <2>3, PosStep
<1>5. ~Setattr(t)
  BY DEF Blockwise, Setattr
<1> QED
  BY <1>1, <1>2, <1>3, <1>4, <1>5 DEF Enter, Read, Pread, Write, Pwrite, Reads, Writes

\* A read leaves its position past what it got, and a write past its block.
LEMMA ClientPos ==
    ASSUME Sequential, Blockwise, IInv, AimInv, FlatInv, PosInv, NEW t \in Tasks,
           ReadClient(t) \/ WriteClient(t)
    PROVE  PosInv'
<1>1. LocalType /\ AtPos(t) /\ Step(t)
  BY DEF IInv, TypeOK, PosInv, Step
<1>2. CASE ReadClient(t)
  <2> DEFINE k == part[t]  p == ppos[t]  s == data[part[t]]  n == call[t].n
             m == Least(p + n, Len(s))
  <2>1. /\ k \in Chunks /\ p \in 0 .. CLen - 1 /\ n \in Nat /\ call[t].at = StartOf(k) + p
        /\ s \in Seq(Blocks \cup {Hole}) /\ Len(s) \in Nat /\ res'[t] = ReadAt(s, p, n)
        /\ UNCHANGED <<call, fpos>> /\ pc'[t] = "up" /\ call[t].op \in Reads
    BY <1>2, ReadFacts
  <2>2. ppos'[t] = p + Len(ReadAt(s, p, n))
    BY <1>1, <1>2 DEF ReadClient, LocalType
  <2>3. call[t].at % CLen = p
    BY <2>1, PosInPart
  <2>4. ReadAt(s, p, n) \in Seq(Blocks \cup {Hole})
    <3>1. p \in Nat
      BY <2>1
    <3> HIDE DEF p, s, n
    <3>2. m \in Nat /\ m <= Len(s)
      BY <2>1, <3>1 DEF Least
    <3>3. ReadAt(s, p, n) = SubSeq(s, p + 1, m)
      BY DEF ReadAt
    <3> HIDE DEF m
    <3>4. SubSeq(s, p + 1, m) \in Seq(Blocks \cup {Hole})
      BY <2>1, <3>1, <3>2
    <3> QED
      BY <3>3, <3>4
  <2>5. call[t].op \notin Writes /\ call[t].op # "open"
    BY <2>1 DEF Reads, Writes
  <2> HIDE DEF k, p, s, n
  <2>6. AtPos(t)'
    BY <1>1, <2>1, <2>2, <2>3, <2>4, <2>5 DEF AtPos
  <2> QED
    BY <1>1, <2>6, PosStep
<1>3. CASE WriteClient(t)
  <2>1. /\ part[t] \in Chunks /\ ppos[t] \in 0 .. CLen - 1
        /\ call[t].at = StartOf(part[t]) + ppos[t] /\ call[t].n = 1 /\ WritePos(t) = ppos[t]
    BY <1>3, WriteFacts DEF WriteClient
  <2>2. /\ UNCHANGED <<call, res, fpos>> /\ pc[t] = "io" /\ pc'[t] = "up"
        /\ call[t].op \in Writes
    BY <1>3, WriteData
  <2>3. ppos'[t] = ppos[t] + 1
    BY <1>1, <1>3, <2>1 DEF WriteClient, LocalType
  <2>4. call[t].at % CLen = ppos[t]
    BY <2>1, PosInPart
  <2>5. res'[t] \in Seq(Blocks \cup {Hole})
    <3>1. res'[t] = <<>>
      BY <2>2 DEF FlatInv, InCall
    <3> QED
      BY <3>1
  <2>6. call[t].op \notin Reads /\ call[t].op # "open"
    BY <2>2 DEF Reads, Writes
  <2>7. AtPos(t)'
    BY <1>1, <2>2, <2>3, <2>4, <2>5, <2>6 DEF AtPos
  <2> QED
    BY <1>1, <2>7, PosStep
<1> QED
  BY <1>2, <1>3

\* The other steps of a call do not touch f_pos before it returns, except that
\* copy_up_file sets it to where the call began.
LEMMA InsidePos ==
    ASSUME Sequential, Blockwise, OneWriter, IInv, AimInv, FlatInv, PosInv,
           NEW t \in Tasks, Step(t)
    PROVE  PosInv'
<1>1. LocalType /\ AtPos(t) /\ InCall(t) /\ ~Fault
  BY FaultFree DEF IInv, TypeOK, PosInv, FlatInv
<1>2. ASSUME call' = call, fpos' = fpos, pc'[t] \notin {"idle", "up", "sum"} PROVE PosInv'
  <2>1. AtPos(t)'
    BY <1>1, <1>2 DEF AtPos
  <2> QED
    BY <2>1, PosStep
<1>3. CASE Lock(t) \/ WalkOn(t) \/ TailOn(t) \/ TailEnd(t) \/ Create(t)
  <2>1. call' = call /\ fpos' = fpos /\ pc'[t] \in {"sync", "walk", "tail", "create", "setnew"}
    BY <1>1, <1>3 DEF Lock, WalkOn, TailOn, TailEnd, Create, Goto, LocalType
  <2> QED
    BY <1>2, <2>1
<1>4. CASE SetNew(t) \/ SetPrev(t) \/ SyncOn(t)
  <2>1. call' = call /\ fpos' = fpos /\ pc'[t] \in {"setnew", "setprev", "load", "sync"}
    BY <1>1, <1>4 DEF SetNew, SetPrev, SetField, SyncOn, LocalType
  <2> QED
    BY <1>2, <2>1
<1>5. CASE LoadNew(t)
  <2>1. call' = call
    BY <1>5, LoadSame
  <2>2. fpos' = fpos /\ pc'[t] = "io"
    BY <1>1, <1>5 DEF LoadNew, Goto, LocalType
  <2> QED
    BY <1>2, <2>1, <2>2
<1>6. CASE WalkFound(t)
  <2>1. /\ call' = call /\ fpos' = fpos /\ res' = res /\ pc[t] = "walk"
        /\ pc'[t] = IF call[t].op = "open" THEN "up" ELSE "io"
    BY <1>1, <1>6 DEF WalkFound, Goto, LocalType
  <2>2. CASE call[t].op = "open"
    <3>1. res'[t] = <<>> /\ <<>> \in Seq(Blocks \cup {Hole})
      BY <1>1, <2>1 DEF InCall
    <3>2. AtPos(t)'
      BY <1>1, <2>1, <2>2, <3>1 DEF AtPos, Reads, Writes
    <3> QED
      BY <3>2, PosStep
  <2> QED
    BY <1>2, <2>1, <2>2
<1>7. CASE WalkEnd(t) /\ call[t].op \in Writes
  <2>1. call' = call /\ fpos' = fpos /\ pc'[t] = "tail"
    BY <1>1, <1>7 DEF WalkEnd, Goto, LocalType
  <2> QED
    BY <1>2, <2>1
<1>8. CASE \/ WalkEnd(t) /\ call[t].op \notin Writes
           \/ WalkErr(t) \/ TailErr(t) \/ CreateErr(t) \/ SumEnd(t) \/ SyncEnd(t) \/ SyncErr(t)
  <2>1. PICK r : Return(t, r)
    BY <1>8 DEF WalkEnd, WalkErr, TailErr, CreateErr, SumEnd, SyncEnd, SyncErr
  <2> QED
    BY <2>1, PosReturn
<1>9. CASE WalkNoOpen(t) \/ SetErr(t) \/ SyncLost(t)
  BY <1>1, <1>9 DEF WalkNoOpen, SetErr, SyncLost
<1>10. ~LoadNewErr(t)
  <2>1. pc[t] = "load" => Complete(ToChunk(t))
    BY FaultFree DEF IInv, TaskOK, ToChunk
  <2> QED
    BY <1>1, <2>1 DEF LoadNewErr
<1>11. CASE ReadClient(t) \/ WriteClient(t)
  BY <1>11, ClientPos
<1>12. ~ClientErr(t)
  <2>1. pc[t] = "io" => ~Refused(t)
    BY WriteFacts DEF Refused
  <2> QED
    BY <1>1, <2>1 DEF ClientErr
<1>13. CASE SumStart(t)
  <2>1. /\ pc[t] = "up" /\ pc'[t] = "sum" /\ fpos'[t] = FilePos(t)
        /\ UNCHANGED <<call, ppos, res>>
    BY <1>1, <1>13 DEF SumStart, Goto, LocalType
  <2>2. FilePos(t) = call[t].at
    BY <1>1, <2>1 DEF InCall, FilePos, Reads, Writes
  <2>3. call[t].op = "open" => call[t].at = 0
    BY <1>1 DEF InCall
  <2>4. AtPos(t)'
    BY <1>1, <2>1, <2>2, <2>3 DEF AtPos
  <2> QED
    BY <2>4, PosStep
<1>14. CASE SumOn(t)
  <2>1. UNCHANGED <<pc, call, fpos, ppos, res>>
    BY <1>14 DEF SumOn
  <2>2. AtPos(t)'
    BY <1>1, <2>1 DEF AtPos
  <2> QED
    BY <2>2, PosStep
<1> QED
  BY <1>3, <1>4, <1>5, <1>6, <1>7, <1>8, <1>9, <1>10, <1>11, <1>12, <1>13, <1>14 DEF Step

\* Nobody is in a call.
LEMMA InitPos ==
    ASSUME Init
    PROVE  PosInv
<1> SUFFICES ASSUME NEW t \in Tasks PROVE AtPos(t)
  BY DEF PosInv
<1>1. pc[t] = "idle" /\ fpos[t] = 0 /\ call[t] = NoCall /\ NoCall.op = "none"
  BY DEF Init, NoCall
<1> QED
  BY <1>1 DEF AtPos, Reads, Writes

\* f_pos is where the call began, and ppos past what it has transferred.
THEOREM PosInductive == OneWriter /\ Sequential /\ Blockwise => (Spec => []PosInv)
<1> SUFFICES ASSUME OneWriter, Sequential, Blockwise PROVE Spec => []PosInv
  OBVIOUS
<1>1. Init => PosInv
  BY InitPos
<1>2. IInv /\ ChainInv /\ AimInv /\ FlatInv /\ PosInv /\ [Next]_vars => PosInv'
  <2> SUFFICES ASSUME IInv, ChainInv, AimInv, FlatInv, PosInv, [Next]_vars PROVE PosInv'
    OBVIOUS
  <2>1. ASSUME NEW t \in Tasks, Enter(t) PROVE PosInv'
    BY <2>1, EnterPos
  <2>2. ASSUME NEW t \in Tasks, Step(t) PROVE PosInv'
    BY <2>2, InsidePos
  <2>3. CASE Evict \/ Restart \/ Lookup \/ LookupErr
    BY <2>3 DEF ChainInv, OneWriter, Evict, Restart, Lookup, LookupErr
  <2>4. CASE UNCHANGED vars
    <3>1. UNCHANGED <<pc, call, fpos, ppos, res>>
      BY <2>4 DEF vars, local
    <3> QED
      BY <3>1 DEF PosInv, AtPos
  <2> QED
    BY <2>1, <2>2, <2>3, <2>4 DEF Next
<1> QED
  BY <1>1, <1>2, Inductive, ChainInductive, AimInductive, FlatInductive, PTL DEF Spec

-----------------------------------------------------------------------------
(* Every step is one of the flat file                                      *)

AllInv == IInv /\ ChainInv /\ AimInv /\ FlatInv /\ PosInv

\* The content of the file in a reachable state
LEMMA ContentOf == AllInv => Content = FlatSeq
<1> SUFFICES ASSUME AllInv PROVE Content = FlatSeq
  OBVIOUS
<1>1. data \in [Chunks -> Seq(Blocks \cup {Hole})] /\ wend \in Nat
  BY DEF AllInv, IInv, TypeOK, DiskType, HistoryType
<1>2. Filled /\ Within(wend)
  BY DEF AllInv, FlatInv, AimInv
<1>3. ForwardLinked
  BY LinkLeads DEF AllInv, ChainInv, InChain, ForwardLinked
<1> QED
  BY <1>1, <1>2, <1>3, ContentIs DEF Shape

\* and in the one after it
LEMMA ContentNext == ASSUME AllInv' PROVE Content' = FlatSeq'
<1>1. (AllInv => Content = FlatSeq)'
  BY ContentOf, PTL
<1> QED
  BY <1>1

\* Its length is the end of the data.
LEMMA ContentLen ==
    ASSUME AllInv
    PROVE  Len(Content) = wend /\ wend \in Nat
<1>1. wend \in Nat
  BY DEF AllInv, IInv, TypeOK, HistoryType
<1> QED
  BY <1>1, ContentOf DEF FlatSeq

\* Without a client write it stays the same.
LEMMA ContentKept ==
    ASSUME AllInv, AllInv', UNCHANGED <<data, wend>>
    PROVE  Content' = Content
<1>1. FlatSeq' = FlatSeq
  BY DEF FlatSeq, BlockAt, PartAt, StartOf, Chunks
<1> QED
  BY <1>1, ContentOf, ContentNext

\* Only t's call comes into effect or ends in a step of t.
LEMMA DoneOf ==
    ASSUME IInv, NEW t \in Tasks, Enter(t) \/ Step(t)
    PROVE  /\ (t \in Done' <=> t \in Done) => Done' = Done
           /\ t \in Done' => Done' = Done \cup {t}
           /\ t \notin Done' => Done' = Done \ {t}
<1>1. \A u \in Tasks \ {t} : pc'[u] = pc[u] /\ call'[u] = call[u]
  BY StepOthers DEF Same
<1>2. \A u \in Tasks \ {t} : u \in Done' <=> u \in Done
  BY <1>1 DEF Done
<1>3. Done \subseteq Tasks /\ Done' \subseteq Tasks
  BY DEF Done
<1> QED
  BY <1>2, <1>3

\* A system call begins.
LEMMA SimCall ==
    ASSUME AllInv, AllInv', NEW t \in Tasks, Enter(t), NEW c, Begin(t, c, "lock"),
           c.lo = wend, c.op \in {"read", "write"} => c.at = fpos[t],
           pc[t] \in {"idle", "open"}, UNCHANGED <<data, wend, fpos>>
    PROVE  Flat!Call(t)
<1>1. /\ DOMAIN call = Tasks /\ DOMAIN pc = Tasks /\ InCall(t)
  BY DEF AllInv, IInv, TypeOK, LocalType, FlatInv
<1>2. /\ call[t] = NoCall /\ call'[t] = c /\ \A u \in Tasks \ {t} : call'[u] = call[u]
      /\ res' = [res EXCEPT ![t] = <<>>] /\ pc'[t] = "lock"
  BY <1>1 DEF InCall, Begin, Goto
<1>3. call'[t].lo = Len(Content) /\ Content' = Content
  BY <1>2, ContentLen, ContentKept
<1>4. call'[t].op \in {"read", "write"} => call'[t].at = fpos[t]
  BY <1>2
<1>5. Done' = Done
  <2>1. t \notin Done /\ t \notin Done'
    BY <1>2 DEF Done
  <2> QED
    BY <2>1, DoneOf DEF AllInv
<1> QED
  BY <1>2, <1>3, <1>4, <1>5 DEF Flat!Call

\* A call that is not over is one of the flat file.
LEMMA Calling ==
    ASSUME AllInv, NEW t \in Tasks, pc[t] \notin {"idle", "open"}
    PROVE  call[t] # NoCall
<1>1. InCall(t) /\ NoCall.op = "none"
  BY DEF AllInv, FlatInv, NoCall
<1> QED
  BY <1>1 DEF InCall, Reads, Writes

\* A system call returns.
LEMMA SimBack ==
    ASSUME AllInv, AllInv', NEW t \in Tasks, Step(t), NEW r, Return(t, r),
           UNCHANGED <<data, wend>>, pc[t] \notin {"idle", "open"}
    PROVE  /\ Flat!Back(t, r)
           /\ fpos' = [fpos EXCEPT ![t] = IF call[t].op \in {"read", "write"} /\ r # Err
                                          THEN ppos[t] ELSE fpos[t]]
           /\ fpos = [fpos EXCEPT ![t] = fpos[t]]
<1>1. call[t] # NoCall
  BY Calling
<1>2. /\ call' = [call EXCEPT ![t] = NoCall] /\ res' = [res EXCEPT ![t] = r]
      /\ fpos' = [fpos EXCEPT ![t] = IF call[t].op \in {"read", "write"} /\ r # Err
                                     THEN ppos[t] ELSE fpos[t]]
  BY DEF Return
<1>3. LocalType /\ IInv
  BY DEF AllInv, IInv, TypeOK
<1>4. Content' = Content
  BY ContentKept
<1>5. Done' = Done \ {t}
  <2>1. pc'[t] \in {"idle", "open"}
    BY <1>3 DEF Return, Goto, LocalType
  <2>2. t \notin Done'
    BY <2>1 DEF Done
  <2> QED
    BY <1>3, <2>2, DoneOf
<1>6. Flat!Back(t, r)
  BY <1>1, <1>2, <1>4, <1>5 DEF Flat!Back
<1>7. fpos = [fpos EXCEPT ![t] = fpos[t]]
  BY <1>3 DEF LocalType
<1> QED
  BY <1>2, <1>6, <1>7

\* The end of copy_up_inode is the end of a call that worked.
LEMMA SimWorked ==
    ASSUME AllInv, AllInv', NEW t \in Tasks, SumEnd(t)
    PROVE  Flat!Worked(t) \/ Flat!Other(t)
<1>1. /\ pc[t] = "sum" /\ Return(t, res[t]) /\ UNCHANGED <<data, wend>> /\ Step(t)
      /\ AtPos(t) /\ InCall(t)
  BY DEF SumEnd, disk, Step, AllInv, PosInv, FlatInv
<1>2. res[t] # Err /\ fpos[t] = call[t].at
  BY <1>1, ResultAssumption DEF AtPos
<1>3. /\ Flat!Back(t, res[t]) /\ fpos = [fpos EXCEPT ![t] = fpos[t]]
      /\ fpos' = [fpos EXCEPT ![t] = IF call[t].op \in {"read", "write"}
                                     THEN ppos[t] ELSE fpos[t]]
  BY <1>1, <1>2, SimBack
<1>4. CASE call[t].op \in Reads \cup Writes
  <2>1. t \in Done
    BY <1>1, <1>4 DEF Done
  <2>2. ppos[t] = (call[t].at % CLen) + (IF call[t].op \in Reads THEN Len(res[t]) ELSE call[t].n)
    <3>1. CASE call[t].op \in Reads
      BY <1>1, <3>1 DEF AtPos
    <3>2. CASE call[t].op \in Writes
      <4>1. call[t].op \notin Reads /\ call[t].n = 1
        BY <1>1, <3>2 DEF InCall, Reads, Writes
      <4> QED
        BY <1>1, <3>2, <4>1 DEF AtPos
    <3> QED
      BY <1>4, <3>1, <3>2
  <2> QED
    BY <1>2, <1>3, <2>1, <2>2 DEF Flat!Worked, Flat!Reads, Reads
<1>5. CASE call[t].op \notin Reads \cup Writes
  <2>1. call[t].op \notin {"read", "write"}
    BY <1>5 DEF Reads, Writes
  <2>2. fpos' = fpos
    BY <1>3, <2>1
  <2> QED
    BY <1>3, <1>5, <2>2 DEF Flat!Other, Flat!Reads, Flat!Writes, Reads, Writes
<1> QED
  BY <1>4, <1>5

\* The client's write changes the block of the call, and no other.
LEMMA SimPut ==
    ASSUME Sequential, Blockwise, AllInv, AllInv', NEW t \in Tasks, WriteClient(t)
    PROVE  Flat!Put(t)
<1> DEFINE j == part[t]  p == ppos[t]  at == call[t].at  v == call[t].v
<1>0. IInv /\ AimInv /\ FlatInv
  BY DEF AllInv
<1>1. /\ j \in Chunks /\ p \in 0 .. CLen - 1 /\ at = StartOf(j) + p /\ at \in Nat
      /\ call[t].n = 1 /\ at <= wend
      /\ StartOf(j) \in Nat /\ CLen \in Nat \ {0} /\ wend \in Nat
  BY <1>0, WriteFacts DEF WriteClient
<1>2. /\ \A k \in Chunks \ {j} : data'[k] = data[k]
      /\ data'[j] = WriteAt(data[j], p, 1, v)
      /\ wend' = Most(wend, at + 1)
      /\ UNCHANGED <<call, res, fpos>> /\ call[t].op \in Writes
  BY <1>0, WriteData
<1>3. /\ data \in [Chunks -> Seq(Blocks \cup {Hole})] /\ Shape
  <2>1. ForwardLinked
    BY LinkLeads DEF AllInv, ChainInv, InChain, ForwardLinked
  <2> QED
    BY <2>1 DEF AllInv, IInv, TypeOK, DiskType, HistoryType, FlatInv, AimInv, Shape
<1>4. Content = [i \in 1 .. wend |-> BlockAt(i)] /\ Len(Content) = wend
  BY ContentOf, ContentLen DEF FlatSeq
<1>5. Content' = [i \in 1 .. wend' |-> BlockAt(i)']
  BY ContentNext DEF FlatSeq
<1>6. wend' \in Nat /\ wend' = (IF at + 1 > wend THEN at + 1 ELSE wend)
  BY <1>1, <1>2 DEF Most
<1>7. ASSUME NEW i \in 1 .. wend'
      PROVE  BlockAt(i)' = IF at < i /\ i <= at + 1 THEN v ELSE BlockAt(i)
  <2>0. i \in Nat \ {0} /\ i <= wend'
    BY <1>6
  <2>1. wend' <= StartOf(NChunks) + CLen
    <3>1. NChunks \in Chunks /\ j <= NChunks
      BY <1>1, ChunkAssumption DEF Chunks
    <3>2. StartOf(j) <= StartOf(NChunks) /\ StartOf(NChunks) \in Nat
      BY <1>1, <3>1, StartsGrow
    <3>3. wend <= StartOf(NChunks) + CLen
      BY <1>3, DataEnds
    <3>4. at + 1 <= StartOf(j) + CLen
      BY <1>1
    <3>5. at + 1 <= StartOf(NChunks) + CLen
      <4> HIDE DEF at, j
      <4> QED
        BY <1>1, <3>2, <3>4
    <3> HIDE DEF at, j
    <3> QED
      BY <1>6, <3>3, <3>5
  <2>2. PICK k \in Chunks : StartOf(k) < i /\ i <= StartOf(k) + CLen
    <3>1. i <= StartOf(NChunks) + CLen
      <4>1. StartOf(NChunks) \in Nat
        BY <1>3, DataEnds
      <4> QED
        BY <1>1, <1>6, <2>0, <2>1, <4>1
    <3> QED
      BY <2>0, <3>1, PartsTile
  <2>3. PartAt(i) = k
    BY <2>0, <2>2, PartIs
  <2> DEFINE x == i - StartOf(k)
  <2>4. StartOf(k) \in Nat /\ x \in 1 .. CLen /\ i = StartOf(k) + x
    BY <1>1, <2>0, <2>2, StartFacts
  <2>5. BlockAt(i) = data[k][x]
    BY <2>3 DEF BlockAt
  <2>6. BlockAt(i)' = data'[k][x]
    BY <2>3 DEF BlockAt, PartAt, StartOf, Chunks
  <2> HIDE DEF x
  <2>7. CASE k # j
    <3>1. ~(at < i /\ i <= at + 1)
      <4>1. CASE i = at + 1
        <5>1. StartOf(j) < i /\ i <= StartOf(j) + CLen
          BY <1>1, <4>1
        <5> QED
          BY <1>1, <2>0, <2>3, <2>7, <5>1, PartIs
      <4> QED
        BY <1>1, <2>0, <4>1
    <3> QED
      BY <1>2, <2>5, <2>6, <2>7, <3>1
  <2>8. CASE k = j
    <3>1. (at < i /\ i <= at + 1) <=> (p < x /\ x <= p + 1)
      BY <1>1, <2>4, <2>8
    <3>2. Len(data[j]) \in Nat /\ data[j] \in Seq(Blocks \cup {Hole})
      BY <1>1, <1>3
    <3>3. ~(p < x /\ x <= p + 1) => x <= Len(data[j])
      <4> SUFFICES ASSUME ~(p < x /\ x <= p + 1) PROVE x <= Len(data[j])
        OBVIOUS
      <4>1. i <= wend
        BY <1>1, <1>6, <2>0, <3>1
      <4>2. wend > StartOf(j)
        BY <1>1, <2>0, <2>2, <2>8, <4>1
      <4>3. Len(data[j]) < CLen => wend = StartOf(j) + Len(data[j])
        BY <1>1, <1>3, <4>2, PartLens
      <4>4. x <= CLen /\ x <= wend - StartOf(j) /\ x \in Nat /\ Len(data[j]) \in Nat
        BY <1>1, <2>4, <2>8, <3>2, <4>1
      <4>5. StartOf(j) \in Nat /\ CLen \in Nat
        BY <1>1
      <4> HIDE DEF j
      <4> QED
        BY <4>3, <4>4, <4>5
    <3>4. x \in 1 .. Most(Len(data[j]), p + 1)
      <4>1. p \in Nat /\ x \in Nat \ {0} /\ Len(data[j]) \in Nat
        BY <1>1, <2>4, <3>2
      <4>2. x <= Len(data[j]) \/ x <= p + 1
        BY <3>3, <4>1
      <4> DEFINE l == Len(data[j])
      <4> HIDE DEF l, p
      <4> QED
        BY <4>1, <4>2 DEF Most, l
    <3>5. data'[j][x] = IF p < x /\ x <= p + 1 THEN v
                        ELSE IF x <= Len(data[j]) THEN data[j][x] ELSE Hole
      <4>1. p \in Nat
        BY <1>1
      <4>2. \A i1 \in 1 .. Most(Len(data[j]), p + 1) :
               WriteAt(data[j], p, 1, v)[i1] = IF p < i1 /\ i1 <= p + 1 THEN v
                        ELSE IF i1 <= Len(data[j]) THEN data[j][i1] ELSE Hole
        BY <3>2, <4>1, WriteLen
      <4> HIDE DEF j, p, v
      <4> QED
        BY <1>2, <3>4, <4>2
    <3> QED
      BY <2>5, <2>6, <2>8, <3>1, <3>3, <3>5
  <2> QED
    BY <2>7, <2>8
<1>8. Content' = Flat!Overwritten(Content, at, 1, v)
  <2>1. Flat!Overwritten(Content, at, 1, v) =
           [i \in 1 .. wend' |-> IF at < i /\ i <= at + 1 THEN v ELSE Content[i]]
    BY <1>4, <1>6 DEF Flat!Overwritten
  <2>2. ASSUME NEW i \in 1 .. wend', ~(at < i /\ i <= at + 1) PROVE Content[i] = BlockAt(i)
    <3>1. i \in 1 .. wend
      BY <1>1, <1>6, <2>2
    <3> QED
      BY <1>4, <3>1
  <2> QED
    BY <1>5, <1>7, <2>1, <2>2
<1>9. call[t] # NoCall
  BY <1>2 DEF NoCall, Writes
<1>10. t \notin Done /\ Done' = Done \cup {t}
  <2>1. pc[t] = "io" /\ pc'[t] = "up" /\ Step(t)
    BY <1>0, WriteData DEF Step
  <2>2. t \notin Done /\ t \in Done'
    BY <1>2, <2>1 DEF Done
  <2> QED
    BY <1>0, <2>1, <2>2, DoneOf
<1> QED
  BY <1>1, <1>2, <1>4, <1>8, <1>9, <1>10 DEF Flat!Put, Flat!Writes, Writes

\* The piece of a sequence after its a-th element up to the b-th
LEMMA SubSeqIs ==
    ASSUME NEW w, NEW a \in Nat, NEW b \in Nat, a < b
    PROVE  SubSeq(w, a + 1, b) = [i \in 1 .. b - a |-> w[a + i]]
<1> DEFINE S == {w[i] : i \in a + 1 .. b}
<1>1. \A i \in a + 1 .. b : w[i] \in S
  OBVIOUS
<1> HIDE DEF S
<1>2. a + 1 \in Int /\ b \in Int /\ (IF a + 1 <= b THEN b - (a + 1) + 1 ELSE 0) = b - a
      /\ b - (a + 1) + 1 = b - a /\ b - a \in Nat
  OBVIOUS
<1>3. /\ SubSeq(w, a + 1, b) \in Seq(S) /\ Len(SubSeq(w, a + 1, b)) = b - a
      /\ \A i \in 1 .. b - a : SubSeq(w, a + 1, b)[i] = w[(a + 1) + i - 1]
  BY <1>1, <1>2, SubSeqProperties
<1>4. SubSeq(w, a + 1, b) = [i \in 1 .. b - a |-> SubSeq(w, a + 1, b)[i]]
  BY <1>3, SeqIsFun
<1>5. \A i \in 1 .. b - a : (a + 1) + i - 1 = a + i
  OBVIOUS
<1> QED
  BY <1>3, <1>4, <1>5

\* The i-th block after position p of a part that starts at a
LEMMA Offsets ==
    ASSUME NEW a \in Nat, NEW p \in Nat, NEW i \in Nat \ {0}, NEW c \in Nat, NEW w \in Nat,
           p + i <= c, a + (p + i) <= w
    PROVE  p + i \in 1 .. c /\ (a + p) + i = a + (p + i) /\ (a + p) + i \in 1 .. w
  OBVIOUS

\* The client's read gets a piece of the file, or nothing at its end.
LEMMA SimGet ==
    ASSUME AllInv, AllInv', NEW t \in Tasks, ReadClient(t)
    PROVE  Flat!Get(t)
<1> DEFINE k == part[t]  p == ppos[t]  s == data[part[t]]  n == call[t].n  at == call[t].at
           m == Least(p + n, Len(s))
<1>0. IInv /\ AimInv /\ FlatInv
  BY DEF AllInv
<1>1. /\ k \in Chunks /\ p \in 0 .. CLen - 1 /\ at = StartOf(k) + p /\ at \in Nat
      /\ n \in Nat \ {0} /\ StartOf(k) \in Nat /\ CLen \in Nat \ {0} /\ wend \in Nat
      /\ s \in Seq(Blocks \cup {Hole}) /\ Len(s) \in Nat
      /\ res'[t] = ReadAt(s, p, n)
      /\ UNCHANGED <<data, wend, call, fpos>> /\ res[t] = <<>> /\ call[t].op \in Reads
  BY <1>0, ReadFacts
<1>2. Content' = Content
  BY <1>1, ContentKept
<1>3. res = [u \in Tasks |-> res[u]] /\ res' = [res EXCEPT ![t] = res'[t]]
  <2>1. res = [u \in Tasks |-> res[u]]
    BY <1>0 DEF FlatInv
  <2>2. \A u \in Tasks \ {t} : res'[u] = res[u]
    BY <1>0, ResOthers DEF Step
  <2>3. res' = [u \in Tasks |-> res'[u]]
    BY DEF AllInv, FlatInv
  <2> QED
    BY <2>1, <2>2, <2>3
<1>4. /\ res'[t] = SubSeq(s, p + 1, m) /\ m \in Nat /\ m <= Len(s) /\ m <= p + n
      /\ p \in Nat
  <2>1. p \in Nat /\ n \in Nat /\ Len(s) \in Nat
    BY <1>1
  <2>2. m \in Nat /\ m <= Len(s) /\ m <= p + n
    <3> HIDE DEF p, s, n
    <3> QED
      BY <2>1 DEF Least
  <2>3. res'[t] = SubSeq(s, p + 1, m)
    <3>1. res'[t] = ReadAt(s, p, n)
      BY <1>1
    <3> HIDE DEF p, s, n
    <3> QED
      BY <3>1 DEF ReadAt
  <2> QED
    BY <2>1, <2>2, <2>3
<1>5. Shape
  <2>1. ForwardLinked
    BY LinkLeads DEF AllInv, ChainInv, InChain, ForwardLinked
  <2> QED
    BY <2>1 DEF AllInv, IInv, TypeOK, DiskType, HistoryType, FlatInv, AimInv, Shape
<1>6. /\ Len(s) \in 0 .. CLen /\ (wend <= StartOf(k) => Len(s) = 0)
      /\ wend > StartOf(k) => wend >= StartOf(k) + Len(s)
  BY <1>1, <1>5, PartLens
<1>7. \A i \in 1 .. CLen : BlockAt(StartOf(k) + i) = s[i]
  BY <1>1, BlocksOf
<1>8. res'[t] \in Flat!Pieces(Content, at, n) \/ (at >= Len(Content) /\ res'[t] = <<>>)
         => Flat!Get(t)
  <2>1. call[t] # NoCall
    BY <1>1 DEF NoCall, Reads
  <2>2. t \notin Done /\ Done' = Done \cup {t}
    <3>1. pc[t] = "io" /\ pc'[t] = "up" /\ Step(t)
      BY <1>0, ReadFacts DEF Step
    <3>2. t \notin Done /\ t \in Done'
      BY <1>1, <3>1 DEF Done
    <3> QED
      BY <1>0, <3>1, <3>2, DoneOf
  <2> QED
    BY <1>1, <1>2, <1>3, <2>1, <2>2 DEF Flat!Get, Flat!Reads, Reads
<1> HIDE DEF k, p, s, n, at, m
<1>9. CASE m <= p
  <2>1. res'[t] = <<>>
    BY <1>4, <1>9, SubSeqEmpty
  <2>2. at >= Len(Content)
    <3>1. call[t].at >= wend
      BY <1>0, <2>1, ReadNothing
    <3> QED
      BY <3>1, ContentLen DEF at
  <2> QED
    BY <1>8, <2>1, <2>2
<1>10. CASE p < m
  <2> DEFINE e == StartOf(k) + m
  <2>1. StartOf(k) + Len(s) <= wend
    BY <1>1, <1>4, <1>6, <1>10
  <2>2. /\ e \in at + 1 .. (IF at + n > wend THEN wend ELSE at + n)
        /\ e <= wend /\ e \in Nat /\ at < e /\ e - at = m - p
    BY <1>1, <1>4, <1>10, <2>1
  <2>3. Content = [i \in 1 .. wend |-> BlockAt(i)] /\ Len(Content) = wend
    BY ContentOf, ContentLen DEF FlatSeq
  <2>4. ASSUME NEW i \in 1 .. m - p PROVE Content[at + i] = s[p + i]
    <3>1. p + i \in 1 .. CLen /\ at + i = StartOf(k) + (p + i) /\ at + i \in 1 .. wend
      <4>1. /\ p \in Nat /\ m \in Nat /\ i \in Nat \ {0} /\ p + i <= m /\ m <= Len(s)
            /\ StartOf(k) \in Nat /\ CLen \in Nat /\ wend \in Nat /\ at = StartOf(k) + p
            /\ Len(s) \in 0 .. CLen
        BY <1>1, <1>4, <1>6, <1>10
      <4>2. p + i <= CLen /\ StartOf(k) + (p + i) <= wend
        BY <2>1, <4>1
      <4> QED
        BY <4>1, <4>2, Offsets
    <3> QED
      BY <1>7, <2>3, <3>1
  <2>5. SubSeq(s, p + 1, m) = [i \in 1 .. m - p |-> s[p + i]]
    BY <1>4, <1>10, SubSeqIs
  <2> HIDE DEF e
  <2>6. SubSeq(Content, at + 1, e) = [i \in 1 .. e - at |-> Content[at + i]]
    <3>1. at \in Nat /\ e \in Nat /\ at < e
      BY <1>1, <2>2
    <3> QED
      BY <3>1, SubSeqIs
  <2>7. res'[t] = SubSeq(Content, at + 1, e)
    BY <1>4, <2>2, <2>4, <2>5, <2>6
  <2>8. res'[t] \in Flat!Pieces(Content, at, n)
    BY <2>2, <2>3, <2>7 DEF Flat!Pieces
  <2> QED
    BY <1>8, <2>8
<1> QED
  BY <1>4, <1>9, <1>10

\* What the flat file does not show
Hidden == UNCHANGED <<Content, call, Done, fpos, res>>

\* A step inside a call that changes nothing of it
LEMMA SimHidden ==
    ASSUME AllInv, AllInv', NEW t \in Tasks, Step(t), UNCHANGED <<data, wend, call, fpos, res>>,
           \/ pc[t] \in {"up", "sum"} <=> pc'[t] \in {"up", "sum"}
           \/ call[t].op \notin Reads \cup Writes
    PROVE  Hidden
<1>1. Content' = Content
  BY ContentKept
<1>2. t \in Done' <=> t \in Done
  BY DEF Done
<1>3. Done' = Done
  BY <1>2, DoneOf DEF AllInv
<1> QED
  BY <1>1, <1>3 DEF Hidden

\* A call that starts is a call of the flat file, lseek and close only move.
LEMMA SimEnter ==
    ASSUME Blockwise, AllInv, AllInv', NEW t \in Tasks, Enter(t)
    PROVE  Flat!Call(t) \/ Flat!Move(t)
<1>0. MaxPos \in Nat /\ DOMAIN fpos = Tasks
  BY InputAssumption DEF AllInv, IInv, TypeOK, LocalType
<1>1. \A op, n, v, p, a : SysCall(op, n, v, p, a).lo = wend /\ SysCall(op, n, v, p, a).op = op
                          /\ SysCall(op, n, v, p, a).at = p
  BY Zenon DEF SysCall
<1>2. ASSUME NEW op, NEW n, NEW v, NEW p, NEW a,
             op \in {"read", "write"} => p = fpos[t],
             Begin(t, SysCall(op, n, v, p, a), "lock"), pc[t] \in {"idle", "open"},
             UNCHANGED <<data, wend, fpos>>
      PROVE  Flat!Call(t)
  <2>1. /\ SysCall(op, n, v, p, a).lo = wend /\ SysCall(op, n, v, p, a).op = op
        /\ SysCall(op, n, v, p, a).at = p
    BY <1>1
  <2> QED
    BY <1>2, <2>1, SimCall
<1>3. CASE Open(t)
  <2>1. /\ Begin(t, SysCall("open", 0, Hole, 0, FALSE), "lock") /\ pc[t] = "idle"
        /\ UNCHANGED <<data, wend, fpos>>
    BY <1>3 DEF Open, disk
  <2> QED
    BY <1>2, <2>1
<1>4. CASE Read(t) \/ Pread(t)
  <2>1. PICK op \in {"read", "pread"} : \E p :
           (op = "read" => p = fpos[t]) /\ ReadFrom(t, op, p)
    BY <1>4 DEF Read, Pread
  <2>2. PICK p : (op = "read" => p = fpos[t]) /\ ReadFrom(t, op, p)
    BY <2>1
  <2>3. PICK n \in ReadLens : Begin(t, SysCall(op, n, Hole, p, FALSE), "lock")
    BY <2>2 DEF ReadFrom
  <2>4. pc[t] = "open" /\ UNCHANGED <<data, wend, fpos>>
    BY <2>2 DEF ReadFrom, disk
  <2> QED
    BY <1>2, <2>2, <2>3, <2>4
<1>5. CASE Write(t) \/ Pwrite(t)
  <2>1. PICK op \in {"write", "pwrite"} : \E p :
           (op = "write" => p = fpos[t]) /\ WriteTo(t, op, p)
    BY <1>5 DEF Write, Pwrite
  <2>2. PICK p : (op = "write" => p = fpos[t]) /\ WriteTo(t, op, p)
    BY <2>1
  <2>3. PICK n \in WriteLens, v \in Blocks, a \in Appends :
           Begin(t, SysCall(op, n, v, p, a), "lock")
    BY <2>2 DEF WriteTo
  <2>4. pc[t] = "open" /\ UNCHANGED <<data, wend, fpos>>
    BY <2>2 DEF WriteTo, disk
  <2> QED
    BY <1>2, <2>2, <2>3, <2>4
<1>6. CASE Fsync(t)
  <2>1. /\ Begin(t, SysCall("fsync", 0, Hole, fpos[t], FALSE), "lock") /\ pc[t] = "open"
        /\ UNCHANGED <<data, wend, fpos>>
    BY <1>6 DEF Fsync, disk
  <2> QED
    BY <1>2, <2>1
<1>7. CASE Seek(t) \/ Close(t)
  <2>1. /\ pc[t] = "open" /\ call' = call /\ UNCHANGED <<data, wend>>
        /\ res' = [res EXCEPT ![t] = <<>>]
        /\ \E p \in 0 .. MaxPos : fpos' = [fpos EXCEPT ![t] = p]
    BY <1>0, <1>7 DEF Seek, Close, disk
  <2>2. call[t] = NoCall
    BY <2>1 DEF AllInv, FlatInv, InCall
  <2>3. fpos'[t] \in 0 .. MaxPos /\ fpos' = [fpos EXCEPT ![t] = fpos'[t]]
    BY <1>0, <2>1
  <2>4. Content' = Content
    BY <2>1, ContentKept
  <2>5. Done' = Done
    <3>1. NoCall.op \notin Reads \cup Writes
      BY DEF NoCall, Reads, Writes
    <3>2. t \notin Done /\ t \notin Done'
      BY <2>1, <2>2, <3>1 DEF Done
    <3> QED
      BY <3>2, DoneOf DEF AllInv
  <2> QED
    BY <2>1, <2>2, <2>3, <2>4, <2>5 DEF Flat!Move
<1>8. ~Setattr(t)
  BY DEF Blockwise, Setattr
<1> QED
  BY <1>3, <1>4, <1>5, <1>6, <1>7, <1>8 DEF Enter

\* get_cont_at_offset does not show, except that a read may return from it.
LEMMA SimWalk ==
    ASSUME OneWriter, AllInv, AllInv', NEW t \in Tasks,
           Lock(t) \/ WalkOn(t) \/ WalkFound(t) \/ WalkNoOpen(t) \/ WalkEnd(t) \/ WalkErr(t)
    PROVE  Hidden \/ Flat!Ret(t)
<1>0. IInv /\ AimInv /\ FlatInv /\ Step(t) /\ ~Fault
  BY FaultFree DEF AllInv, Step
<1>1. CASE Lock(t) \/ WalkOn(t) \/ WalkFound(t)
  <2>1. /\ UNCHANGED <<data, wend, call, fpos, res>> /\ pc[t] \in {"lock", "walk"}
        /\ pc'[t] \in {"sync", "walk", "io"} \/ call[t].op = "open"
    BY <1>0, <1>1 DEF Lock, WalkOn, WalkFound, Goto, disk, IInv, TypeOK, LocalType
  <2>2. "open" \notin Reads \cup Writes
    BY DEF Reads, Writes
  <2> QED
    BY <1>0, <2>1, <2>2, SimHidden
<1>2. ~WalkNoOpen(t)
  BY <1>0 DEF WalkNoOpen
<1>3. CASE WalkEnd(t) /\ call[t].op \in Writes
  <2>1. /\ UNCHANGED <<data, wend, call, fpos, res>> /\ pc[t] = "walk" /\ pc'[t] = "tail"
    BY <1>0, <1>3 DEF WalkEnd, Goto, disk, IInv, TypeOK, LocalType
  <2> QED
    BY <1>0, <2>1, SimHidden
<1>4. CASE WalkEnd(t) /\ call[t].op \notin Writes
  <2>1. /\ pc[t] = "walk" /\ ~NextCont(t) /\ UNCHANGED <<data, wend>>
        /\ Return(t, IF call[t].op \in Reads THEN <<>> ELSE Err)
    BY <1>0, <1>4, NothingFound DEF WalkEnd, Nowhere, disk
  <2>2. part[t] \in Chunks /\ cd[t]["next"] = 0 /\ part[t] # 0
    BY <1>0, <2>1, WalkStops DEF Walking, Chunks
  <2>3. call[t].at >= StartOf(part[t]) + CLen
    BY <1>0, <2>1, <2>2 DEF AimInv, Aimed
  <2>4. call[t].lo <= StartOf(part[t]) + CLen
    BY <1>0, <2>1, <2>2 DEF FlatInv, NotBefore
  <2>5. /\ StartOf(part[t]) \in Nat /\ CLen \in Nat \ {0}
        /\ call[t].at \in Nat /\ call[t].lo \in Nat
    BY <1>0, <2>2, StartFacts, ChunkAssumption DEF IInv, TypeOK, LocalType, CallType
  <2>6. call[t].at >= call[t].lo /\ call[t].at # 0
    BY <2>3, <2>4, <2>5
  <2>7. res[t] = <<>> /\ call[t].op # "open"
    BY <1>0, <2>1, <2>6 DEF FlatInv, InCall
  <2>8. call[t].op \in Reads
    BY <1>0, <1>4, <2>1, <2>7 DEF IInv, PosOK
  <2>9. Return(t, <<>>)
    BY <2>1, <2>8
  <2>10. /\ Flat!Back(t, <<>>) /\ fpos = [fpos EXCEPT ![t] = fpos[t]]
         /\ fpos' = [fpos EXCEPT ![t] = IF call[t].op \in {"read", "write"} /\ <<>> # Err
                                        THEN ppos[t] ELSE fpos[t]]
    BY <1>0, <2>1, <2>9, SimBack
  <2>11. call[t].op \in {"read", "write"} => ppos[t] = fpos[t]
    BY <1>0, <2>1 DEF AllInv, PosInv, AtPos, IInv, PosOK
  <2>12. fpos' = fpos
    BY <2>10, <2>11
  <2>13. t \notin Done
    BY <2>1 DEF Done
  <2> QED
    BY <2>6, <2>8, <2>10, <2>12, <2>13 DEF Flat!Ret, Flat!AtEof, Flat!Reads, Reads
<1>5. ~WalkErr(t)
  <2>1. pc[t] = "walk" /\ ~NextCont(t) => AtEnd(t)
    BY <1>0, WalkStops DEF Walking
  <2> QED
    BY <1>0, <2>1, NothingFound DEF WalkErr, Enodata
<1> QED
  BY <1>1, <1>2, <1>3, <1>4, <1>5

\* Nor does create_continuation, except where there is no next chunk.
LEMMA SimCreate ==
    ASSUME OneWriter, AllInv, AllInv', NEW t \in Tasks,
           \/ TailOn(t) \/ TailEnd(t) \/ TailErr(t) \/ Create(t) \/ CreateErr(t)
           \/ SetNew(t) \/ SetPrev(t) \/ SetErr(t) \/ LoadNew(t) \/ LoadNewErr(t)
    PROVE  Hidden \/ Flat!Ret(t)
<1>0. IInv /\ AimInv /\ FlatInv /\ Step(t) /\ ~Fault /\ faults = 0
  BY FaultFree DEF AllInv, Step
<1>1. CASE TailOn(t) \/ TailEnd(t) \/ Create(t) \/ SetNew(t) \/ SetPrev(t)
  <2>1. /\ UNCHANGED <<data, wend, call, fpos, res>>
        /\ pc[t] \in {"tail", "create", "setnew", "setprev"}
    BY <1>1 DEF TailOn, TailEnd, Create, SetNew, SetPrev, SetField, disk
  <2>2. pc'[t] \in {"tail", "create", "setnew", "setprev", "load"}
    BY <1>0, <1>1 DEF TailOn, TailEnd, Create, SetNew, SetPrev, SetField, Goto, IInv, TypeOK,
       LocalType
  <2> QED
    BY <1>0, <2>1, <2>2, SimHidden
<1>2. CASE LoadNew(t)
  <2>1. call' = call
    BY <1>0, <1>2, LoadSame
  <2>2. UNCHANGED <<data, wend, fpos, res>> /\ pc[t] = "load" /\ pc'[t] = "io"
    BY <1>0, <1>2 DEF LoadNew, Goto, disk, IInv, TypeOK, LocalType
  <2> QED
    BY <1>0, <2>1, <2>2, SimHidden
<1>3. ~TailErr(t)
  <2>1. pc[t] = "tail" /\ ~NextCont(t) => AtEnd(t)
    BY <1>0, WalkStops DEF Walking
  <2> QED
    BY <1>0, <2>1, NothingFound DEF TailErr, Enoent, Enodata
<1>4. CASE CreateErr(t)
  <2>1. /\ pc[t] = "create" /\ part[t] + 1 \notin Chunks /\ Return(t, Err)
        /\ UNCHANGED <<data, wend>>
    BY <1>0, <1>4 DEF CreateErr, ToChunk, disk
  <2>2. part[t] \in Chunks /\ call[t].op \in Writes
    BY <1>0, <2>1 DEF IInv, TaskOK, PosOK, Creating
  <2>3. part[t] = NChunks
    BY <2>1, <2>2, ChunkAssumption DEF Chunks
  <2>4. call[t].at = StartOf(NChunks) + CLen
    BY <1>0, <2>1, <2>3 DEF AimInv, Aimed, Creating
  <2>5. StartOf(NChunks) + CLen = NChunks * CLen /\ NChunks * CLen \in Int
    <3>1. NChunks - 1 \in Nat /\ CLen \in Nat /\ (NChunks - 1) + 1 = NChunks
      BY ChunkAssumption
    <3>2. \A a, c \in Nat : a * c + c = (a + 1) * c /\ (a + 1) * c \in Int
      BY SMTT(30)
    <3> QED
      BY <3>1, <3>2 DEF StartOf
  <2>6. call[t].at >= NChunks * CLen
    BY <2>4, <2>5
  <2>7. Flat!Back(t, Err) /\ fpos' = fpos
    BY <1>0, <2>1, SimBack
  <2>8. t \notin Done
    BY <2>1 DEF Done
  <2> QED
    BY <2>2, <2>6, <2>7, <2>8 DEF Flat!Ret, Flat!NoSpace, Flat!Writes, Writes
<1>5. ~SetErr(t)
  BY <1>0 DEF SetErr
<1>6. ~LoadNewErr(t)
  <2>1. pc[t] = "load" => Complete(ToChunk(t))
    BY <1>0 DEF IInv, TaskOK, ToChunk
  <2> QED
    BY <1>0, <2>1 DEF LoadNewErr
<1> QED
  BY <1>1, <1>2, <1>3, <1>4, <1>5, <1>6

\* Reads, writes, what they copy up, and fsync.
LEMMA SimClient ==
    ASSUME Sequential, Blockwise, OneWriter, AllInv, AllInv', NEW t \in Tasks,
           \/ ReadClient(t) \/ WriteClient(t) \/ ClientErr(t)
           \/ SumStart(t) \/ SumOn(t) \/ SumEnd(t)
           \/ SyncOn(t) \/ SyncLost(t) \/ SyncEnd(t) \/ SyncErr(t)
    PROVE  Hidden \/ Flat!Put(t) \/ Flat!Get(t) \/ Flat!Reposition(t) \/ Flat!Ret(t)
<1>0. IInv /\ AimInv /\ FlatInv /\ Step(t) /\ ~Fault
  BY FaultFree DEF AllInv, Step
<1>1. CASE ReadClient(t)
  BY <1>1, SimGet DEF Hidden
<1>2. CASE WriteClient(t)
  BY <1>2, SimPut
<1>3. ~ClientErr(t)
  <2>1. pc[t] = "io" => ~Refused(t)
    BY <1>0, WriteFacts DEF Refused
  <2> QED
    BY <1>0, <2>1 DEF ClientErr
<1>4. CASE SumStart(t)
  <2>1. /\ pc[t] = "up" /\ pc'[t] = "sum" /\ fpos' = [fpos EXCEPT ![t] = FilePos(t)]
        /\ UNCHANGED <<data, wend, call, res>> /\ DOMAIN fpos = Tasks
    BY <1>0, <1>4 DEF SumStart, Goto, disk, IInv, TypeOK, LocalType
  <2>2. call[t].op \in {"open", "fsync"} \cup Reads \cup Writes /\ InCall(t) /\ AtPos(t)
    BY <1>0, <2>1 DEF FlatInv, InCall, AllInv, PosInv
  <2>3. FilePos(t) = call[t].at
    BY <2>2 DEF FilePos, Reads, Writes
  <2>4. CASE call[t].op \in {"pread", "pwrite"}
    <3>1. t \in Done /\ t \in Done'
      BY <2>1, <2>4 DEF Done, Reads, Writes
    <3>2. Done' = Done
      BY <1>0, <3>1, DoneOf
    <3>3. Content' = Content
      BY <2>1, ContentKept
    <3> QED
      BY <2>1, <2>3, <2>4, <3>1, <3>2, <3>3 DEF Flat!Reposition
  <2>5. CASE call[t].op \in {"read", "write", "open", "fsync"}
    <3>1. fpos[t] = call[t].at
      BY <2>2, <2>5 DEF AtPos, InCall
    <3>2. fpos' = fpos
      <4>1. fpos' = [fpos EXCEPT ![t] = fpos[t]]
        BY <2>1, <2>3, <3>1, Zenon
      <4>2. fpos \in [Tasks -> Nat]
        BY <1>0 DEF IInv, TypeOK, LocalType
      <4> QED
        BY <4>1, <4>2
    <3> QED
      BY <1>0, <2>1, <3>2, SimHidden
  <2> QED
    BY <2>2, <2>4, <2>5 DEF Reads, Writes
<1>5. CASE SumOn(t) \/ SyncOn(t)
  <2>1. UNCHANGED <<data, wend, call, fpos, res, pc>>
    BY <1>5 DEF SumOn, SyncOn, disk
  <2> QED
    BY <1>0, <2>1, SimHidden
<1>6. CASE SumEnd(t)
  BY <1>6, SimWorked DEF Flat!Ret
<1>7. ~SyncLost(t)
  BY <1>0 DEF SyncLost
<1>8. CASE SyncEnd(t)
  <2>1. pc[t] = "sync" /\ UNCHANGED <<data, wend>> /\ Return(t, <<>>)
    BY <1>8 DEF SyncEnd, disk
  <2>2. res[t] = <<>> /\ call[t].op = "fsync"
    BY <1>0, <2>1 DEF FlatInv, InCall, IInv, PosOK
  <2>3. Flat!Back(t, res[t]) /\ fpos' = fpos
    BY <1>0, <2>1, <2>2, SimBack
  <2> QED
    BY <2>2, <2>3 DEF Flat!Ret, Flat!Other, Flat!Reads, Flat!Writes
<1>9. ~SyncErr(t)
  <2>1. pc[t] = "sync" /\ ~NextCont(t) => AtEnd(t)
    BY <1>0, WalkStops DEF Walking
  <2> QED
    BY <1>0, <2>1, NothingFound DEF SyncErr, Enoent, Enodata
<1> QED
  BY <1>1, <1>2, <1>3, <1>4, <1>5, <1>6, <1>7, <1>8, <1>9

-----------------------------------------------------------------------------
(* The theorem                                                             *)

\* A chunkfs file is one file: with one writer that writes continuously, block
\* by block, and any number of readers, every step of the list of
\* continuations is one of the flat file or does not show.  A write takes
\* effect at one instant, a read returns a piece of the file as it is at one
\* instant, and says "end of file" only from where the file had ended.
THEOREM FlatCorrect == OneWriter /\ Sequential /\ Blockwise => (Spec => FlatSpec)
<1> SUFFICES ASSUME OneWriter, Sequential, Blockwise PROVE Spec => FlatSpec
  OBVIOUS
<1>1. Init => Flat!FInit
  <2> SUFFICES ASSUME Init PROVE Flat!FInit
    OBVIOUS
  <2>1. AllInv
    BY InitInv, InitChain, InitAim, InitFlat, InitPos DEF AllInv
  <2>2. Content = <<>>
    <3>1. wend = 0
      BY DEF Init
    <3> QED
      BY <2>1, <3>1, ContentOf DEF FlatSeq
  <2>3. Done = {}
    BY DEF Init, Done
  <2> QED
    BY <2>2, <2>3 DEF Init, Flat!FInit
<1>2. AllInv /\ AllInv' /\ [Next]_vars => [Flat!FNext]_(Flat!fvars)
  <2> SUFFICES ASSUME AllInv, AllInv', [Next]_vars
               PROVE  (\E t \in Tasks : \/ Flat!Reposition(t) \/ Flat!Call(t) \/ Flat!Put(t)
                                        \/ Flat!Get(t) \/ Flat!Ret(t) \/ Flat!Move(t))
                      \/ Hidden
    BY DEF Flat!FNext, Flat!fvars, Hidden
  <2>1. ASSUME NEW t \in Tasks, Enter(t) PROVE Flat!Call(t) \/ Flat!Move(t)
    BY <2>1, SimEnter
  <2>2. ASSUME NEW t \in Tasks, Step(t)
        PROVE  Hidden \/ Flat!Put(t) \/ Flat!Get(t) \/ Flat!Reposition(t) \/ Flat!Ret(t)
    BY <2>2, SimWalk, SimCreate, SimClient DEF Step
  <2>3. CASE Evict \/ Restart \/ Lookup \/ LookupErr
    BY <2>3 DEF AllInv, ChainInv, OneWriter, Evict, Restart, Lookup, LookupErr
  <2>4. CASE UNCHANGED vars
    <3>1. UNCHANGED <<data, wend, call, fpos, res, pc>>
      BY <2>4 DEF vars, disk, local
    <3>2. Done' = Done
      BY <3>1 DEF Done
    <3> QED
      BY <3>1, <3>2, ContentKept DEF Hidden
  <2> QED
    BY <2>1, <2>2, <2>3, <2>4 DEF Next
<1>3. Spec => []AllInv
  BY Inductive, ChainInductive, AimInductive, FlatInductive, PosInductive, PTL DEF AllInv
<1> QED
  BY <1>1, <1>2, <1>3, PTL DEF Spec, FlatSpec, Flat!FSpec
=============================================================================
