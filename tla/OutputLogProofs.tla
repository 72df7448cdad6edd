------------------------- MODULE OutputLogProofs -------------------------
(***************************************************************************)
(* Proofs about OutputLog: one reader never writes outside the buffer,     *)
(* whatever the UI and the user do to the log in the middle of its steps.  *)
(***************************************************************************)
EXTENDS OutputLog, FiniteSetTheorems, SequenceTheorems, TLAPS

LEMMA StrLenType == ASSUME NEW a PROVE StrLen(a) \in 0 .. Size + 1
<1> DEFINE S == {i \in Cells : \A j \in 0 .. i : a[j] # NUL}
<1>1. IsFiniteSet(Cells) /\ Cardinality(Cells) = Size + 1
  BY SizeAssumption, FS_Interval DEF Cells
<1>2. IsFiniteSet(S) /\ Cardinality(S) <= Cardinality(Cells)
  BY <1>1, FS_Subset
<1>3. Cardinality(S) \in Nat
  BY <1>2, FS_CardinalityType
<1> QED
  BY <1>1, <1>2, <1>3, SizeAssumption DEF StrLen

LEMMA ChunkType == ASSUME NEW c \in Chunks
                   PROVE  c \in Seq(Data) /\ Len(c) \in 1 .. Size - 1
<1>1. PICK n \in 1 .. Size - 1 : c \in [1 .. n -> Data]
  BY DEF Chunks
<1> QED
  BY <1>1, SizeAssumption

LEMMA InitIInv == Init => IInv
<1> SUFFICES ASSUME Init PROVE IInv
  OBVIOUS
<1>0. << >> \in Seq(Data)
  BY EmptySeq
<1>1. TypeOK
  <2>1. chunk \in [Readers -> Seq(Data)] /\ since \in Seq(Data)
    BY <1>0 DEF Init
  <2>2. output \in [Cells -> Data \cup {NUL}]
    BY DEF Init
  <2>3. rpc \in [Readers -> RStates] /\ upc \in UStates /\ torn \in BOOLEAN /\ overlapped \in BOOLEAN
    BY DEF Init, RStates, UStates
  <2>4. loaded \in [Readers -> Nat]
    BY DEF Init
  <2>5. len \in 0 .. Size - 1 /\ output_offset \in Nat
    BY SizeAssumption DEF Init
  <2> QED
    BY <2>1, <2>2, <2>3, <2>4, <2>5 DEF TypeOK
<1>2. OneReader
  BY DEF Init, OneReader, Live
<1>3. Room
  BY SizeAssumption DEF Init, Room
<1>4. LastCell
  BY SizeAssumption DEF Init, LastCell, Cells
<1>5. LogKept
  BY SizeAssumption, EmptySeq DEF Init, LogKept, Untorn, At, Appending, Cells
<1> QED
  BY <1>1, <1>2, <1>3, <1>4, <1>5 DEF IInv

(* Every step keeps the types.                                             *)
LEMMA NextTypeOK == TypeOK /\ Next => TypeOK'
<1> SUFFICES ASSUME TypeOK, Next PROVE TypeOK'
  OBVIOUS
<1> USE SizeAssumption DEF TypeOK, Cells, RStates, UStates, Goto, rvars, uvars
<1>1. ASSUME NEW r \in Readers, Spawn(r) \/ ReadEnd(r) \/ ReaderRewind(r) \/ LoadOffset(r)
      PROVE  TypeOK'
  <2>1. CASE Spawn(r)
    BY <2>1 DEF Spawn
  <2>2. CASE ReadEnd(r)
    BY <2>2 DEF ReadEnd
  <2>3. CASE ReaderRewind(r)
    BY <2>3 DEF ReaderRewind
  <2>4. CASE LoadOffset(r)
    BY <2>4 DEF LoadOffset
  <2> QED
    BY <1>1, <2>1, <2>2, <2>3, <2>4
<1>2. ASSUME NEW r \in Readers, ReadChunk(r)
      PROVE  TypeOK'
  BY <1>2, ChunkType DEF ReadChunk
<1>3. Zeroed \in [Cells -> Data \cup {NUL}]
  BY DEF Zeroed
<1>4. ASSUME NEW r \in Readers, ReaderZero(r)
      PROVE  TypeOK'
  BY <1>3, <1>4, EmptySeq DEF ReaderZero
<1>5. ASSUME NEW r \in Readers, Copy(r)
      PROVE  TypeOK'
  <2>1. \A k \in 1 .. Len(chunk[r]) : chunk[r][k] \in Data
    BY ElementOfSeq
  <2>2. Copied(chunk[r]) \in [Cells -> Data \cup {NUL}]
    BY <2>1 DEF Copied
  <2>3. since \o chunk[r] \in Seq(Data) /\ << >> \in Seq(Data)
    BY ConcatProperties, EmptySeq
  <2> QED
    BY <1>5, <2>2, <2>3 DEF Copy
<1>6. ASSUME NEW r \in Readers, StoreOffset(r)
      PROVE  TypeOK'
  BY <1>6, LenProperties DEF StoreOffset
<1>7. ASSUME NEW r \in Readers, Terminate(r)
      PROVE  TypeOK'
  BY <1>7 DEF Terminate
<1>8. CASE UiZero
  BY <1>3, <1>8, EmptySeq DEF UiZero
<1>9. CASE UiRewind
  BY <1>9 DEF UiRewind
<1>10. CASE DrawBegin
  BY <1>10, StrLenType DEF DrawBegin
<1>11. CASE DrawEnd
  BY <1>11 DEF DrawEnd
<1>12. ASSUME NEW i \in Cells, NEW b \in Data, Type(i, b)
       PROVE  TypeOK'
  <2>1. output' \in [Cells -> Data \cup {NUL}]
    BY <1>12 DEF Type
  <2>2. len' \in 0 .. Size - 1
    BY <1>12 DEF Type
  <2> QED
    BY <1>12, <2>1, <2>2 DEF Type
<1>13. ASSUME NEW i \in Cells, NEW n \in 1 .. Size, Erase(i, n)
       PROVE  TypeOK'
  <2>1. output' \in [Cells -> Data \cup {NUL}]
    BY <1>13 DEF Erase
  <2>2. len' \in 0 .. Size - 1
    BY <1>13 DEF Erase
  <2> QED
    BY <1>13, <2>1, <2>2 DEF Erase
<1> QED
  BY <1>1, <1>2, <1>4, <1>5, <1>6, <1>7, <1>8, <1>9, <1>10, <1>11, <1>12, <1>13
  DEF Next, Reader

(* Whether two readers overlapped is never forgotten.                      *)
LEMMA OverlapStays == TypeOK /\ Next /\ overlapped => overlapped'
BY DEF Next, Reader, Spawn, ReadChunk, ReadEnd, ReaderZero, ReaderRewind, Copy, LoadOffset,
       StoreOffset, Terminate, UiZero, UiRewind, DrawBegin, DrawEnd, Type, Erase, TypeOK

(* The user's edits change the text, its length and torn, nothing else,    *)
(* and never reach the last cell.                                          *)
Edit == \/ \E i \in Cells, b \in Data : Type(i, b)
        \/ \E i \in Cells, n \in 1 .. Size : Erase(i, n)

LEMMA EditChanges ==
  TypeOK /\ Edit => /\ UNCHANGED <<output_offset, rpc, chunk, loaded, upc, since, overlapped>>
                    /\ torn' = TRUE
                    /\ output'[Size] = output[Size]
<1> USE SizeAssumption DEF TypeOK, Cells, rvars
<1>1. ASSUME NEW i \in Cells, NEW b \in Data, TypeOK, Type(i, b)
      PROVE  output'[Size] = output[Size]
  BY <1>1 DEF Type
<1>2. ASSUME NEW i \in Cells, NEW n \in 1 .. Size, TypeOK, Erase(i, n)
      PROVE  output'[Size] = output[Size]
  BY <1>2 DEF Erase
<1> QED
  BY <1>1, <1>2 DEF Edit, Type, Erase

(* At most one reader is alive until two overlap.                          *)
LEMMA NextOneReader == TypeOK /\ OneReader /\ Next => OneReader'
<1> SUFFICES ASSUME TypeOK, OneReader, Next PROVE OneReader'
  OBVIOUS
<1> USE DEF TypeOK, OneReader, Live, Goto
<1>1. ASSUME NEW r \in Readers, Spawn(r) PROVE OneReader'
  BY <1>1 DEF Spawn
<1>2. ASSUME NEW r \in Readers, rpc[r] # "none", overlapped' = overlapped,
             NEW to, rpc' = [rpc EXCEPT ![r] = to]
      PROVE  OneReader'
  BY <1>2
<1>3. ASSUME NEW r \in Readers,
             \/ ReadChunk(r) \/ ReadEnd(r) \/ ReaderZero(r) \/ ReaderRewind(r) \/ Copy(r)
             \/ LoadOffset(r) \/ StoreOffset(r) \/ Terminate(r)
      PROVE  OneReader'
  <2>1. /\ rpc[r] # "none" /\ overlapped' = overlapped
        /\ \E to \in RStates : rpc' = [rpc EXCEPT ![r] = to]
    BY <1>3 DEF ReadChunk, ReadEnd, ReaderZero, ReaderRewind, Copy, LoadOffset,
                StoreOffset, Terminate, RStates
  <2> QED
    BY <1>2, <2>1
<1>4. CASE UiZero \/ UiRewind \/ DrawBegin \/ DrawEnd
  BY <1>4 DEF UiZero, UiRewind, DrawBegin, DrawEnd, rvars
<1>5. CASE Edit
  BY <1>5, EditChanges
<1> QED
  BY <1>1, <1>3, <1>4, <1>5 DEF Next, Reader, Edit

(* The room a reader has found stays.                                      *)
LEMMA NextRoom == TypeOK /\ OneReader /\ Room /\ Next => Room'
<1> SUFFICES ASSUME TypeOK, OneReader, Room, Next, ~overlapped'
             PROVE  /\ output_offset' < Size
                    /\ \A r \in Readers :
                         /\ rpc'[r] \in {"zero", "rewind"} => Len(chunk'[r]) < Size
                         /\ rpc'[r] \in {"copy", "load"} => output_offset' + Len(chunk'[r]) < Size
                         /\ rpc'[r] = "store" => loaded'[r] + Len(chunk'[r]) < Size
  BY DEF Room
<1>0. ~overlapped
  BY OverlapStays
<1>1. \A r \in Readers : Len(chunk[r]) \in Nat
  BY LenProperties DEF TypeOK
<1>2. \A r, s \in Readers : rpc[r] # "none" /\ rpc[s] # "none" => r = s
  BY <1>0 DEF OneReader, Live
<1> USE <1>0, <1>1, <1>2, SizeAssumption DEF TypeOK, Room, Goto, rvars, uvars
<1>3. ASSUME NEW r \in Readers, ReadChunk(r)
      PROVE  Room'
  <2>1. PICK c \in Chunks :
          /\ Goto(r, "read", IF output_offset + Len(c) >= Size THEN "zero" ELSE "copy")
          /\ chunk' = [chunk EXCEPT ![r] = c]
    BY <1>3 DEF ReadChunk
  <2>2. Len(c) \in 1 .. Size - 1
    BY ChunkType
  <2> QED
    BY <1>3, <2>1, <2>2 DEF ReadChunk
<1>4. ASSUME NEW r \in Readers, StoreOffset(r)
      PROVE  Room'
  BY <1>4 DEF StoreOffset
<1>5. ASSUME NEW r \in Readers, ReaderRewind(r)
      PROVE  Room'
  BY <1>5 DEF ReaderRewind
<1>6. ASSUME NEW r \in Readers, LoadOffset(r)
      PROVE  Room'
  BY <1>6 DEF LoadOffset
<1>7. ASSUME NEW r \in Readers,
             Spawn(r) \/ ReadEnd(r) \/ ReaderZero(r) \/ Copy(r) \/ Terminate(r)
      PROVE  Room'
  <2>1. /\ output_offset' = output_offset /\ chunk' = chunk /\ loaded' = loaded
        /\ \A s \in Readers : s # r => rpc'[s] = rpc[s]
    BY <1>7 DEF Spawn, ReadEnd, ReaderZero, Copy, Terminate
  <2>2. \/ rpc'[r] \in {"none", "read"}
        \/ rpc[r] = "zero" /\ rpc'[r] = "rewind"
        \/ rpc[r] = "copy" /\ rpc'[r] = "load"
    BY <1>7 DEF Spawn, ReadEnd, ReaderZero, Copy, Terminate
  <2> QED
    BY <2>1, <2>2
<1>8. CASE UiZero \/ UiRewind \/ DrawBegin \/ DrawEnd
  BY <1>8 DEF UiZero, UiRewind, DrawBegin, DrawEnd
<1>9. CASE Edit
  BY <1>9, EditChanges
<1> QED
  BY <1>3, <1>4, <1>5, <1>6, <1>7, <1>8, <1>9 DEF Next, Reader, Edit

(* The last cell is never written while there is one reader.               *)
LEMMA NextLastCell == TypeOK /\ OneReader /\ Room /\ LastCell /\ Next => LastCell'
<1> SUFFICES ASSUME TypeOK, OneReader, Room, LastCell, Next, ~overlapped'
             PROVE  output'[Size] = NUL
  BY DEF LastCell
<1>0. ~overlapped
  BY OverlapStays
<1>1. output[Size] = NUL /\ Size \in Cells
  BY <1>0, SizeAssumption DEF LastCell, Cells
<1> USE <1>0, <1>1, SizeAssumption DEF TypeOK
<1>2. ASSUME NEW r \in Readers, Copy(r) PROVE output'[Size] = NUL
  <2>1. Len(chunk[r]) \in Nat /\ output_offset + Len(chunk[r]) < Size
    BY <1>2, LenProperties DEF Copy, Goto, Room
  <2> QED
    BY <1>2, <2>1 DEF Copy, Copied
<1>3. ASSUME NEW r \in Readers, Terminate(r) PROVE output'[Size] = NUL
  BY <1>3 DEF Terminate
<1>4. Zeroed[Size] = NUL
  BY DEF Zeroed
<1>5. ASSUME NEW r \in Readers,
             \/ Spawn(r) \/ ReadChunk(r) \/ ReadEnd(r) \/ ReaderZero(r) \/ ReaderRewind(r)
             \/ LoadOffset(r) \/ StoreOffset(r)
      PROVE  output'[Size] = NUL
  BY <1>4, <1>5 DEF Spawn, ReadChunk, ReadEnd, ReaderZero, ReaderRewind, LoadOffset, StoreOffset
<1>6. CASE UiZero \/ UiRewind \/ DrawBegin
  BY <1>4, <1>6 DEF UiZero, UiRewind, DrawBegin
<1>7. CASE DrawEnd
  BY <1>7 DEF DrawEnd
<1>8. CASE Edit
  BY <1>8, EditChanges
<1> QED
  BY <1>2, <1>3, <1>5, <1>6, <1>7, <1>8 DEF Next, Reader, Edit

(* The length of a text is the place of its terminator.                    *)
LEMMA StrLenIs ==
  ASSUME NEW a, NEW n \in Cells, a[n] = NUL, \A i \in 0 .. n - 1 : a[i] # NUL
  PROVE  StrLen(a) = n
<1> DEFINE S == {i \in Cells : \A j \in 0 .. i : a[j] # NUL}
<1>1. S = 0 .. n - 1
  BY SizeAssumption DEF Cells
<1>2. Cardinality(0 .. n - 1) = n
  BY SizeAssumption, FS_Interval DEF Cells
<1> QED
  BY <1>1, <1>2 DEF StrLen

(* What the log shows while nobody has torn it and no reader is at work.   *)
LEMMA UntornShown ==
  ASSUME TypeOK, Untorn, Appending = {}
  PROVE  StrLen(output) = Len(since) /\ Shown = since
<1>0. \A r \in Readers : rpc[r] \in {"none", "read"}
  BY DEF Appending
<1>1. Len(since) \in Cells /\ output[Len(since)] = NUL
  <2>1. Len(since) \in Nat
    BY LenProperties DEF TypeOK
  <2>2. ~At({"load", "store", "terminate"})
    BY <1>0 DEF At
  <2> QED
    BY <2>1, <2>2, SizeAssumption DEF Untorn, Cells
<1>2. \A i \in 1 .. Len(since) : since[i] \in Data
  BY ElementOfSeq DEF TypeOK
<1>3. ASSUME NEW i \in 0 .. Len(since) - 1 PROVE output[i] # NUL
  <2>1. i + 1 \in 1 .. Len(since) /\ (i + 1) - 1 = i
    BY <1>1 DEF Cells
  <2> QED
    BY <1>2, <2>1, NulAssumption DEF Untorn
<1>4. StrLen(output) = Len(since)
  BY <1>1, <1>3, StrLenIs
<1>5. since = [i \in 1 .. Len(since) |-> since[i]]
  BY LenProperties DEF TypeOK
<1>6. Shown = [i \in 1 .. Len(since) |-> output[i - 1]]
  BY <1>4 DEF Shown
<1> QED
  BY <1>4, <1>5, <1>6 DEF Untorn

(* The log and its history stay together, step by step.                    *)
LEMMA NextLogKept ==
  TypeOK /\ OneReader /\ Room /\ LastCell /\ LogKept /\ Next => LogKept'
<1> SUFFICES ASSUME TypeOK, OneReader, Room, LastCell, LogKept, Next, ~torn', ~overlapped'
             PROVE  Untorn'
  BY DEF LogKept
<1>0. ~overlapped
  BY OverlapStays
<1>1. \A r, s \in Readers : rpc[r] # "none" /\ rpc[s] # "none" => r = s
  BY <1>0 DEF OneReader, Live
<1>2. \A r \in Readers : Len(chunk[r]) \in Nat
  BY LenProperties DEF TypeOK
<1>3. Len(since) \in Nat /\ Len(<< >>) = 0
  BY LenProperties DEF TypeOK
<1>4. Zeroed \in [Cells -> Data \cup {NUL}] /\ Zeroed[0] = NUL
  BY SizeAssumption DEF Zeroed, Cells, TypeOK
<1>5. CASE UiZero
  <2>1. upc' = "rewind" /\ output' = Zeroed /\ Len(since') = 0 /\ rpc' = rpc
    BY <1>3, <1>5 DEF UiZero, rvars
  <2>2. Appending = {} /\ Appending' = Appending
    BY <1>5 DEF UiZero, rvars, Appending, TypeOK
  <2>3. \A r \in Readers : rpc'[r] \in {"none", "read"}
    BY <2>1, <2>2 DEF Appending
  <2>4. \A S : ~At(S \ {"none", "read"})'
    BY <2>3 DEF At
  <2> QED
    BY <1>4, <2>1, <2>2, <2>3, SizeAssumption DEF Untorn, At
<1>6. ASSUME ~UiZero PROVE Untorn'
  <2>0. ~Edit
    BY EditChanges
  <2>1. ~torn
    BY <1>6, <2>0 DEF Next, Reader, Spawn, ReadChunk, ReadEnd, ReaderZero, ReaderRewind, Copy,
           LoadOffset, StoreOffset, Terminate, UiRewind, DrawBegin, DrawEnd, TypeOK, Edit
  <2>2. Untorn
    BY <1>0, <2>1 DEF LogKept
  <2> USE <1>0, <1>1, <1>2, <1>3, <2>1, <2>2, SizeAssumption DEF TypeOK, Goto
  <2>3. ASSUME NEW r \in Readers, Spawn(r) \/ ReadEnd(r) PROVE Untorn'
    <3>1. /\ UNCHANGED <<output, output_offset, chunk, loaded, upc, len, since>>
          /\ \A s \in Readers : s # r => rpc'[s] = rpc[s]
          /\ rpc[r] \in {"none", "read"} /\ rpc'[r] \in {"none", "read"}
      BY <2>3 DEF Spawn, ReadEnd, uvars
    <3> QED
      BY <3>1 DEF Untorn, At, Appending
  <2>4. ASSUME NEW r \in Readers, ReadChunk(r) PROVE Untorn'
    <3>1. /\ UNCHANGED <<output, output_offset, loaded, upc, len, since>>
          /\ \A s \in Readers : s # r => rpc'[s] = rpc[s] /\ chunk'[s] = chunk[s]
          /\ rpc[r] = "read" /\ rpc'[r] \in {"zero", "copy"}
          /\ upc = "idle"
      BY <2>4 DEF ReadChunk, uvars
    <3> QED
      BY <3>1 DEF Untorn, At, Appending
  <2>5. ASSUME NEW r \in Readers, rpc[r] \notin {"none", "read"}
        PROVE  upc = "idle" /\ \A s \in Readers : s # r => rpc[s] = "none"
    BY <2>5 DEF Untorn, Appending
  <2>6. ASSUME NEW r \in Readers, ReaderZero(r) PROVE Untorn'
    <3>1. /\ UNCHANGED <<output_offset, chunk, loaded, upc, len>>
          /\ output' = Zeroed /\ Len(since') = 0
          /\ rpc[r] = "zero" /\ rpc'[r] = "rewind"
          /\ \A s \in Readers : s # r => rpc'[s] = rpc[s]
      BY <2>6 DEF ReaderZero, uvars
    <3>2. upc = "idle" /\ \A s \in Readers : rpc[s] \in {"none", "zero"}
      BY <2>5, <3>1
    <3>3. \A s \in Readers : rpc'[s] \in {"none", "rewind"}
      BY <3>1, <3>2
    <3>4. At({"rewind"})'
      BY <3>1 DEF At
    <3> QED
      BY <1>4, <3>1, <3>2, <3>3, <3>4 DEF Untorn, At
  <2>7. ASSUME NEW r \in Readers, ReaderRewind(r) PROVE Untorn'
    <3>1. /\ UNCHANGED <<output, chunk, loaded, upc, len, since>>
          /\ output_offset' = 0
          /\ rpc[r] = "rewind" /\ rpc'[r] = "copy"
          /\ \A s \in Readers : s # r => rpc'[s] = rpc[s]
      BY <2>7 DEF ReaderRewind, uvars
    <3>2. Len(since) = 0 /\ output[Len(since)] = NUL /\ upc = "idle"
      BY <2>5, <3>1 DEF Untorn, At
    <3>3. \A s \in Readers : rpc[s] \in {"none", "rewind"}
      BY <2>5, <3>1
    <3>4. \A s \in Readers : rpc'[s] \in {"none", "copy"}
      BY <3>1, <3>3
    <3> QED
      BY <3>1, <3>2, <3>4 DEF Untorn, At
  <2>8. ASSUME NEW r \in Readers, Copy(r) PROVE Untorn'
    <3> DEFINE n == Len(since)
               k == Len(chunk[r])
    <3>1. /\ UNCHANGED <<output_offset, chunk, loaded, upc, len>>
          /\ output' = Copied(chunk[r]) /\ since' = since \o chunk[r]
          /\ rpc[r] = "copy" /\ rpc'[r] = "load"
          /\ \A s \in Readers : s # r => rpc'[s] = rpc[s]
      BY <2>8 DEF Copy, uvars
    <3>2. output_offset = n /\ n + k < Size
      BY <2>5, <3>1 DEF Untorn, At, Room
    <3>3. /\ Len(since') = n + k
          /\ \A i \in 1 .. n + k : since'[i] = IF i <= n THEN since[i] ELSE chunk[r][i - n]
      BY <3>1, ConcatProperties
    <3>4. ASSUME NEW i \in 1 .. n + k PROVE output'[i - 1] = since'[i]
      <4>1. i - 1 \in Cells
        BY <3>2 DEF Cells
      <4>2. output'[i - 1] = IF (i - 1) - n + 1 \in 1 .. k THEN chunk[r][(i - 1) - n + 1]
                                                         ELSE output[i - 1]
        BY <3>1, <3>2, <4>1 DEF Copied
      <4>3. (i - 1) - n + 1 = i - n /\ (i - n \in 1 .. k <=> ~(i <= n))
        OBVIOUS
      <4>4. i <= n => output[i - 1] = since[i]
        BY DEF Untorn
      <4> QED
        BY <3>3, <4>2, <4>3, <4>4
    <3> HIDE DEF n, k
    <3> QED
      BY <2>5, <3>1, <3>2, <3>3, <3>4 DEF Untorn, At, n, k
  <2>9. ASSUME NEW r \in Readers, LoadOffset(r) PROVE Untorn'
    <3>1. /\ UNCHANGED <<output, output_offset, chunk, upc, len, since>>
          /\ loaded'[r] = output_offset
          /\ rpc[r] = "load" /\ rpc'[r] = "store"
          /\ \A s \in Readers : s # r => rpc'[s] = rpc[s] /\ loaded'[s] = loaded[s]
      BY <2>9 DEF LoadOffset, uvars
    <3> QED
      BY <2>5, <3>1 DEF Untorn, At
  <2>10. ASSUME NEW r \in Readers, StoreOffset(r) PROVE Untorn'
    <3>1. /\ UNCHANGED <<output, chunk, loaded, upc, len, since>>
          /\ output_offset' = loaded[r] + Len(chunk[r])
          /\ rpc[r] = "store" /\ rpc'[r] = "terminate"
          /\ \A s \in Readers : s # r => rpc'[s] = rpc[s]
      BY <2>10 DEF StoreOffset, uvars
    <3> QED
      BY <2>5, <3>1 DEF Untorn, At
  <2>11. ASSUME NEW r \in Readers, Terminate(r) PROVE Untorn'
    <3>1. /\ UNCHANGED <<output_offset, chunk, loaded, upc, len, since>>
          /\ rpc[r] = "terminate" /\ rpc'[r] = "read"
          /\ \A s \in Readers : s # r => rpc'[s] = rpc[s]
      BY <2>11 DEF Terminate, uvars
    <3>2. output_offset = Len(since)
      BY <2>5, <3>1 DEF Untorn, At
    <3>3. output' = [output EXCEPT ![Len(since)] = NUL]
      BY <2>11, <3>2 DEF Terminate, Room
    <3> QED
      BY <2>5, <3>1, <3>2, <3>3 DEF Untorn, At, Cells
  <2>12. CASE UiRewind
    <3>1. /\ UNCHANGED <<output, rpc, chunk, loaded, since>>
          /\ output_offset' = 0 /\ upc = "rewind" /\ upc' = "idle"
      BY <2>12 DEF UiRewind, rvars
    <3>2. \A s \in Readers : rpc[s] \in {"none", "read"}
      BY <3>1 DEF Untorn, Appending
    <3> QED
      BY <3>1, <3>2 DEF Untorn, At
  <2>13. CASE DrawBegin
    <3>1. /\ UNCHANGED <<output, output_offset, rpc, chunk, loaded, since>>
          /\ upc = "idle" /\ upc' = "draw" /\ Appending = {}
      BY <2>13 DEF DrawBegin, rvars
    <3>2. StrLen(output) = Len(since)
      BY <3>1, UntornShown
    <3>3. len' = Len(since)
      <4>1. Len(since) < Size
        BY DEF Untorn
      <4>2. len' = IF Len(since) < Size - 1 THEN Len(since) ELSE Size - 1
        BY <2>13, <3>2 DEF DrawBegin
      <4> QED
        BY <4>1, <4>2
    <3> QED
      BY <3>1, <3>2, <3>3 DEF Untorn, At, Appending
  <2>14. CASE DrawEnd
    <3>1. /\ UNCHANGED <<output_offset, rpc, chunk, loaded, since>>
          /\ upc = "draw" /\ upc' = "idle"
      BY <2>14 DEF DrawEnd, rvars
    <3>2. \A s \in Readers : rpc[s] \in {"none", "read"}
      BY <3>1 DEF Untorn, Appending
    <3>3. output' = [output EXCEPT ![Len(since)] = NUL]
      <4>1. len = Len(since) /\ Len(since) < Size
        BY <3>1 DEF Untorn
      <4>2. output' = [output EXCEPT ![len] = NUL]
        BY <2>14 DEF DrawEnd
      <4> QED
        BY <4>1, <4>2
    <3> QED
      BY <3>1, <3>2, <3>3 DEF Untorn, At, Cells
  <2> QED
    BY <1>6, <2>0, <2>3, <2>4, <2>6, <2>7, <2>8, <2>9, <2>10, <2>11, <2>12, <2>13, <2>14
    DEF Next, Reader, Edit
<1> QED
  BY <1>5, <1>6
---------------------------------------------------------------------------
(* The invariant holds in every reachable state.                           *)
THEOREM Invariant == Spec => []IInv
<1>1. IInv /\ [Next]_vars => IInv'
  <2>1. ASSUME IInv, Next PROVE IInv'
    BY <2>1, NextTypeOK, NextOneReader, NextRoom, NextLastCell, NextLogKept DEF IInv
  <2>2. ASSUME IInv, UNCHANGED vars PROVE IInv'
    BY <2>2 DEF vars, rvars, uvars, IInv, TypeOK, OneReader, Room, LastCell, Live, LogKept,
                Untorn, At, Appending
  <2> QED
    BY <2>1, <2>2
<1> QED
  BY <1>1, InitIInv, PTL DEF Spec

(* The variables keep their types.                                         *)
THEOREM TypeCorrect == Spec => []TypeOK
<1>1. IInv => TypeOK
  BY DEF IInv
<1> QED
  BY <1>1, Invariant, PTL

(* One reader at a time writes within OUTBUF_SZ bytes and leaves room for  *)
(* the terminator, for every buffer size, however the UI clears and draws  *)
(* the log and the user edits it meanwhile (ui_start.c:57-65).             *)
THEOREM BoundsKept == Spec => []InBounds
<1>1. IInv => InBounds
  BY DEF IInv, Room, InBounds
<1> QED
  BY <1>1, Invariant, PTL

(* The strlen of the UI finds a terminator within the array                *)
(* (ui_end.c:211).                                                         *)
THEOREM AlwaysTerminated == Spec => []Terminated
<1>1. IInv => Terminated
  BY SizeAssumption DEF IInv, LastCell, Terminated, Cells
<1> QED
  BY <1>1, Invariant, PTL

(* For every buffer size and every output of QEMU: whenever the log is     *)
(* left alone it shows what was read since it was cleared, unless the UI   *)
(* cleared or drew it while a reader appended or the user edited it; and   *)
(* the next clearing mends a log so disturbed (ui_start.c:57-65,           *)
(* ui_end.c:209-212).                                                      *)
THEOREM LogShowsOutput == Spec => []LogExact
<1>1. IInv => LogExact
  <2> SUFFICES ASSUME IInv, ~torn, ~overlapped, Appending = {}, upc = "idle"
               PROVE  Shown = since /\ output_offset = Len(since)
    BY DEF LogExact
  <2>1. TypeOK /\ Untorn
    BY DEF IInv, LogKept
  <2>2. output_offset = Len(since)
    BY <2>1 DEF Untorn, At, Appending
  <2> QED
    BY <2>1, <2>2, UntornShown
<1> QED
  BY <1>1, Invariant, PTL
===========================================================================
