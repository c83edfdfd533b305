--------------------------- MODULE UnitTestProofs ---------------------------
(***************************************************************************)
(* The blocks of the unit tests, for every word width, memory size and     *)
(* choice of the values driven.  The memory implements a wrapping little-  *)
(* endian array of bytes and stays in step with its bench's model; the     *)
(* decoder, the ALU and the branch comparator agree with the references of *)
(* their benches and with the golden model on every instruction and word.  *)
(***************************************************************************)
EXTENDS UnitTests, WordProofs

-----------------------------------------------------------------------------
(* Addresses of the memory *)

LEMMA WordsNat == WORDS \in Nat \ {0} /\ 4 * WORDS \in Nat \ {0} /\ BYTES = 4 * WORDS
BY SizeAssumption DEF BYTES

LEMMA PlaceTypes ==
    ASSUME NEW at \in Nat
    PROVE  at % 4 \in 0 .. 3 /\ WordIndex(at) \in 0 .. WORDS - 1
BY WordsNat, DivisionFacts DEF WordIndex

\* An address by its word and its lane, and how often it runs round the array.
LEMMA Around ==
    ASSUME NEW at \in Nat
    PROVE  \E n \in Nat : at = (4 * WordIndex(at) + (at % 4)) + (4 * WORDS) * n
BY WordsNat, TwoDigits DEF WordIndex

\* The lanes of the addressed word above an address are the bytes after it.
LEMMA ByteAfter ==
    ASSUME NEW at \in Nat, NEW k \in 0 .. 3, (at % 4) + k < 4
    PROVE  (at + k) % (4 * WORDS) = 4 * WordIndex(at) + ((at % 4) + k)
<1> DEFINE u == 4 * WordIndex(at) + (at % 4)
<1>1. PICK n \in Nat : at = u + (4 * WORDS) * n
  BY Around
<1>2. u \in Int /\ u + k \in 0 .. (4 * WORDS) - 1
  BY PlaceTypes, WordsNat
<1>3. u + k = 4 * WordIndex(at) + ((at % 4) + k)
  BY PlaceTypes
<1> HIDE DEF u
<1>4. ((u + (4 * WORDS) * n) + k) % (4 * WORDS) = u + k
  BY <1>2, WordsNat, CircleUp
<1> QED BY <1>1, <1>3, <1>4

\* How far a byte of the addressed word lies above an address.
LEMMA Distance ==
    ASSUME NEW at \in Nat, NEW m \in 0 .. 3, m >= at % 4
    PROVE  ((4 * WordIndex(at) + m) - at) % (4 * WORDS) = m - (at % 4)
<1> DEFINE u == 4 * WordIndex(at) + (at % 4)
           x == 4 * WordIndex(at) + m
<1>1. PICK n \in Nat : at = u + (4 * WORDS) * n
  BY Around
<1>2. /\ u \in Int /\ x \in Int /\ x - u \in 0 .. (4 * WORDS) - 1
      /\ x - u = m - (at % 4)
  BY PlaceTypes, WordsNat
<1> HIDE DEF u, x
<1>3. (x - (u + (4 * WORDS) * n)) % (4 * WORDS) = x - u
  <2>1. n \in Int /\ 4 * WORDS \in Nat \ {0}
    BY WordsNat
  <2> QED BY <1>2, <2>1, CircleDown, Zenon
<1>4. (x - at) % (4 * WORDS) = m - (at % 4)
  BY <1>1, <1>2, <1>3
<1> QED BY <1>4 DEF x

-----------------------------------------------------------------------------
(* A store into the memory *)

\* The byte that a store puts d places above its address.
LEMMA LaneStored ==
    ASSUME op \in STORES, addr \in Nat, Bytes!Aligned(addr, Bytes!Width(op)),
           NEW l \in byte_en(addr, op)
    PROVE  /\ l \in Lane /\ l - (addr % 4) \in 0 .. Bytes!Width(op) - 1
           /\ wdata_lanes(op, wdata)[l] = Bytes!Digit(wdata, l - (addr % 4))
<1>0. addr % 4 \in 0 .. 3
  BY DivisionFacts
<1>1. CASE op = 0
  <2>1. l = addr % 4
    BY <1>1 DEF byte_en
  <2>2. wdata_lanes(op, wdata)[l] = wdata % ByteMod
    BY <1>0, <1>1, <2>1 DEF wdata_lanes, ToLanes, Lane
  <2>3. l - (addr % 4) = 0
    BY <1>0, <2>1
  <2> QED BY <1>0, <1>1, <2>1, <2>2, <2>3 DEF Lane, Bytes!Width, Bytes!Digit
<1>2. CASE op = 1
  <2>1. addr % 2 = 0
    BY <1>2 DEF Bytes!Aligned, Bytes!Width
  <2>2. half(addr) = addr % 4 /\ addr % 4 \in {0, 2}
    BY <2>1 DEF half
  <2>3. l \in {addr % 4, (addr % 4) + 1}
    BY <1>2, <2>2 DEF byte_en
  <2>4. l \in 0 .. 3 /\ l - (addr % 4) \in {0, 1} /\ l % 2 = l - (addr % 4)
    BY <2>2, <2>3
  <2>5. wdata_lanes(op, wdata)[l] = ToLanes(wdata)[l % 2]
    BY <1>2, <2>4 DEF wdata_lanes, Lane
  <2>6. Bytes!Digit(wdata, 0) = ToLanes(wdata)[0] /\ Bytes!Digit(wdata, 1) = ToLanes(wdata)[1]
    BY DEF Bytes!Digit, ToLanes, Lane
  <2>7. Bytes!Width(op) = 2
    BY <1>2 DEF Bytes!Width
  <2> QED BY <2>4, <2>5, <2>6, <2>7 DEF Lane
<1>3. CASE op = 2
  <2>1. Bytes!Width(op) = 4 /\ addr % 4 = 0
    BY <1>3 DEF Bytes!Aligned, Bytes!Width
  <2>2. l \in 0 .. 3 /\ wdata_lanes(op, wdata)[l] = ToLanes(wdata)[l]
    BY <1>3 DEF byte_en, wdata_lanes, Lane
  <2>3. ToLanes(wdata)[l] = Bytes!Digit(wdata, l)
    BY <2>2 DEF ToLanes, Lane, Bytes!Digit
  <2> QED BY <2>1, <2>2, <2>3 DEF Lane
<1> QED BY <1>1, <1>2, <1>3 DEF STORES

\* ... and it puts one on every place of its width.
LEMMA WidthEnabled ==
    ASSUME op \in STORES, addr \in Nat, Bytes!Aligned(addr, Bytes!Width(op)),
           NEW k \in 0 .. Bytes!Width(op) - 1
    PROVE  k \in 0 .. 3 /\ (addr % 4) + k < 4 /\ (addr % 4) + k \in byte_en(addr, op)
<1>0. addr % 4 \in 0 .. 3
  BY DivisionFacts
<1>1. CASE op = 0
  BY <1>0, <1>1 DEF Bytes!Width, byte_en
<1>2. CASE op = 1
  <2>1. addr % 2 = 0 /\ k \in {0, 1}
    BY <1>2 DEF Bytes!Aligned, Bytes!Width
  <2>2. half(addr) = addr % 4 /\ addr % 4 \in {0, 2}
    BY <2>1 DEF half
  <2> QED BY <1>2, <2>1, <2>2 DEF byte_en
<1>3. CASE op = 2
  BY <1>3 DEF Bytes!Aligned, Bytes!Width, byte_en, Lane
<1> QED BY <1>1, <1>2, <1>3 DEF STORES

LEMMA StoreBytes ==
    ASSUME MemoryTypeOK, op \in STORES, addr \in Nat,
           Bytes!Aligned(addr, Bytes!Width(op)),
           mem' = [mem EXCEPT ![WordIndex(addr)] = merged(@, addr, op, wdata)]
    PROVE  Bytes!Write(addr, op, wdata)
<1>1. \A i \in Index, l \in Lane :
        mem'[i][l] = IF i = WordIndex(addr) /\ l \in byte_en(addr, op)
                     THEN wdata_lanes(op, wdata)[l] ELSE mem[i][l]
  BY DEF MemoryTypeOK, merged
<1>2. ASSUME NEW x \in 0 .. (4 * WORDS) - 1
      PROVE  mem'[x \div 4][x % 4] =
               IF \E k \in 0 .. Bytes!Width(op) - 1 : x = (addr + k) % (4 * WORDS)
               THEN Bytes!Digit(wdata, (x - addr) % (4 * WORDS)) ELSE mem[x \div 4][x % 4]
  <2> DEFINE j == x \div 4
             m == x % 4
             l == addr % 4
  <2>1. j \in 0 .. WORDS - 1 /\ m \in 0 .. 3 /\ x = 4 * j + m
    BY WordsNat
  <2>2. l \in 0 .. 3 /\ WordIndex(addr) \in 0 .. WORDS - 1
    BY PlaceTypes
  <2>3. mem'[j][m] = IF j = WordIndex(addr) /\ m \in byte_en(addr, op)
                     THEN wdata_lanes(op, wdata)[m] ELSE mem[j][m]
    BY <1>1, <2>1 DEF Index, Lane
  <2>4. CASE j = WordIndex(addr) /\ m \in byte_en(addr, op)
    <3>1. /\ m - l \in 0 .. Bytes!Width(op) - 1
          /\ wdata_lanes(op, wdata)[m] = Bytes!Digit(wdata, m - l)
      <4>1. m \in byte_en(addr, op)
        BY <2>4
      <4> HIDE DEF j, m
      <4> QED BY <4>1, LaneStored
    <3>2. m >= l /\ m - l \in 0 .. 3 /\ l + (m - l) < 4 /\ l + (m - l) = m
      <4>1. Bytes!Width(op) \in {1, 2, 4}
        BY DEF Bytes!Width
      <4> HIDE DEF l, m
      <4> QED BY <2>1, <2>2, <3>1, <4>1
    <3>3. (x - addr) % (4 * WORDS) = m - l
      <4> HIDE DEF j, m
      <4>1. ((4 * WordIndex(addr) + m) - addr) % (4 * WORDS) = m - l
        BY <2>1, <3>2, Distance
      <4> QED BY <2>1, <2>4, <4>1
    <3>4. (addr + (m - l)) % (4 * WORDS) = x
      BY <2>1, <2>4, <3>2, ByteAfter
    <3> QED BY <2>3, <2>4, <3>1, <3>3, <3>4
  <2>5. CASE ~(j = WordIndex(addr) /\ m \in byte_en(addr, op))
    <3>1. ASSUME NEW k \in 0 .. Bytes!Width(op) - 1, x = (addr + k) % (4 * WORDS)
          PROVE  FALSE
      <4>1. k \in 0 .. 3 /\ l + k < 4 /\ l + k \in byte_en(addr, op)
        BY WidthEnabled
      <4>2. x = 4 * WordIndex(addr) + (l + k)
        BY <3>1, <4>1, ByteAfter
      <4>3. j = WordIndex(addr) /\ m = l + k
        <5>1. \A u, v, y \in Int, z \in 0 .. 3 : v \in 0 .. 3 /\ 4 * u + v = 4 * y + z
                                                => u = y /\ v = z
          OBVIOUS
        <5>2. l + k \in 0 .. 3 /\ j \in Int /\ WordIndex(addr) \in Int
          BY <2>1, <2>2, <4>1
        <5> HIDE DEF j, m, l
        <5> QED BY <2>1, <4>2, <5>1, <5>2
      <4> QED BY <2>5, <4>1, <4>3
    <3> QED BY <2>3, <2>5, <3>1
  <2> QED BY <2>4, <2>5
<1> QED BY <1>2, WordsNat DEF Bytes!Write, Bytes!Address, Bytes!Size, BYTES

-----------------------------------------------------------------------------
(* The memory's test bench *)

Driven ==
    /\ MemoryTypeOK
    /\ block \in UNITS
    /\ addr \in Nat /\ wdata \in Word
    /\ write => op \in STORES
    /\ phase = "ready" => ~write

LEMMA EdgeTypes ==
    ASSUME Driven, Edge PROVE MemoryTypeOK'
<1>1. WordIndex(addr) \in Index
  BY PlaceTypes DEF Driven, Index
<1>2. merged(mem[WordIndex(addr)], addr, op, wdata) \in MemWord
  BY <1>1, MergedType DEF Driven, MemoryTypeOK
<1> QED BY <1>2 DEF Driven, Edge, MemoryEdge, MemoryTypeOK

LEMMA DrivenStep ==
    ASSUME Driven, [Next]_vars PROVE Driven'
<1>0. 0 \in Word /\ BYTES \in Nat
  BY WordNat, WordsNat
<1>1. CASE UNCHANGED memoryVars /\ UNCHANGED block
  BY <1>1 DEF memoryVars, Driven, MemoryTypeOK
<1>2. CASE MemoryNext /\ UNCHANGED block
  <2>1. CASE setup
    BY <1>0, <1>2, <2>1, EdgeTypes DEF setup, Driven, Drive, STORES
  <2>2. CASE mem_random
    <3>1. MemoryTypeOK' /\ phase' = "driven"
      BY <2>2 DEF mem_random, Driven, MemoryTypeOK
    <3>2. addr' \in Nat /\ wdata' \in Word /\ (write' => op' \in STORES)
      BY <1>0, <2>2, DataAssumption DEF mem_random, Drive
    <3> QED BY <1>2, <3>1, <3>2 DEF Driven
  <2>3. CASE do_store \/ check_load
    BY <1>0, <1>2, <2>3, EdgeTypes DEF do_store, check_load, Driven, Drive
  <2>4. CASE NextTest
    BY <1>0, <1>2, <2>4 DEF NextTest, Driven, Drive, STORES, MemoryTypeOK
  <2> QED BY <1>2, <2>1, <2>2, <2>3, <2>4 DEF MemoryNext
<1> QED BY <1>1, <1>2 DEF Next, vars

LEMMA Begun == ASSUME Init PROVE Driven /\ Bytes!Init
<1>1. MemoryTypeOK
  BY WidthAssumption DEF Init, MemoryInit, MemoryIdle, MemoryTypeOK, MemWord, Byte
<1>2. Driven
  BY <1>1, WordNat DEF Init, MemoryInit, MemoryIdle, Driven, STORES, UNITS
<1>3. \A x \in 0 .. (4 * WORDS) - 1 : x \div 4 \in Index /\ x % 4 \in Lane
  BY WordsNat DEF Index, Lane
<1>4. \A x \in 0 .. (4 * WORDS) - 1 : mem[x \div 4][x % 4] \in Byte
  BY <1>1, <1>3 DEF MemoryTypeOK, MemWord
<1> QED BY <1>2, <1>4, WordsNat
        DEF Bytes!Init, Bytes!Address, Bytes!Size, BYTES, Byte, Bytes!Byte

\* What the memory refuses is what the byte array refuses.
LEMMA SameRefusal ==
    ASSUME addr \in Nat, op \in LOADS \cup STORES
    PROVE  unaligned(addr, op) <=> ~Bytes!Aligned(addr, Bytes!Width(op))
BY DEF LOADS, STORES, unaligned, Bytes!Aligned, Bytes!Width

LEMMA EdgeWrites ==
    ASSUME Driven, Edge
    PROVE  IF Accepted THEN Bytes!Write(addr, op, wdata) ELSE UNCHANGED mem
<1>1. CASE Accepted
  BY <1>1, SameRefusal, StoreBytes
     DEF Driven, Edge, MemoryEdge, d_misaligned, Accepted
<1>2. CASE ~Accepted
  BY <1>2, SameRefusal DEF Driven, Edge, MemoryEdge, d_misaligned, Accepted
<1> QED BY <1>1, <1>2

\* The memory of words, lanes, byte enables and replicated data implements the
\* array of bytes, whatever its size and width, and whatever a test bench does
\* with its data port (memory.sv:54-122).
THEOREM MemoryCorrect == Spec => RefinesBytes
<1> DEFINE Step == IF Accepted THEN Bytes!Write(addr, op, wdata) ELSE UNCHANGED mem
<1>1. Init => Driven /\ Bytes!Init
  BY Begun
<1>2. Driven /\ [Next]_vars => Driven'
  BY DrivenStep
<1>3. Driven /\ [Next]_vars => [Step]_memoryVars
  <2> SUFFICES ASSUME Driven, Next, ~UNCHANGED memoryVars PROVE Step
    BY DEF vars
  <2>1. MemoryNext
    BY DEF Next
  <2>2. CASE setup \/ do_store \/ check_load
    BY <2>2, EdgeWrites DEF setup, do_store, check_load
  <2>3. CASE mem_random \/ NextTest
    BY <2>3 DEF mem_random, NextTest, Driven, Accepted
  <2> QED BY <2>1, <2>2, <2>3 DEF MemoryNext
<1> HIDE DEF Step
<1>4. Spec => Bytes!Init /\ [][Step]_memoryVars
  BY <1>1, <1>2, <1>3, PTL DEF Spec
<1> QED BY <1>4 DEF RefinesBytes, Step

-----------------------------------------------------------------------------
(* The model of the memory's test bench *)

\* The bench's model is the golden model of another memory: the same operators.
LEMMA SameModel ==
    /\ \A o, x : model_misaligned(o, x) <=> Reference!Misaligned(o, x)
    /\ \A x : Model!HalfOffset(x) = Reference!HalfOffset(x)
    /\ \A v, k, n : Model!Slice(v, k, n) = Reference!Slice(v, k, n)
    /\ \A v, k, n, w : Model!Splice(v, k, n, w) = Reference!Splice(v, k, n, w)
    /\ \A x : Model!WordIndex(x) = WordIndex(x)
    /\ \A v, m : Model!SignExtend(v, m) = SignExtend(v, m)
<1>1. \A v : Model!Shift(v) = Reference!Shift(v)
  BY DEF Model!Shift, Reference!Shift
<1>2. \A o, x : model_misaligned(o, x) <=> Reference!Misaligned(o, x)
  BY DEF model_misaligned, Model!Misaligned, Reference!Misaligned
<1>3. \A x : Model!HalfOffset(x) = Reference!HalfOffset(x)
  BY DEF Model!HalfOffset, Reference!HalfOffset
<1>4. \A v, k, n : Model!Slice(v, k, n) = Reference!Slice(v, k, n)
  BY <1>1 DEF Model!Slice, Reference!Slice
<1>5. \A v, k, n, w : Model!Splice(v, k, n, w) = Reference!Splice(v, k, n, w)
  BY <1>1, <1>4 DEF Model!Splice, Reference!Splice
<1>6. /\ \A x : Model!WordIndex(x) = WordIndex(x)
      /\ \A v, m : Model!SignExtend(v, m) = SignExtend(v, m)
  BY DEF Model!WordIndex, WordIndex, Model!SignExtend, SignExtend, Model!Modulus, Modulus
<1> QED BY <1>2, <1>3, <1>4, <1>5, <1>6

\* Between two accesses the words are the model's; while setup runs, the words
\* below its address are cleared.
InStep ==
    /\ Driven
    /\ words \in [Index -> Word]
    /\ phase \in {"ready", "driven"} => \A i \in Index : FromLanes[mem[i]] = words[i]
    /\ phase = "setup" =>
           /\ op = 2 /\ write /\ wdata = 0 /\ addr % 4 = 0 /\ addr < BYTES
           /\ \A i \in Index : i < addr \div 4 => FromLanes[mem[i]] = 0
    /\ phase = "driven" => op \in LOADS

LEMMA StoredWord ==
    ASSUME MemoryTypeOK, words \in [Index -> Word], addr \in Nat, wdata \in Word,
           NEW i \in Index, FromLanes[mem[i]] = words[i], ~model_misaligned(op, addr),
           mem' = [mem EXCEPT ![WordIndex(addr)] = merged(@, addr, op, wdata)]
    PROVE  FromLanes[mem'[i]] = Model!Store(op, addr, wdata)[i]
<1> DEFINE j == WordIndex(addr)
<1>1. j \in Index /\ mem[j] \in MemWord /\ mem[i] \in MemWord
  BY PlaceTypes DEF Index, MemoryTypeOK
<1>2. CASE i # j
  <2>1. mem'[i] = mem[i]
    BY <1>2 DEF MemoryTypeOK
  <2>2. Model!Store(op, addr, wdata)[i] = words[i]
    BY <1>2, SameModel DEF Model!Store
  <2> QED BY <2>1, <2>2
<1>3. CASE i = j
  <2>1. mem'[i] = merged(mem[i], addr, op, wdata)
    BY <1>3 DEF MemoryTypeOK
  <2>2. FromLanes[merged(mem[i], addr, op, wdata)]
          = CASE op = 0 -> Reference!Splice(words[i], addr % 4, ByteMod, wdata)
              [] op = 1 -> Reference!Splice(words[i], half(addr), ByteMod * ByteMod, wdata)
              [] OTHER  -> wdata
    BY <1>1, SameMerge
  <2>3. Model!Store(op, addr, wdata)[i]
          = CASE op = 0 -> Model!Splice(words[i], addr % 4, ByteMod, wdata)
              [] op = 1 -> Model!Splice(words[i], Model!HalfOffset(addr),
                                        ByteMod * ByteMod, wdata)
              [] OTHER  -> wdata
    BY <1>3, SameModel DEF Model!Store
  <2>4. Model!HalfOffset(addr) = half(addr)
    BY SameModel, SameHalf
  <2> QED BY <2>1, <2>2, <2>3, <2>4, SameModel
<1> QED BY <1>2, <1>3

LEMMA EdgeStored ==
    ASSUME InStep, Edge
    PROVE  mem' = IF write /\ ~model_misaligned(op, addr)
                  THEN [mem EXCEPT ![WordIndex(addr)] = merged(@, addr, op, wdata)] ELSE mem
<1>1. unaligned(addr, op) <=> model_misaligned(op, addr)
  BY SameMisaligned, SameModel DEF InStep, Driven
<1> QED BY <1>1 DEF Edge, MemoryEdge, d_misaligned

LEMMA ClearedWord ==
    ASSUME InStep, Edge, phase = "setup"
    PROVE  \A i \in Index : i <= addr \div 4 => FromLanes[mem'[i]] = 0
<1>1. addr \in Nat /\ addr % 4 = 0 /\ addr < 4 * WORDS /\ op = 2 /\ write /\ wdata = 0
  BY WordsNat DEF InStep, Driven
<1>2. ~model_misaligned(op, addr)
  BY <1>1, SameModel DEF Reference!Misaligned
<1>3. mem' = [mem EXCEPT ![WordIndex(addr)] = merged(@, addr, op, wdata)]
  BY <1>1, <1>2, EdgeStored
<1>4. WordIndex(addr) = addr \div 4 /\ addr \div 4 \in Index
  BY <1>1, WordsNat DEF WordIndex, Index
<1>5. mem \in [Index -> MemWord] /\ mem[addr \div 4] \in MemWord
  BY <1>4 DEF InStep, Driven, MemoryTypeOK
<1>6. FromLanes[merged(mem[addr \div 4], addr, op, wdata)] = 0
  BY <1>1, <1>5, SameMerge, WordNat
<1>7. \A i \in Index : i < addr \div 4 => FromLanes[mem[i]] = 0
  BY <1>1 DEF InStep
<1>8. ASSUME NEW i \in Index, i <= addr \div 4 PROVE FromLanes[mem'[i]] = 0
  <2>1. CASE i = addr \div 4
    BY <1>3, <1>4, <1>5, <1>6, <2>1
  <2>2. CASE i # addr \div 4
    <3>1. i < addr \div 4
      BY <1>1, <1>8, <2>2 DEF Index
    <3> QED BY <1>3, <1>4, <1>5, <1>7, <2>2, <3>1
  <2> QED BY <2>1, <2>2
<1> QED BY <1>8

LEMMA InStepStep ==
    ASSUME InStep, [Next]_vars PROVE InStep'
<1>0. Driven' /\ 0 \in Word /\ BYTES = 4 * WORDS /\ WORDS \in Nat \ {0} /\ addr \in Nat
  BY DrivenStep, WordNat, WordsNat DEF InStep, Driven
<1>1. CASE UNCHANGED memoryVars /\ UNCHANGED block
  BY <1>0, <1>1 DEF memoryVars, InStep
<1>2. CASE setup
  <2>1. \A i \in Index : i <= addr \div 4 => FromLanes[mem'[i]] = 0
    BY <1>2, ClearedWord DEF setup
  <2>2. CASE addr + 4 < Cleared
    <3>1. /\ phase' = "setup" /\ op' = 2 /\ addr' = addr + 4 /\ write' = TRUE /\ wdata' = 0
          /\ words' = words
      BY <1>2, <2>2 DEF setup, Drive
    <3>2. (addr + 4) % 4 = 0 /\ (addr + 4) \div 4 = (addr \div 4) + 1 /\ addr + 4 < BYTES
      BY <1>0, <1>2, <2>2 DEF InStep, Cleared, setup
    <3>3. \A i \in Index : i < (addr + 4) \div 4 => FromLanes[mem'[i]] = 0
      BY <1>0, <2>1, <3>2 DEF Index
    <3> QED BY <1>0, <3>1, <3>2, <3>3 DEF InStep
  <2>3. CASE ~(addr + 4 < Cleared)
    <3>1. phase' = "ready" /\ words' = [i \in Index |-> 0]
      BY <1>2, <2>3 DEF setup
    <3>2. \A i \in Index : i <= addr \div 4
      BY <1>0, <2>3 DEF Cleared, Index
    <3>3. \A i \in Index : FromLanes[mem'[i]] = words'[i]
      BY <2>1, <3>1, <3>2
    <3> QED BY <1>0, <3>1, <3>3 DEF InStep
  <2> QED BY <2>2, <2>3
<1>3. CASE mem_random
  <2>1. phase = "ready" /\ phase' = "driven" /\ mem' = mem /\ words' = words /\ op' \in LOADS
    BY <1>3 DEF mem_random, Drive, LOADS, STORES
  <2> QED BY <1>0, <2>1 DEF InStep
<1>4. CASE do_store
  <2>1. phase = "driven" /\ phase' = "ready" /\ write /\ words' = model_store(op, addr, wdata)
    BY <1>4 DEF do_store
  <2>2. mem' = IF write /\ ~model_misaligned(op, addr)
               THEN [mem EXCEPT ![WordIndex(addr)] = merged(@, addr, op, wdata)] ELSE mem
    BY <1>4, EdgeStored DEF do_store
  <2>3. \A i \in Index : FromLanes[mem[i]] = words[i]
    BY <2>1 DEF InStep
  <2>4. MemoryTypeOK /\ words \in [Index -> Word] /\ wdata \in Word
    BY DEF InStep, Driven
  <2>5. CASE model_misaligned(op, addr)
    BY <1>0, <2>1, <2>2, <2>3, <2>4, <2>5 DEF model_store, InStep
  <2>6. CASE ~model_misaligned(op, addr)
    <3>1. words' = Model!Store(op, addr, wdata)
      BY <2>1, <2>6 DEF model_store
    <3>2. \A i \in Index : FromLanes[mem'[i]] = words'[i]
      BY <1>0, <2>1, <2>2, <2>3, <2>4, <2>6, <3>1, StoredWord
    <3>3. mem' \in [Index -> MemWord]
      BY <1>0 DEF Driven, MemoryTypeOK
    <3>4. \A i \in Index : words'[i] \in Word
      BY <3>2, <3>3, JoinType
    <3>5. words' \in [Index -> Word]
      <4>1. \E j, v : Model!Store(op, addr, wdata) = [words EXCEPT ![j] = v]
        BY DEF Model!Store
      <4>2. words' = [i \in Index |-> words'[i]]
        BY <2>4, <3>1, <4>1
      <4> QED BY <3>4, <4>2
    <3> QED BY <1>0, <2>1, <3>2, <3>5 DEF InStep
  <2> QED BY <2>5, <2>6
<1>5. CASE check_load
  <2>1. phase = "driven" /\ phase' = "ready" /\ ~write /\ words' = words
    BY <1>5 DEF check_load
  <2>2. mem' = mem
    BY <1>5, <2>1, EdgeStored DEF check_load
  <2> QED BY <1>0, <2>1, <2>2 DEF InStep
<1>6. CASE NextTest
  <2>1. /\ phase' = "setup" /\ mem' = mem /\ words' = words
        /\ op' = 2 /\ addr' = 0 /\ write' = TRUE /\ wdata' = 0
    BY <1>6 DEF NextTest, Drive
  <2>2. 0 % 4 = 0 /\ 0 < BYTES /\ \A i \in Index : ~(i < 0 \div 4)
    BY <1>0 DEF Index
  <2> QED BY <1>0, <2>1, <2>2 DEF InStep
<1> QED BY <1>1, <1>2, <1>3, <1>4, <1>5, <1>6 DEF Next, vars, MemoryNext

LEMMA InStepAlways == Spec => []InStep
<1>1. ASSUME Init PROVE InStep
  <2>1. Driven /\ 0 \in Word /\ BYTES = 4 * WORDS /\ WORDS \in Nat \ {0}
    BY <1>1, Begun, WordNat, WordsNat
  <2>2. \A i \in Index : ~(i < 0 \div 4)
    BY DEF Index
  <2>3. CASE MemoryInit
    BY <2>1, <2>2, <2>3 DEF MemoryInit, InStep
  <2>4. CASE MemoryIdle
    BY <2>1, <2>4 DEF MemoryIdle, InStep
  <2> QED BY <1>1, <2>3, <2>4 DEF Init
<1> QED BY <1>1, InStepStep, PTL DEF Spec

\* A load of the bench returns what the model reads.
LEMMA ModelLoads ==
    ASSUME InStep, phase = "driven" PROVE d_rdata(addr, op) = model_load(op, addr)
<1> DEFINE word == words[WordIndex(addr)]
<1>1. addr \in Nat /\ MemoryTypeOK /\ WordIndex(addr) \in Index
  BY PlaceTypes DEF InStep, Driven, Index
<1>2. FromLanes[mem[WordIndex(addr)]] = word
  BY <1>1 DEF InStep
<1>3. d_rdata(addr, op)
        = CASE op = 0 -> SignExtend(Reference!Slice(word, addr % 4, ByteMod), ByteMod)
            [] op = 1 -> SignExtend(Reference!Slice(word, Reference!HalfOffset(addr),
                                                    ByteMod * ByteMod), ByteMod * ByteMod)
            [] op = 4 -> Reference!Slice(word, addr % 4, ByteMod)
            [] op = 5 -> Reference!Slice(word, Reference!HalfOffset(addr), ByteMod * ByteMod)
            [] OTHER  -> word
  BY <1>1, <1>2, LoadSlices
<1> QED BY <1>3, SameModel DEF model_load, Model!Load

\* The bytes that an aligned load takes lie above its address.
LEMMA BytesAbove ==
    ASSUME MemoryTypeOK, addr \in Nat, NEW k \in 0 .. 3, (addr % 4) + k < 4
    PROVE  Bytes!At(addr, k) = mem[WordIndex(addr)][(addr % 4) + k]
<1> DEFINE x == 4 * WordIndex(addr) + ((addr % 4) + k)
<1>1. WordIndex(addr) \in 0 .. WORDS - 1 /\ (addr % 4) + k \in 0 .. 3
  BY PlaceTypes
<1>2. (addr + k) % (4 * WORDS) = x
  BY ByteAfter
<1>3. x \div 4 = WordIndex(addr) /\ x % 4 = (addr % 4) + k /\ x \in 0 .. (4 * WORDS) - 1
  <2>1. \A u \in Int, v \in 0 .. 3 : (4 * u + v) \div 4 = u /\ (4 * u + v) % 4 = v
    OBVIOUS
  <2>2. x \in 0 .. (4 * WORDS) - 1
    BY <1>1, WordsNat
  <2> QED BY <1>1, <2>1, <2>2
<1> HIDE DEF x
<1> QED BY <1>2, <1>3 DEF Bytes!At, Bytes!Size, BYTES

LEMMA BytesRead ==
    ASSUME MemoryTypeOK, addr \in Nat, op \in LOADS, Bytes!Aligned(addr, Bytes!Width(op))
    PROVE  d_rdata(addr, op) = Bytes!Read(addr, op)
<1> DEFINE k == addr % 4
           word == mem[WordIndex(addr)]
<1>1. k \in 0 .. 3
  BY PlaceTypes
<1>2. \A v, m : Bytes!SignExtend(v, m) = SignExtend(v, m)
  BY DEF Bytes!SignExtend, SignExtend, Bytes!Modulus, Modulus
<1>3. Bytes!At(addr, 0) = word[k]
  <2>1. k + 0 = k
    BY <1>1
  <2> QED BY <1>1, <2>1, BytesAbove
<1>4. CASE op \in {0, 4}
  <2>1. Bytes!Width(op) = 1
    BY <1>4 DEF Bytes!Width
  <2>2. Bytes!Value(addr, Bytes!Width(op)) = word[k]
    BY <1>3, <2>1 DEF Bytes!Value
  <2> QED BY <1>2, <1>4, <2>2 DEF d_rdata, Bytes!Read
<1>5. CASE op \in {1, 5}
  <2>1. Bytes!Width(op) = 2 /\ addr % 2 = 0
    BY <1>5 DEF Bytes!Width, Bytes!Aligned
  <2>2. half(addr) = k /\ k \in {0, 2}
    BY <2>1 DEF half
  <2>3. Bytes!At(addr, 1) = word[k + 1]
    BY <2>2, BytesAbove
  <2>4. Bytes!Value(addr, Bytes!Width(op)) = word[k] + ByteMod * word[k + 1]
    BY <1>3, <2>1, <2>3 DEF Bytes!Value
  <2> HIDE DEF k, word
  <2>5. d_rdata(addr, op) = IF op = 1 THEN SignExtend(word[k] + ByteMod * word[k + 1],
                                                      ByteMod * ByteMod)
                            ELSE word[k] + ByteMod * word[k + 1]
    BY <1>5, <2>2 DEF d_rdata, word
  <2> QED BY <1>2, <1>5, <2>4, <2>5 DEF Bytes!Read
<1>6. CASE op = 2
  <2>1. Bytes!Width(op) = 4 /\ k = 0
    BY <1>6 DEF Bytes!Width, Bytes!Aligned
  <2>2. /\ Bytes!At(addr, 1) = word[1] /\ Bytes!At(addr, 2) = word[2]
        /\ Bytes!At(addr, 3) = word[3]
    BY <2>1, BytesAbove
  <2>3. Bytes!Value(addr, Bytes!Width(op))
          = word[0] + ByteMod * (word[1] + ByteMod * (word[2] + ByteMod * word[3]))
    BY <1>3, <2>1, <2>2 DEF Bytes!Value
  <2>4. word \in MemWord
    BY PlaceTypes DEF Index, MemoryTypeOK
  <2>5. d_rdata(addr, op) = FromLanes[word]
    BY <1>6 DEF d_rdata
  <2> QED BY <1>6, <2>3, <2>4, <2>5 DEF Bytes!Read, FromLanes
<1> QED BY <1>4, <1>5, <1>6 DEF LOADS

\* At every clock edge between two accesses the array holds what tb_memory.py's
\* model holds, whatever was there before its setup cleared it.
THEOREM ModelCorrect == Spec => []ModelInStep
<1>1. ASSUME InStep PROVE ModelInStep
  <2> SUFFICES ASSUME phase \in {"ready", "driven"}
               PROVE  /\ \A i \in Index : FromLanes[mem[i]] = words[i]
                      /\ \A x \in Word : i_rdata(x) = words[WordIndex(x)]
    BY DEF ModelInStep
  <2>1. \A i \in Index : FromLanes[mem[i]] = words[i]
    BY <1>1 DEF InStep
  <2>2. \A x \in Word : WordIndex(x) \in Index
    BY PlaceTypes, WordNat DEF Index
  <2> QED BY <2>1, <2>2 DEF i_rdata
<1> QED BY <1>1, InStepAlways, PTL

\* Every access of the bench is refused exactly when the model and the byte
\* array refuse it, and every load returns the bytes stored (memory.sv:75-88).
THEOREM LoadCorrect == Spec => []LoadAgrees
<1>1. ASSUME InStep PROVE LoadAgrees
  <2> SUFFICES ASSUME phase = "driven"
               PROVE  /\ d_misaligned(addr, op, ~write, write) <=> model_misaligned(op, addr)
                      /\ d_misaligned(addr, op, ~write, write)
                           <=> ~Bytes!Aligned(addr, Bytes!Width(op))
                      /\ ~write => d_rdata(addr, op) = model_load(op, addr)
                      /\ ~write /\ ~model_misaligned(op, addr)
                           => d_rdata(addr, op) = Bytes!Read(addr, op)
    BY DEF LoadAgrees
  <2>1. addr \in Nat /\ op \in LOADS /\ MemoryTypeOK
    BY <1>1 DEF InStep, Driven
  <2>2. d_misaligned(addr, op, ~write, write) <=> unaligned(addr, op)
    BY DEF d_misaligned
  <2>3. unaligned(addr, op) <=> model_misaligned(op, addr)
    BY <2>1, SameMisaligned, SameModel
  <2>4. unaligned(addr, op) <=> ~Bytes!Aligned(addr, Bytes!Width(op))
    BY <2>1, SameRefusal
  <2>5. d_rdata(addr, op) = model_load(op, addr)
    BY <1>1, ModelLoads
  <2>6. Bytes!Aligned(addr, Bytes!Width(op)) => d_rdata(addr, op) = Bytes!Read(addr, op)
    BY <2>1, BytesRead
  <2> QED BY <2>2, <2>3, <2>4, <2>5, <2>6
<1> QED BY <1>1, InStepAlways, PTL

-----------------------------------------------------------------------------
(* The decoder *)

\* The ports by name, and which of them an illegal instruction mutes.
Muteable == {"reg_write", "mem_read", "mem_write", "branch", "jump", "jalr", "ecall",
             "ebreak"}
Selects  == {"alu_op", "alu_a_sel", "alu_b_sel", "imm_sel", "wb_sel", "mem_op"}
Ports    == Muteable \cup Selects \cup {"illegal"}

\* What a dictionary of ports has as its keys.
LEMMA PortsOf ==
    ASSUME NEW g
    PROVE  /\ PORTS(g) = [p \in Ports |-> PORTS(g)[p]]
           /\ DOMAIN Defaults(g) = Ports
           /\ DOMAIN Muted = Muteable /\ \A p \in Muteable : Muted[p] = FALSE
BY DEF PORTS, Ports, Muteable, Selects, Defaults, Muted

\* An illegal instruction has no effect on either side.
LEMMA MutedPorts ==
    ASSUME NEW g, illegal(g) PROVE \A p \in Muteable : PORTS(g)[p] = FALSE
<1>1. /\ reg_write(g) = FALSE /\ mem_read(g) = FALSE /\ mem_write(g) = FALSE
      /\ branch(g) = FALSE /\ jump(g) = FALSE /\ jalr(g) = FALSE
      /\ ecall(g) = FALSE /\ ebreak(g) = FALSE
  BY DEF reg_write, mem_read, mem_write, branch, jump, jalr, ecall, ebreak
<1> QED BY <1>1 DEF PORTS, Muteable

\* So the reference may be compared before it mutes.
LEMMA Unmuted ==
    ASSUME NEW g, NEW u,
           update(Defaults(g), u)["illegal"] = illegal(g),
           \A p \in Selects : update(Defaults(g), u)[p] = PORTS(g)[p],
           illegal(g) \/ \A p \in Muteable : update(Defaults(g), u)[p] = PORTS(g)[p]
    PROVE  LET c == update(Defaults(g), u)
           IN (IF c.illegal THEN update(c, Muted) ELSE c) = PORTS(g)
<1> DEFINE c == update(Defaults(g), u)
           d == IF c.illegal THEN update(c, Muted) ELSE c
<1> SUFFICES d = PORTS(g)
  OBVIOUS
<1>1. c = [p \in Ports |-> c[p]] /\ DOMAIN c = Ports
  <2>1. DOMAIN Defaults(g) = Ports
    BY PortsOf
  <2> QED BY <2>1 DEF update
<1>2. PORTS(g)["illegal"] = illegal(g) /\ PORTS(g) = [p \in Ports |-> PORTS(g)[p]]
  BY PortsOf DEF PORTS
<1>3. CASE illegal(g)
  <2>1. d = update(c, Muted)
    BY <1>3
  <2>2. \A p \in Ports : update(c, Muted)[p] = IF p \in Muteable THEN FALSE ELSE c[p]
    <3>1. DOMAIN Muted = Muteable /\ \A p \in Muteable : Muted[p] = FALSE
      BY PortsOf
    <3> HIDE DEF c
    <3> QED BY <1>1, <3>1 DEF update
  <2>3. \A p \in Ports : d[p] = PORTS(g)[p]
    BY <1>2, <1>3, <2>1, <2>2, MutedPorts DEF Ports
  <2>4. update(c, Muted) = [p \in Ports |-> update(c, Muted)[p]]
    <3> HIDE DEF c
    <3> QED BY <1>1 DEF update
  <2> HIDE DEF d
  <2> QED BY <1>2, <2>1, <2>3, <2>4
<1>4. CASE ~illegal(g)
  <2>1. d = c
    BY <1>4
  <2>2. \A p \in Ports : c[p] = PORTS(g)[p]
    BY <1>2, <1>4 DEF Ports
  <2> HIDE DEF d, c
  <2> QED BY <1>1, <1>2, <2>1, <2>2
<1> QED BY <1>3, <1>4

LEMMA Port ==
    ASSUME NEW g, NEW u, NEW p \in Ports
    PROVE  update(Defaults(g), u)[p] = IF p \in DOMAIN u THEN u[p] ELSE Defaults(g)[p]
BY PortsOf DEF update

LEMMA Signals ==
    ASSUME NEW g \in Instruction
    PROVE  /\ PORTS(g)["alu_a_sel"] = IF g.opcode = "LUI" THEN "ZERO"
                                      ELSE IF g.opcode = "AUIPC" THEN "PC" ELSE "RS1"
           /\ PORTS(g)["imm_sel"] = IF g.opcode \in {"LUI", "AUIPC"} THEN "U"
                                    ELSE IF g.opcode = "JAL" THEN "J"
                                    ELSE IF g.opcode = "BRANCH" THEN "B"
                                    ELSE IF g.opcode = "STORE" THEN "S" ELSE "I"
           /\ PORTS(g)["wb_sel"] = IF illegal(g) THEN "ALU"
                                   ELSE IF g.opcode \in {"JAL", "JALR"} THEN "PC4"
                                   ELSE IF g.opcode = "LOAD" THEN "MEM" ELSE "ALU"
           /\ PORTS(g)["alu_b_sel"] = alu_b_sel(g) /\ PORTS(g)["alu_op"] = alu_op(g)
           /\ PORTS(g)["mem_op"] = g.funct3 /\ PORTS(g)["illegal"] = illegal(g)
           /\ PORTS(g)["reg_write"] = reg_write(g) /\ PORTS(g)["mem_read"] = mem_read(g)
           /\ PORTS(g)["mem_write"] = mem_write(g) /\ PORTS(g)["branch"] = branch(g)
           /\ PORTS(g)["jump"] = jump(g) /\ PORTS(g)["jalr"] = jalr(g)
           /\ PORTS(g)["ecall"] = ecall(g) /\ PORTS(g)["ebreak"] = ebreak(g)
<1>1. alu_a_sel(g) = IF g.opcode = "LUI" THEN "ZERO"
                     ELSE IF g.opcode = "AUIPC" THEN "PC" ELSE "RS1"
  BY DEF alu_a_sel
<1>2. imm_sel(g) = IF g.opcode \in {"LUI", "AUIPC"} THEN "U"
                   ELSE IF g.opcode = "JAL" THEN "J"
                   ELSE IF g.opcode = "BRANCH" THEN "B"
                   ELSE IF g.opcode = "STORE" THEN "S" ELSE "I"
  BY DEF imm_sel
<1>3. wb_sel(g) = IF illegal(g) THEN "ALU"
                  ELSE IF g.opcode \in {"JAL", "JALR"} THEN "PC4"
                  ELSE IF g.opcode = "LOAD" THEN "MEM" ELSE "ALU"
  BY DEF wb_sel
<1> QED BY <1>1, <1>2, <1>3 DEF PORTS, mem_op

\* The updates of a legal instruction, and of an illegal one.
LEMMA LegalUpdate ==
    ASSUME NEW g \in Instruction, ~illegal(g)
    PROVE  LET u == ref_update(g) IN
           /\ g.opcode = "LUI" => u = [alu_a_sel |-> "ZERO", imm_sel |-> "U", reg_write |-> TRUE]
           /\ g.opcode = "AUIPC" => u = [alu_a_sel |-> "PC", imm_sel |-> "U", reg_write |-> TRUE]
           /\ g.opcode = "JAL" => u = [imm_sel |-> "J", reg_write |-> TRUE, wb_sel |-> "PC4",
                                      jump |-> TRUE]
           /\ g.opcode = "JALR" => u = [reg_write |-> TRUE, wb_sel |-> "PC4", jalr |-> TRUE]
           /\ g.opcode = "BRANCH" => u = [imm_sel |-> "B", illegal |-> FALSE, branch |-> TRUE]
           /\ g.opcode = "LOAD" => u = [reg_write |-> TRUE, wb_sel |-> "MEM", mem_read |-> TRUE]
           /\ g.opcode = "STORE" => u = [imm_sel |-> "S", illegal |-> FALSE, mem_write |-> TRUE]
           /\ g.opcode = "IMM" => u = [reg_write |-> TRUE, alu_op |-> alu_op(g), illegal |-> FALSE]
           /\ g.opcode = "REG" => u = [alu_b_sel |-> "RS2", reg_write |-> TRUE,
                                      alu_op |-> alu_op(g), illegal |-> FALSE]
           /\ g.opcode = "MISC_MEM" => u = [illegal |-> FALSE]
           /\ g.opcode = "SYSTEM" /\ g.sys = "ecall" => u = [ecall |-> TRUE]
           /\ g.opcode = "SYSTEM" /\ g.sys = "ebreak" => u = [ebreak |-> TRUE]
<1>1. g.opcode = "LUI" =>
        ref_update(g) = [alu_a_sel |-> "ZERO", imm_sel |-> "U", reg_write |-> TRUE]
  BY DEF ref_update
<1>2. g.opcode = "AUIPC" =>
        ref_update(g) = [alu_a_sel |-> "PC", imm_sel |-> "U", reg_write |-> TRUE]
  BY DEF ref_update
<1>3. g.opcode = "JAL" => ref_update(g) = [imm_sel |-> "J", reg_write |-> TRUE, wb_sel |-> "PC4",
                                      jump |-> TRUE]
  BY DEF ref_update
<1>4. g.opcode = "JALR" => ref_update(g) = [reg_write |-> TRUE, wb_sel |-> "PC4", jalr |-> TRUE]
  BY DEF ref_update, illegal
<1>5. ASSUME g.opcode = "BRANCH"
      PROVE  ref_update(g) = [imm_sel |-> "B", illegal |-> FALSE, branch |-> TRUE]
  <2>1. (g.funct3 \in {2, 3}) = FALSE /\ (g.funct3 \notin {2, 3}) = TRUE
    BY <1>5 DEF illegal
  <2> QED BY <1>5, <2>1 DEF ref_update
<1>6. g.opcode = "LOAD" => ref_update(g) = [reg_write |-> TRUE, wb_sel |-> "MEM", mem_read |-> TRUE]
  BY DEF ref_update, illegal
<1>9. ASSUME g.opcode = "REG"
      PROVE  ref_update(g) = [alu_b_sel |-> "RS2", reg_write |-> TRUE,
                              alu_op |-> alu_op(g), illegal |-> FALSE]
  <2>1. (g.funct7 # 0 /\ ~(g.funct7 = 32 /\ g.funct3 \in {0, 5})) = FALSE
    BY <1>9 DEF illegal
  <2>2. ref_bit30(g) * 8 + g.funct3 = alu_op(g)
    BY <1>9 DEF ref_bit30, alu_op, funct7_5, Instruction
  <2> QED BY <1>9, <2>1, <2>2 DEF ref_update
<1>7. ASSUME g.opcode = "STORE"
      PROVE  ref_update(g) = [imm_sel |-> "S", illegal |-> FALSE, mem_write |-> TRUE]
  <2>1. (g.funct3 > 2) = FALSE /\ (g.funct3 <= 2) = TRUE
    BY <1>7 DEF illegal, Instruction
  <2> QED BY <1>7, <2>1 DEF ref_update
<1>8. ASSUME g.opcode = "IMM"
      PROVE  ref_update(g) = [reg_write |-> TRUE, alu_op |-> alu_op(g), illegal |-> FALSE]
  <2>1. (\/ g.funct3 = 1 /\ g.funct7 # 0
         \/ g.funct3 = 5 /\ g.funct7 \notin {0, 32}) = FALSE
    BY <1>8 DEF illegal
  <2>2. (IF g.funct3 = 5 THEN ref_bit30(g) * 8 + g.funct3 ELSE g.funct3) = alu_op(g)
    BY <1>8 DEF ref_bit30, alu_op, funct7_5, Instruction
  <2> QED BY <1>8, <2>1, <2>2 DEF ref_update
<1>10. ASSUME g.opcode = "MISC_MEM" PROVE ref_update(g) = [illegal |-> FALSE]
  <2>1. (g.funct3 # 0) = FALSE
    BY <1>10 DEF illegal
  <2> QED BY <1>10, <2>1 DEF ref_update
<1>11. g.opcode = "SYSTEM" /\ g.sys = "ecall" => ref_update(g) = [ecall |-> TRUE]
  BY DEF ref_update
<1>12. g.opcode = "SYSTEM" /\ g.sys = "ebreak" => ref_update(g) = [ebreak |-> TRUE]
  BY DEF ref_update
<1> QED BY <1>1, <1>2, <1>3, <1>4, <1>5, <1>6, <1>7, <1>8, <1>9, <1>10, <1>11, <1>12

LEMMA RefusedUpdate ==
    ASSUME NEW g \in Instruction, illegal(g)
    PROVE  LET u == ref_update(g) IN
           /\ g.opcode \in {"UNDEFINED", "JALR", "LOAD", "SYSTEM", "MISC_MEM"}
                => u = [illegal |-> TRUE]
           /\ g.opcode = "BRANCH" => u = [imm_sel |-> "B", illegal |-> TRUE, branch |-> FALSE]
           /\ g.opcode = "STORE" => u = [imm_sel |-> "S", illegal |-> TRUE, mem_write |-> FALSE]
           /\ g.opcode = "IMM" => u = [reg_write |-> TRUE, alu_op |-> alu_op(g), illegal |-> TRUE]
           /\ g.opcode = "REG" => u = [alu_b_sel |-> "RS2", reg_write |-> TRUE,
                                      alu_op |-> alu_op(g), illegal |-> TRUE]
<1>1. ASSUME g.opcode \in {"UNDEFINED", "JALR", "LOAD"} PROVE ref_update(g) = [illegal |-> TRUE]
  BY <1>1 DEF ref_update, illegal, Refused
<1>2. ASSUME g.opcode = "SYSTEM" PROVE ref_update(g) = [illegal |-> TRUE]
  <2>1. g.sys = "other"
    BY <1>2 DEF illegal
  <2> QED BY <1>2, <2>1 DEF ref_update, Refused
<1>3. ASSUME g.opcode = "MISC_MEM" PROVE ref_update(g) = [illegal |-> TRUE]
  <2>1. (g.funct3 # 0) = TRUE
    BY <1>3 DEF illegal
  <2> QED BY <1>3, <2>1 DEF ref_update
<1>4. ASSUME g.opcode = "BRANCH"
      PROVE  ref_update(g) = [imm_sel |-> "B", illegal |-> TRUE, branch |-> FALSE]
  <2>1. (g.funct3 \in {2, 3}) = TRUE /\ (g.funct3 \notin {2, 3}) = FALSE
    BY <1>4 DEF illegal
  <2> QED BY <1>4, <2>1 DEF ref_update
<1>5. ASSUME g.opcode = "STORE"
      PROVE  ref_update(g) = [imm_sel |-> "S", illegal |-> TRUE, mem_write |-> FALSE]
  <2>1. (g.funct3 > 2) = TRUE /\ (g.funct3 <= 2) = FALSE
    BY <1>5 DEF illegal, Instruction
  <2> QED BY <1>5, <2>1 DEF ref_update
<1>6. ASSUME g.opcode = "IMM"
      PROVE  ref_update(g) = [reg_write |-> TRUE, alu_op |-> alu_op(g), illegal |-> TRUE]
  <2>1. (\/ g.funct3 = 1 /\ g.funct7 # 0
         \/ g.funct3 = 5 /\ g.funct7 \notin {0, 32}) = TRUE
    BY <1>6 DEF illegal
  <2>2. (IF g.funct3 = 5 THEN ref_bit30(g) * 8 + g.funct3 ELSE g.funct3) = alu_op(g)
    BY <1>6 DEF ref_bit30, alu_op, funct7_5, Instruction
  <2> QED BY <1>6, <2>1, <2>2 DEF ref_update
<1>7. ASSUME g.opcode = "REG"
      PROVE  ref_update(g) = [alu_b_sel |-> "RS2", reg_write |-> TRUE,
                              alu_op |-> alu_op(g), illegal |-> TRUE]
  <2>1. (g.funct7 # 0 /\ ~(g.funct7 = 32 /\ g.funct3 \in {0, 5})) = TRUE
    BY <1>7 DEF illegal
  <2>2. ref_bit30(g) * 8 + g.funct3 = alu_op(g)
    BY <1>7 DEF ref_bit30, alu_op, funct7_5, Instruction
  <2> QED BY <1>7, <2>1, <2>2 DEF ref_update
<1> QED BY <1>1, <1>2, <1>3, <1>4, <1>5, <1>6, <1>7

\* The ports that a legal instruction raises.
LEMMA Raised ==
    ASSUME NEW g \in Instruction, ~illegal(g)
    PROVE  /\ reg_write(g) = IF g.opcode \in {"LUI", "AUIPC", "JAL", "JALR", "LOAD", "IMM", "REG"}
                             THEN TRUE ELSE FALSE
           /\ mem_read(g)  = IF g.opcode = "LOAD" THEN TRUE ELSE FALSE
           /\ mem_write(g) = IF g.opcode = "STORE" THEN TRUE ELSE FALSE
           /\ branch(g)    = IF g.opcode = "BRANCH" THEN TRUE ELSE FALSE
           /\ jump(g)      = IF g.opcode = "JAL" THEN TRUE ELSE FALSE
           /\ jalr(g)      = IF g.opcode = "JALR" THEN TRUE ELSE FALSE
           /\ ecall(g)     = IF g.opcode = "SYSTEM" /\ g.sys = "ecall" THEN TRUE ELSE FALSE
           /\ ebreak(g)    = IF g.opcode = "SYSTEM" /\ g.sys = "ebreak" THEN TRUE ELSE FALSE
BY DEF reg_write, mem_read, mem_write, branch, jump, jalr, ecall, ebreak

\* It is enough to know the raised ports one by one.
LEMMA ByName ==
    ASSUME NEW g, NEW c,
           c["reg_write"] = reg_write(g), c["mem_read"] = mem_read(g),
           c["mem_write"] = mem_write(g), c["branch"] = branch(g), c["jump"] = jump(g),
           c["jalr"] = jalr(g), c["ecall"] = ecall(g), c["ebreak"] = ebreak(g)
    PROVE  \A p \in Muteable : c[p] = PORTS(g)[p]
<1>1. /\ PORTS(g)["reg_write"] = reg_write(g) /\ PORTS(g)["mem_read"] = mem_read(g)
      /\ PORTS(g)["mem_write"] = mem_write(g) /\ PORTS(g)["branch"] = branch(g)
      /\ PORTS(g)["jump"] = jump(g) /\ PORTS(g)["jalr"] = jalr(g)
      /\ PORTS(g)["ecall"] = ecall(g) /\ PORTS(g)["ebreak"] = ebreak(g)
  BY DEF PORTS
<1> QED BY <1>1 DEF Muteable

\* A legal instruction sets every port as the reference does.
LEMMA DecodeLegal ==
    ASSUME NEW g \in Instruction, ~illegal(g) PROVE ref_decode(g) = PORTS(g)
<1> DEFINE u == ref_update(g)
           c == update(Defaults(g), u)
<1>0. /\ g.opcode \in Opcodes
      /\ g.opcode = "SYSTEM" => g.sys \in {"ecall", "ebreak"}
  BY DEF illegal, Instruction
<1>a. /\ c["illegal"] = illegal(g)
      /\ \A p \in Selects : c[p] = PORTS(g)[p]
      /\ \A p \in Muteable : c[p] = PORTS(g)[p]
  <2>1. CASE g.opcode = "LUI"
    <3>1. u = [alu_a_sel |-> "ZERO", imm_sel |-> "U", reg_write |-> TRUE]
      BY <2>1, LegalUpdate
    <3> HIDE DEF u
    <3>2. /\ c["reg_write"] = TRUE /\ c["mem_read"] = FALSE /\ c["mem_write"] = FALSE
          /\ c["branch"] = FALSE /\ c["jump"] = FALSE /\ c["jalr"] = FALSE
          /\ c["ecall"] = FALSE /\ c["ebreak"] = FALSE
      BY <3>1, Port DEF Ports, Muteable, Defaults
    <3>3. c["illegal"] = FALSE
      BY <3>1, Port DEF Ports, Defaults
    <3>4. \A p \in Selects : c[p] = PORTS(g)[p]
      BY <2>1, <3>1, Port, Signals DEF Ports, Selects, Defaults, alu_op, alu_b_sel
    <3> HIDE DEF c
    <3>5. \A p \in Muteable : c[p] = PORTS(g)[p]
      <4>1. /\ reg_write(g) = TRUE /\ mem_read(g) = FALSE /\ mem_write(g) = FALSE
            /\ branch(g) = FALSE /\ jump(g) = FALSE /\ jalr(g) = FALSE
            /\ ecall(g) = FALSE /\ ebreak(g) = FALSE
        BY <2>1, Raised
      <4> QED BY <3>2, <4>1, ByName
    <3>6. illegal(g) = FALSE
      OBVIOUS
    <3> QED BY <3>3, <3>4, <3>5, <3>6
  <2>2. CASE g.opcode = "AUIPC"
    <3>1. u = [alu_a_sel |-> "PC", imm_sel |-> "U", reg_write |-> TRUE]
      BY <2>2, LegalUpdate
    <3> HIDE DEF u
    <3>2. /\ c["reg_write"] = TRUE /\ c["mem_read"] = FALSE /\ c["mem_write"] = FALSE
          /\ c["branch"] = FALSE /\ c["jump"] = FALSE /\ c["jalr"] = FALSE
          /\ c["ecall"] = FALSE /\ c["ebreak"] = FALSE
      BY <3>1, Port DEF Ports, Muteable, Defaults
    <3>3. c["illegal"] = FALSE
      BY <3>1, Port DEF Ports, Defaults
    <3>4. \A p \in Selects : c[p] = PORTS(g)[p]
      BY <2>2, <3>1, Port, Signals DEF Ports, Selects, Defaults, alu_op, alu_b_sel
    <3> HIDE DEF c
    <3>5. \A p \in Muteable : c[p] = PORTS(g)[p]
      <4>1. /\ reg_write(g) = TRUE /\ mem_read(g) = FALSE /\ mem_write(g) = FALSE
            /\ branch(g) = FALSE /\ jump(g) = FALSE /\ jalr(g) = FALSE
            /\ ecall(g) = FALSE /\ ebreak(g) = FALSE
        BY <2>2, Raised
      <4> QED BY <3>2, <4>1, ByName
    <3>6. illegal(g) = FALSE
      OBVIOUS
    <3> QED BY <3>3, <3>4, <3>5, <3>6
  <2>3. CASE g.opcode = "JAL"
    <3>1. u = [imm_sel |-> "J", reg_write |-> TRUE, wb_sel |-> "PC4", jump |-> TRUE]
      BY <2>3, LegalUpdate
    <3> HIDE DEF u
    <3>2. /\ c["reg_write"] = TRUE /\ c["mem_read"] = FALSE /\ c["mem_write"] = FALSE
          /\ c["branch"] = FALSE /\ c["jump"] = TRUE /\ c["jalr"] = FALSE
          /\ c["ecall"] = FALSE /\ c["ebreak"] = FALSE
      BY <3>1, Port DEF Ports, Muteable, Defaults
    <3>3. c["illegal"] = FALSE
      BY <3>1, Port DEF Ports, Defaults
    <3>4. \A p \in Selects : c[p] = PORTS(g)[p]
      BY <2>3, <3>1, Port, Signals DEF Ports, Selects, Defaults, alu_op, alu_b_sel
    <3> HIDE DEF c
    <3>5. \A p \in Muteable : c[p] = PORTS(g)[p]
      <4>1. /\ reg_write(g) = TRUE /\ mem_read(g) = FALSE /\ mem_write(g) = FALSE
            /\ branch(g) = FALSE /\ jump(g) = TRUE /\ jalr(g) = FALSE
            /\ ecall(g) = FALSE /\ ebreak(g) = FALSE
        BY <2>3, Raised
      <4> QED BY <3>2, <4>1, ByName
    <3>6. illegal(g) = FALSE
      OBVIOUS
    <3> QED BY <3>3, <3>4, <3>5, <3>6
  <2>4. CASE g.opcode = "JALR"
    <3>1. u = [reg_write |-> TRUE, wb_sel |-> "PC4", jalr |-> TRUE]
      BY <2>4, LegalUpdate
    <3> HIDE DEF u
    <3>2. /\ c["reg_write"] = TRUE /\ c["mem_read"] = FALSE /\ c["mem_write"] = FALSE
          /\ c["branch"] = FALSE /\ c["jump"] = FALSE /\ c["jalr"] = TRUE
          /\ c["ecall"] = FALSE /\ c["ebreak"] = FALSE
      BY <3>1, Port DEF Ports, Muteable, Defaults
    <3>3. c["illegal"] = FALSE
      BY <3>1, Port DEF Ports, Defaults
    <3>4. \A p \in Selects : c[p] = PORTS(g)[p]
      BY <2>4, <3>1, Port, Signals DEF Ports, Selects, Defaults, alu_op, alu_b_sel
    <3> HIDE DEF c
    <3>5. \A p \in Muteable : c[p] = PORTS(g)[p]
      <4>1. /\ reg_write(g) = TRUE /\ mem_read(g) = FALSE /\ mem_write(g) = FALSE
            /\ branch(g) = FALSE /\ jump(g) = FALSE /\ jalr(g) = TRUE
            /\ ecall(g) = FALSE /\ ebreak(g) = FALSE
        BY <2>4, Raised
      <4> QED BY <3>2, <4>1, ByName
    <3>6. illegal(g) = FALSE
      OBVIOUS
    <3> QED BY <3>3, <3>4, <3>5, <3>6
  <2>5. CASE g.opcode = "BRANCH"
    <3>1. u = [imm_sel |-> "B", illegal |-> FALSE, branch |-> TRUE]
      BY <2>5, LegalUpdate
    <3> HIDE DEF u
    <3>2. /\ c["reg_write"] = FALSE /\ c["mem_read"] = FALSE /\ c["mem_write"] = FALSE
          /\ c["branch"] = TRUE /\ c["jump"] = FALSE /\ c["jalr"] = FALSE
          /\ c["ecall"] = FALSE /\ c["ebreak"] = FALSE
      BY <3>1, Port DEF Ports, Muteable, Defaults
    <3>3. c["illegal"] = FALSE
      BY <3>1, Port DEF Ports, Defaults
    <3>4. \A p \in Selects : c[p] = PORTS(g)[p]
      BY <2>5, <3>1, Port, Signals DEF Ports, Selects, Defaults, alu_op, alu_b_sel
    <3> HIDE DEF c
    <3>5. \A p \in Muteable : c[p] = PORTS(g)[p]
      <4>1. /\ reg_write(g) = FALSE /\ mem_read(g) = FALSE /\ mem_write(g) = FALSE
            /\ branch(g) = TRUE /\ jump(g) = FALSE /\ jalr(g) = FALSE
            /\ ecall(g) = FALSE /\ ebreak(g) = FALSE
        BY <2>5, Raised
      <4> QED BY <3>2, <4>1, ByName
    <3>6. illegal(g) = FALSE
      OBVIOUS
    <3> QED BY <3>3, <3>4, <3>5, <3>6
  <2>6. CASE g.opcode = "LOAD"
    <3>1. u = [reg_write |-> TRUE, wb_sel |-> "MEM", mem_read |-> TRUE]
      BY <2>6, LegalUpdate
    <3> HIDE DEF u
    <3>2. /\ c["reg_write"] = TRUE /\ c["mem_read"] = TRUE /\ c["mem_write"] = FALSE
          /\ c["branch"] = FALSE /\ c["jump"] = FALSE /\ c["jalr"] = FALSE
          /\ c["ecall"] = FALSE /\ c["ebreak"] = FALSE
      BY <3>1, Port DEF Ports, Muteable, Defaults
    <3>3. c["illegal"] = FALSE
      BY <3>1, Port DEF Ports, Defaults
    <3>4. \A p \in Selects : c[p] = PORTS(g)[p]
      BY <2>6, <3>1, Port, Signals DEF Ports, Selects, Defaults, alu_op, alu_b_sel
    <3> HIDE DEF c
    <3>5. \A p \in Muteable : c[p] = PORTS(g)[p]
      <4>1. /\ reg_write(g) = TRUE /\ mem_read(g) = TRUE /\ mem_write(g) = FALSE
            /\ branch(g) = FALSE /\ jump(g) = FALSE /\ jalr(g) = FALSE
            /\ ecall(g) = FALSE /\ ebreak(g) = FALSE
        BY <2>6, Raised
      <4> QED BY <3>2, <4>1, ByName
    <3>6. illegal(g) = FALSE
      OBVIOUS
    <3> QED BY <3>3, <3>4, <3>5, <3>6
  <2>7. CASE g.opcode = "STORE"
    <3>1. u = [imm_sel |-> "S", illegal |-> FALSE, mem_write |-> TRUE]
      BY <2>7, LegalUpdate
    <3> HIDE DEF u
    <3>2. /\ c["reg_write"] = FALSE /\ c["mem_read"] = FALSE /\ c["mem_write"] = TRUE
          /\ c["branch"] = FALSE /\ c["jump"] = FALSE /\ c["jalr"] = FALSE
          /\ c["ecall"] = FALSE /\ c["ebreak"] = FALSE
      BY <3>1, Port DEF Ports, Muteable, Defaults
    <3>3. c["illegal"] = FALSE
      BY <3>1, Port DEF Ports, Defaults
    <3>4. \A p \in Selects : c[p] = PORTS(g)[p]
      BY <2>7, <3>1, Port, Signals DEF Ports, Selects, Defaults, alu_op, alu_b_sel
    <3> HIDE DEF c
    <3>5. \A p \in Muteable : c[p] = PORTS(g)[p]
      <4>1. /\ reg_write(g) = FALSE /\ mem_read(g) = FALSE /\ mem_write(g) = TRUE
            /\ branch(g) = FALSE /\ jump(g) = FALSE /\ jalr(g) = FALSE
            /\ ecall(g) = FALSE /\ ebreak(g) = FALSE
        BY <2>7, Raised
      <4> QED BY <3>2, <4>1, ByName
    <3>6. illegal(g) = FALSE
      OBVIOUS
    <3> QED BY <3>3, <3>4, <3>5, <3>6
  <2>8. CASE g.opcode = "IMM"
    <3>1. u = [reg_write |-> TRUE, alu_op |-> alu_op(g), illegal |-> FALSE]
      BY <2>8, LegalUpdate
    <3> HIDE DEF u
    <3>2. /\ c["reg_write"] = TRUE /\ c["mem_read"] = FALSE /\ c["mem_write"] = FALSE
          /\ c["branch"] = FALSE /\ c["jump"] = FALSE /\ c["jalr"] = FALSE
          /\ c["ecall"] = FALSE /\ c["ebreak"] = FALSE
      BY <3>1, Port DEF Ports, Muteable, Defaults
    <3>3. c["illegal"] = FALSE
      BY <3>1, Port DEF Ports, Defaults
    <3>4. \A p \in Selects : c[p] = PORTS(g)[p]
      BY <2>8, <3>1, Port, Signals DEF Ports, Selects, Defaults, alu_op, alu_b_sel
    <3> HIDE DEF c
    <3>5. \A p \in Muteable : c[p] = PORTS(g)[p]
      <4>1. /\ reg_write(g) = TRUE /\ mem_read(g) = FALSE /\ mem_write(g) = FALSE
            /\ branch(g) = FALSE /\ jump(g) = FALSE /\ jalr(g) = FALSE
            /\ ecall(g) = FALSE /\ ebreak(g) = FALSE
        BY <2>8, Raised
      <4> QED BY <3>2, <4>1, ByName
    <3>6. illegal(g) = FALSE
      OBVIOUS
    <3> QED BY <3>3, <3>4, <3>5, <3>6
  <2>9. CASE g.opcode = "REG"
    <3>1. u = [alu_b_sel |-> "RS2", reg_write |-> TRUE, alu_op |-> alu_op(g), illegal |-> FALSE]
      BY <2>9, LegalUpdate
    <3> HIDE DEF u
    <3>2. /\ c["reg_write"] = TRUE /\ c["mem_read"] = FALSE /\ c["mem_write"] = FALSE
          /\ c["branch"] = FALSE /\ c["jump"] = FALSE /\ c["jalr"] = FALSE
          /\ c["ecall"] = FALSE /\ c["ebreak"] = FALSE
      BY <3>1, Port DEF Ports, Muteable, Defaults
    <3>3. c["illegal"] = FALSE
      BY <3>1, Port DEF Ports, Defaults
    <3>4. \A p \in Selects : c[p] = PORTS(g)[p]
      BY <2>9, <3>1, Port, Signals DEF Ports, Selects, Defaults, alu_op, alu_b_sel
    <3> HIDE DEF c
    <3>5. \A p \in Muteable : c[p] = PORTS(g)[p]
      <4>1. /\ reg_write(g) = TRUE /\ mem_read(g) = FALSE /\ mem_write(g) = FALSE
            /\ branch(g) = FALSE /\ jump(g) = FALSE /\ jalr(g) = FALSE
            /\ ecall(g) = FALSE /\ ebreak(g) = FALSE
        BY <2>9, Raised
      <4> QED BY <3>2, <4>1, ByName
    <3>6. illegal(g) = FALSE
      OBVIOUS
    <3> QED BY <3>3, <3>4, <3>5, <3>6
  <2>10. CASE g.opcode = "MISC_MEM"
    <3>1. u = [illegal |-> FALSE]
      BY <2>10, LegalUpdate
    <3> HIDE DEF u
    <3>2. /\ c["reg_write"] = FALSE /\ c["mem_read"] = FALSE /\ c["mem_write"] = FALSE
          /\ c["branch"] = FALSE /\ c["jump"] = FALSE /\ c["jalr"] = FALSE
          /\ c["ecall"] = FALSE /\ c["ebreak"] = FALSE
      BY <3>1, Port DEF Ports, Muteable, Defaults
    <3>3. c["illegal"] = FALSE
      BY <3>1, Port DEF Ports, Defaults
    <3>4. \A p \in Selects : c[p] = PORTS(g)[p]
      BY <2>10, <3>1, Port, Signals DEF Ports, Selects, Defaults, alu_op, alu_b_sel
    <3> HIDE DEF c
    <3>5. \A p \in Muteable : c[p] = PORTS(g)[p]
      <4>1. /\ reg_write(g) = FALSE /\ mem_read(g) = FALSE /\ mem_write(g) = FALSE
            /\ branch(g) = FALSE /\ jump(g) = FALSE /\ jalr(g) = FALSE
            /\ ecall(g) = FALSE /\ ebreak(g) = FALSE
        BY <2>10, Raised
      <4> QED BY <3>2, <4>1, ByName
    <3>6. illegal(g) = FALSE
      OBVIOUS
    <3> QED BY <3>3, <3>4, <3>5, <3>6
  <2>11. CASE g.opcode = "SYSTEM" /\ g.sys = "ecall"
    <3>1. u = [ecall |-> TRUE]
      BY <2>11, LegalUpdate
    <3> HIDE DEF u
    <3>2. /\ c["reg_write"] = FALSE /\ c["mem_read"] = FALSE /\ c["mem_write"] = FALSE
          /\ c["branch"] = FALSE /\ c["jump"] = FALSE /\ c["jalr"] = FALSE
          /\ c["ecall"] = TRUE /\ c["ebreak"] = FALSE
      BY <3>1, Port DEF Ports, Muteable, Defaults
    <3>3. c["illegal"] = FALSE
      BY <3>1, Port DEF Ports, Defaults
    <3>4. \A p \in Selects : c[p] = PORTS(g)[p]
      BY <2>11, <3>1, Port, Signals DEF Ports, Selects, Defaults, alu_op, alu_b_sel
    <3> HIDE DEF c
    <3>5. \A p \in Muteable : c[p] = PORTS(g)[p]
      <4>1. /\ reg_write(g) = FALSE /\ mem_read(g) = FALSE /\ mem_write(g) = FALSE
            /\ branch(g) = FALSE /\ jump(g) = FALSE /\ jalr(g) = FALSE
            /\ ecall(g) = TRUE /\ ebreak(g) = FALSE
        BY <2>11, Raised
      <4> QED BY <3>2, <4>1, ByName
    <3>6. illegal(g) = FALSE
      OBVIOUS
    <3> QED BY <3>3, <3>4, <3>5, <3>6
  <2>12. CASE g.opcode = "SYSTEM" /\ g.sys = "ebreak"
    <3>1. u = [ebreak |-> TRUE]
      BY <2>12, LegalUpdate
    <3> HIDE DEF u
    <3>2. /\ c["reg_write"] = FALSE /\ c["mem_read"] = FALSE /\ c["mem_write"] = FALSE
          /\ c["branch"] = FALSE /\ c["jump"] = FALSE /\ c["jalr"] = FALSE
          /\ c["ecall"] = FALSE /\ c["ebreak"] = TRUE
      BY <3>1, Port DEF Ports, Muteable, Defaults
    <3>3. c["illegal"] = FALSE
      BY <3>1, Port DEF Ports, Defaults
    <3>4. \A p \in Selects : c[p] = PORTS(g)[p]
      BY <2>12, <3>1, Port, Signals DEF Ports, Selects, Defaults, alu_op, alu_b_sel
    <3> HIDE DEF c
    <3>5. \A p \in Muteable : c[p] = PORTS(g)[p]
      <4>1. /\ reg_write(g) = FALSE /\ mem_read(g) = FALSE /\ mem_write(g) = FALSE
            /\ branch(g) = FALSE /\ jump(g) = FALSE /\ jalr(g) = FALSE
            /\ ecall(g) = FALSE /\ ebreak(g) = TRUE
        BY <2>12, Raised
      <4> QED BY <3>2, <4>1, ByName
    <3>6. illegal(g) = FALSE
      OBVIOUS
    <3> QED BY <3>3, <3>4, <3>5, <3>6
  <2> QED BY <1>0, <2>1, <2>2, <2>3, <2>4, <2>5, <2>6, <2>7, <2>8, <2>9, <2>10, <2>11, <2>12
         DEF Opcodes
<1> QED BY <1>a, Unmuted DEF ref_decode

\* An illegal instruction sets the selects and the illegal port as the reference
\* does; what it mutes is mute on both sides.
LEMMA DecodeRefused ==
    ASSUME NEW g \in Instruction, illegal(g) PROVE ref_decode(g) = PORTS(g)
<1> DEFINE u == ref_update(g)
           c == update(Defaults(g), u)
<1>0. /\ illegal(g) = TRUE
      /\ g.opcode \in {"UNDEFINED", "JALR", "LOAD", "SYSTEM", "MISC_MEM",
                       "BRANCH", "STORE", "IMM", "REG"}
  BY DEF illegal
<1>1. c["illegal"] = illegal(g) /\ \A p \in Selects : c[p] = PORTS(g)[p]
  <2>1. CASE g.opcode \in {"UNDEFINED", "JALR", "LOAD", "SYSTEM", "MISC_MEM"}
    <3>1. u = [illegal |-> TRUE]
      BY <2>1, RefusedUpdate
    <3> HIDE DEF u
    <3>2. c["illegal"] = TRUE
      BY <3>1, Port DEF Ports, Defaults
    <3>3. \A p \in Selects : c[p] = PORTS(g)[p]
      BY <2>1, <3>1, Port, Signals DEF Ports, Selects, Defaults, alu_op, alu_b_sel
    <3> QED BY <1>0, <3>2, <3>3
  <2>2. CASE g.opcode = "BRANCH"
    <3>1. u = [imm_sel |-> "B", illegal |-> TRUE, branch |-> FALSE]
      BY <2>2, RefusedUpdate
    <3> HIDE DEF u
    <3>2. c["illegal"] = TRUE
      BY <3>1, Port DEF Ports, Defaults
    <3>3. \A p \in Selects : c[p] = PORTS(g)[p]
      BY <2>2, <3>1, Port, Signals DEF Ports, Selects, Defaults, alu_op, alu_b_sel
    <3> QED BY <1>0, <3>2, <3>3
  <2>3. CASE g.opcode = "STORE"
    <3>1. u = [imm_sel |-> "S", illegal |-> TRUE, mem_write |-> FALSE]
      BY <2>3, RefusedUpdate
    <3> HIDE DEF u
    <3>2. c["illegal"] = TRUE
      BY <3>1, Port DEF Ports, Defaults
    <3>3. \A p \in Selects : c[p] = PORTS(g)[p]
      BY <2>3, <3>1, Port, Signals DEF Ports, Selects, Defaults, alu_op, alu_b_sel
    <3> QED BY <1>0, <3>2, <3>3
  <2>4. CASE g.opcode = "IMM"
    <3>1. u = [reg_write |-> TRUE, alu_op |-> alu_op(g), illegal |-> TRUE]
      BY <2>4, RefusedUpdate
    <3> HIDE DEF u
    <3>2. c["illegal"] = TRUE
      BY <3>1, Port DEF Ports, Defaults
    <3>3. \A p \in Selects : c[p] = PORTS(g)[p]
      BY <2>4, <3>1, Port, Signals DEF Ports, Selects, Defaults, alu_b_sel
    <3> QED BY <1>0, <3>2, <3>3
  <2>5. CASE g.opcode = "REG"
    <3>1. u = [alu_b_sel |-> "RS2", reg_write |-> TRUE, alu_op |-> alu_op(g), illegal |-> TRUE]
      BY <2>5, RefusedUpdate
    <3> HIDE DEF u
    <3>2. c["illegal"] = TRUE
      BY <3>1, Port DEF Ports, Defaults
    <3>3. \A p \in Selects : c[p] = PORTS(g)[p]
      BY <2>5, <3>1, Port, Signals DEF Ports, Selects, Defaults, alu_b_sel
    <3> QED BY <1>0, <3>2, <3>3
  <2> QED BY <1>0, <2>1, <2>2, <2>3, <2>4, <2>5
<1> QED BY <1>1, Unmuted DEF ref_decode

\* The golden model the benches compare with, read without its state.
LEMMA SameGolden ==
    /\ \A g : Golden!Illegal(g) <=> Reference!Illegal(g)
    /\ \A g, x, y : Golden!AluResult(g, x, y) = Reference!AluResult(g, x, y)
    /\ \A o, x, y : Golden!BranchTaken(o, x, y) <=> Reference!BranchTaken(o, x, y)
<1>1. /\ \A v : Golden!Truncate(v) = Reference!Truncate(v)
      /\ \A v : Golden!Signed(v) = Reference!Signed(v)
      /\ \A v : Golden!Flag(v) = Reference!Flag(v)
      /\ Golden!Opcodes = Reference!Opcodes
  BY DEF Golden!Truncate, Reference!Truncate, Golden!Modulus, Reference!Modulus,
         Golden!Signed, Reference!Signed, Golden!Flag, Reference!Flag,
         Golden!Opcodes, Reference!Opcodes
<1>2. \A g : Golden!Illegal(g) <=> Reference!Illegal(g)
  BY <1>1 DEF Golden!Illegal, Reference!Illegal
<1>3. \A u, v, w, x : Golden!Alu(u, v, w, x) = Reference!Alu(u, v, w, x)
  BY <1>1 DEF Golden!Alu, Reference!Alu
<1>4. \A g, x, y : Golden!AluResult(g, x, y) = Reference!AluResult(g, x, y)
  BY <1>3 DEF Golden!AluResult, Reference!AluResult
<1>5. \A o, x, y : Golden!BranchTaken(o, x, y) <=> Reference!BranchTaken(o, x, y)
  BY <1>1 DEF Golden!BranchTaken, Reference!BranchTaken
<1> QED BY <1>2, <1>4, <1>5

\* What the benches drive.
Stimulated == a \in Word /\ b \in Word /\ f \in Instruction

LEMMA DecodeAll ==
    ASSUME Stimulated PROVE DecodeAgrees
<1>1. PORTS(f) = ref_decode(f)
  BY DecodeLegal, DecodeRefused DEF Stimulated
<1>2. illegal(f) <=> Golden!Illegal(f)
  BY SameIllegal, SameGolden DEF Stimulated
<1> QED BY <1>1, <1>2 DEF DecodeAgrees

-----------------------------------------------------------------------------
(* The datapath *)

\* Every operation by its name.
LEMMA NamedOperation ==
    ASSUME NEW x \in Word, NEW y \in Word, NEW o \in DOMAIN ALU_OPS
    PROVE  alu(x, y, ALU_OPS[o]) = ref_alu(o, x, y)
<1> USE DEF ALU_ADD, ALU_SUB, ALU_SLL, ALU_SLT, ALU_SLTU, ALU_XOR, ALU_SRL,
            ALU_SRA, ALU_OR, ALU_AND
<1>1. y % XLEN \in 0 .. XLEN - 1
  BY WordNat, WidthAssumption
<1>2. o \in {"ADD", "SLL", "SLT", "SLTU", "XOR", "SRL", "OR", "AND", "SUB", "SRA"}
  BY DEF ALU_OPS
<1>3. CASE o = "ADD"
  BY <1>3 DEF ALU_OPS, alu, ref_alu
<1>4. CASE o = "SLL"
  BY <1>4 DEF ALU_OPS, alu, ref_alu
<1>5. CASE o = "SLT"
  BY <1>5 DEF ALU_OPS, alu, ref_alu, Bit, SignedLess
<1>6. CASE o = "SLTU"
  BY <1>6 DEF ALU_OPS, alu, ref_alu, Bit
<1>7. CASE o = "XOR"
  BY <1>7 DEF ALU_OPS, alu, ref_alu
<1>8. CASE o = "SRL"
  BY <1>8 DEF ALU_OPS, alu, ref_alu
<1>9. CASE o = "OR"
  BY <1>9 DEF ALU_OPS, alu, ref_alu
<1>10. CASE o = "AND"
  BY <1>10 DEF ALU_OPS, alu, ref_alu
<1>11. CASE o = "SUB"
  BY <1>11 DEF ALU_OPS, alu, ref_alu
<1>12. CASE o = "SRA"
  <2>1. alu(x, y, 13) = ShiftRightArithmetic(x, y % XLEN)
    BY DEF alu
  <2>2. ShiftRightArithmetic(x, y % XLEN) = Truncate(Signed(x) \div 2 ^ (y % XLEN))
    BY <1>1, SameShift
  <2> QED BY <1>12, <2>1, <2>2 DEF ALU_OPS, ref_alu
<1> QED BY <1>2, <1>3, <1>4, <1>5, <1>6, <1>7, <1>8, <1>9, <1>10, <1>11, <1>12

LEMMA ExecuteAll ==
    ASSUME Stimulated PROVE ExecuteAgrees
<1>1. ASSUME f.opcode \in {"REG", "IMM"}, ~illegal(f)
      PROVE  alu(a, IF alu_b_sel(f) = "IMM" THEN imm(f) ELSE b, alu_op(f))
               = Golden!AluResult(f, a, b)
  BY <1>1, SameResult, SameGolden DEF Stimulated
<1>2. \A o \in DOMAIN ALU_OPS : alu(a, b, ALU_OPS[o]) = ref_alu(o, a, b)
  BY NamedOperation DEF Stimulated
<1>3. ASSUME NEW n \in 0 .. 15, \A o \in DOMAIN ALU_OPS : ALU_OPS[o] # n
      PROVE  alu(a, b, n) = 0
  <2>1. n \notin {0, 1, 2, 3, 4, 5, 6, 7, 8, 13}
    BY <1>3 DEF ALU_OPS
  <2> QED BY <2>1 DEF alu, ALU_ADD, ALU_SUB, ALU_SLL, ALU_SLT, ALU_SLTU, ALU_XOR,
                      ALU_SRL, ALU_SRA, ALU_OR, ALU_AND
<1> QED BY <1>1, <1>2, <1>3 DEF ExecuteAgrees

LEMMA BranchAll ==
    ASSUME Stimulated PROVE BranchAgrees
<1>1. ASSUME branch(f)
      PROVE  branch_cmp(a, b, f.funct3) <=> Golden!BranchTaken(f.funct3, a, b)
  <2>1. f.funct3 \in {0, 1, 4, 5, 6, 7}
    BY <1>1 DEF branch, illegal, Stimulated, Instruction
  <2> QED BY <2>1, SameBranch, SameGolden DEF Stimulated
<1>2. branch_cmp(a, b, f.funct3) <=> ref_branch(f.funct3, a, b)
  <2>1. Signed(a) \in Int /\ Signed(b) \in Int /\ f.funct3 \in 0 .. 7
    BY WordNat, ModulusNat DEF Signed, Stimulated, Instruction
  <2>2. /\ SignedLess(a, b) <=> Signed(a) < Signed(b)
        /\ ~SignedLess(a, b) <=> Signed(a) >= Signed(b)
    BY <2>1 DEF SignedLess
  <2>3. CASE f.funct3 = 0
    BY <2>3 DEF branch_cmp, ref_branch
  <2>4. CASE f.funct3 = 1
    BY <2>4 DEF branch_cmp, ref_branch
  <2>5. CASE f.funct3 = 4
    BY <2>2, <2>5 DEF branch_cmp, ref_branch
  <2>6. CASE f.funct3 = 5
    BY <2>2, <2>6 DEF branch_cmp, ref_branch
  <2>7. CASE f.funct3 = 6
    BY <2>7 DEF branch_cmp, ref_branch
  <2>8. CASE f.funct3 = 7
    BY <2>8 DEF branch_cmp, ref_branch
  <2>9. CASE f.funct3 \in {2, 3}
    BY <2>9 DEF branch_cmp, ref_branch
  <2> QED BY <2>1, <2>3, <2>4, <2>5, <2>6, <2>7, <2>8, <2>9
<1> QED BY <1>1, <1>2 DEF BranchAgrees

LEMMA StimulatedAlways == Spec => []Stimulated
<1>1. Init => Stimulated
  <2> SUFFICES ASSUME Init PROVE Stimulated
    OBVIOUS
  <2>1. 0 \in Reg /\ 0 \in Word
    BY WordNat, SizeAssumption DEF Reg
  <2>2. ASSUME NEW o \in Opcodes \cup {"UNDEFINED"}, NEW f3 \in 0 .. 7, NEW f7 \in 0 .. 127,
               NEW s \in {"ecall", "ebreak", "other"}, b \in Word
        PROVE  Stimulus(o, f3, f7, s) \in Instruction
    BY <2>1, <2>2 DEF Stimulus, Instruction
  <2>3. CASE DatapathInit
    BY <2>2, <2>3, Funct7sAssumption DEF DatapathInit, Stimulated
  <2>4. CASE DatapathIdle
    <3>1. a = 0 /\ b = 0 /\ f = Stimulus("UNDEFINED", 0, 0, "other")
      BY <2>4 DEF DatapathIdle
    <3>2. Stimulus("UNDEFINED", 0, 0, "other") \in Instruction
      <4>1. "UNDEFINED" \in Opcodes \cup {"UNDEFINED"} /\ 0 \in 0 .. 7 /\ 0 \in 0 .. 127
            /\ b \in Word
        BY <2>1, <3>1
      <4> QED BY <2>2, <4>1
    <3> QED BY <2>1, <3>1, <3>2 DEF Stimulated
  <2>5. DatapathInit \/ DatapathIdle
    BY Zenon DEF Init
  <2> QED BY <2>3, <2>4, <2>5
<1>2. Stimulated /\ [Next]_vars => Stimulated'
  <2> SUFFICES ASSUME Stimulated, [Next]_vars PROVE Stimulated'
    OBVIOUS
  <2>1. CASE DatapathNext
    <3>1. a' \in Word /\ b' \in Word
      BY <2>1, WordNat, ModulusNat DEF DatapathNext, Stimulated, Truncate, Word
    <3>2. [x \in ImmFormat |-> b'] \in [ImmFormat -> Word]
      BY <3>1
    <3>3. f' \in Instruction
      BY <2>1, <3>2 DEF DatapathNext, Stimulated, Instruction
    <3> QED BY <3>1, <3>3 DEF Stimulated
  <2>2. CASE UNCHANGED datapathVars
    BY <2>2 DEF datapathVars, Stimulated
  <2> QED BY <2>1, <2>2 DEF Next, vars
<1> QED BY <1>1, <1>2, PTL DEF Spec

\* The decoder's ports are what tb_decoder.py computes from the manual, and the
\* decoder and the golden model refuse the same instructions, for every
\* instruction (decoder.sv, tb_decoder.py:22-92, iss.py).
THEOREM DecoderCorrect == Spec => []DecodeAgrees
BY StimulatedAlways, DecodeAll, PTL

\* The ALU computes what the golden model and tb_alu.py compute, for every
\* arithmetic instruction and every pair of words (alu.sv, tb_alu.py).
THEOREM AluCorrect == Spec => []ExecuteAgrees
BY StimulatedAlways, ExecuteAll, PTL

\* A branch is taken exactly when the golden model and tb_branch_cmp.py take it,
\* for every pair of words (branch_cmp.sv, tb_branch_cmp.py).
THEOREM BranchCorrect == Spec => []BranchAgrees
BY StimulatedAlways, BranchAll, PTL
=============================================================================
