---------------------------- MODULE MessageProofs ----------------------------
(***************************************************************************)
(* What a receiver finds in a message of Message, for any types, sizes,    *)
(* reservations, descriptors and files, and that reserve() makes room for  *)
(* what encode() writes.  What the receiver finds does not depend on that: *)
(* its buffer is as long as the data.                                      *)
(***************************************************************************)
EXTENDS Message, BinaryProofs, SequenceTheorems, TLAPS

\* None stands for the absence of a message.
NoneIsNoMessage ==
  \A c, s, r, a :
    None # [capacity |-> c, cells |-> s, read |-> r, attachments |-> a]

Cells == Nat \X Nat

-----------------------------------------------------------------------------
(* The inductive invariants: of the data, and of the files. *)

IsMessage(m) ==
  m = [capacity |-> m.capacity, cells |-> m.cells, read |-> m.read,
       attachments |-> m.attachments]

OwnMessage ==
  /\ IsMessage(own)
  /\ own.cells \in Seq(Cells)
  /\ own.attachments \in Seq(Numbers)
  /\ encoded \in Seq(Types)

\* The receiver's buffer holds the data and nothing else.
ExactBuffer ==
  received # None =>
    /\ IsMessage(received)
    /\ received.cells \in Seq(Cells)
    /\ received.capacity = Len(received.cells)
    /\ received.read \in Nat

Decoded == decoded \in Seq([type : Types, bytes : Seq(Cells)])

DataInv == OwnMessage /\ ExactBuffer /\ Decoded

Tables ==
  /\ table \in [Numbers -> Files \cup {None}]
  /\ attached \in Seq(Files)
  /\ Len(attached) = Len(own.attachments)

\* A number stands for what was attached with it, until the program closes that.
NumbersStand ==
  \A i \in 1 .. Len(own.attachments) :
    table[own.attachments[i]] = attached[i] \/ attached[i] \in closed

FileInv == Tables /\ NumbersStand /\ NoWrongFile

-----------------------------------------------------------------------------
(* The data. *)

LEMMA DataInit ==
  ASSUME Init
  PROVE  DataInv
BY EmptySeq DEF Init, Blank, DataInv, IsMessage, OwnMessage, ExactBuffer, Decoded

LEMMA ValueLaws ==
  ASSUME TypesAssumption, NEW k \in Nat, NEW T \in Types
  PROVE  /\ Value(k, T) \in Seq(Cells)
         /\ Len(Value(k, T)) = SizeOf[T]
         /\ \A i \in 1 .. SizeOf[T] : Value(k, T)[i] = <<k, i>>
<1>1. PICK n \in Nat : n = SizeOf[T]
  BY DEF TypesAssumption
<1>2. \A i \in 1 .. n : <<k, i>> \in Cells
  BY <1>1 DEF Cells
<1>3. Value(k, T) = [i \in 1 .. n |-> <<k, i>>]
  BY <1>1 DEF Value
<1>4. Value(k, T) \in Seq(Cells)
  BY <1>2, <1>3
<1> QED
  BY <1>1, <1>3, <1>4

\* The message to be sent keeps its form.
LEMMA OwnStep ==
  ASSUME TypesAssumption, OwnMessage, [Next]_vars
  PROVE  OwnMessage'
<1> USE DEF OwnMessage, IsMessage
<1>1. ASSUME UNCHANGED <<own, encoded>> PROVE OwnMessage'
  BY <1>1
<1>2. ASSUME NEW length, Reserve(length) PROVE OwnMessage'
  BY <1>2 DEF Reserve
<1>3. ASSUME NEW T \in Types, Encode(T) PROVE OwnMessage'
  <2>1. Len(encoded) + 1 \in Nat
    BY LenProperties
  <2>2. Value(Len(encoded) + 1, T) \in Seq(Cells)
    BY <2>1, ValueLaws
  <2>3. own.cells \o Value(Len(encoded) + 1, T) \in Seq(Cells)
    BY <2>2, ConcatProperties
  <2> QED
    BY <1>3, <2>3, AppendProperties DEF Encode
<1>4. ASSUME NEW T \in Types, DecodeOwn(T) PROVE OwnMessage'
  BY <1>4 DEF DecodeOwn
<1>5. ASSUME NEW n \in Numbers, AddAttachment(n) PROVE OwnMessage'
  BY <1>5, AppendProperties DEF AddAttachment
<1> QED
  BY <1>1, <1>2, <1>3, <1>4, <1>5 DEF Next, vars, DecodeReceived, CloseFile, OpenFile,
     Transfer

\* The receiver's buffer is as long as the data of the packet.
LEMMA TransferData ==
  ASSUME DataInv, Transfer
  PROVE  ExactBuffer' /\ Decoded'
<1> USE DEF DataInv, OwnMessage, ExactBuffer, Decoded
<1>1. /\ decoded' = decoded
      /\ \/ received' = [Copy(own) EXCEPT !.attachments = FilesOf(own)]
         \/ received' = None
  BY DEF Transfer
<1>2. CASE received' = [Copy(own) EXCEPT !.attachments = FilesOf(own)]
  <2>1. /\ received'.cells = own.cells /\ received'.capacity = Len(own.cells)
        /\ received'.read = 0
        /\ IsMessage(received')
    BY <1>2 DEF Copy, IsMessage
  <2> QED
    BY <1>1, <2>1
<1>3. CASE received' = None
  BY <1>1, <1>3
<1> QED
  BY <1>1, <1>2, <1>3

\* decode() succeeds inside the buffer only.
LEMMA DecodeData ==
  ASSUME TypesAssumption, DataInv, NEW T \in Types, DecodeReceived(T)
  PROVE  ExactBuffer' /\ Decoded'
<1> USE DEF DataInv, ExactBuffer, Decoded, IsMessage
<1>1. /\ received # None
      /\ SizeOf[T] + received.read <= Len(received.cells)
      /\ received' = [received EXCEPT !.read = @ + SizeOf[T]]
      /\ decoded' = Append(decoded, [type |-> T, bytes |-> Bytes(received, T)])
  BY DEF DecodeReceived, CanDecode
<1>2. SizeOf[T] \in Nat \ {0}
  BY DEF TypesAssumption
<1>3. Bytes(received, T) \in Seq(Cells)
  <2>1. ASSUME NEW i \in 1 .. SizeOf[T]
        PROVE  /\ received.read + i <= Len(received.cells)
               /\ received.cells[received.read + i] \in Cells
    BY <1>1, <1>2, <2>1, LenProperties, ElementOfSeq
  <2>2. Bytes(received, T) =
          [i \in 1 .. SizeOf[T] |-> received.cells[received.read + i]]
    BY <2>1 DEF Bytes
  <2> HIDE DEF DataInv, ExactBuffer, Decoded, IsMessage
  <2> QED
    BY <1>2, <2>1, <2>2
<1>4. Decoded'
  BY <1>1, <1>3, AppendProperties
<1>5. ExactBuffer'
  <2>1. received' = [capacity |-> received.capacity, cells |-> received.cells,
                     read |-> received.read + SizeOf[T],
                     attachments |-> received.attachments]
    BY <1>1
  <2>2. /\ received'.capacity = received.capacity /\ received'.cells = received.cells
        /\ received'.read \in Nat
    BY <1>1, <1>2, <2>1
  <2>3. IsMessage(received')
    BY <2>1
  <2> QED
    BY <1>1, <2>2, <2>3
<1> QED
  BY <1>4, <1>5

LEMMA DataStep ==
  ASSUME TypesAssumption, DataInv, [Next]_vars
  PROVE  DataInv'
<1>1. OwnMessage'
  BY OwnStep DEF DataInv
<1>2. ASSUME UNCHANGED <<received, decoded>> PROVE ExactBuffer' /\ Decoded'
  BY <1>2 DEF DataInv, ExactBuffer, Decoded
<1>3. ExactBuffer' /\ Decoded'
  BY <1>2, TransferData, DecodeData DEF Next, vars, Reserve, Encode, DecodeOwn,
     AddAttachment, CloseFile, OpenFile
<1> QED
  BY <1>1, <1>3 DEF DataInv

LEMMA DataHolds ==
  ASSUME TypesAssumption
  PROVE  Spec => []DataInv
<1>1. Init => DataInv
  BY DataInit
<1>2. DataInv /\ [Next]_vars => DataInv'
  BY DataStep
<1> QED
  BY <1>1, <1>2, PTL DEF Spec

\* A decode() of the receiver that succeeds has read bytes that were encoded:
\* the buffer of a received message ends where its data ends.
THEOREM DecodedWasSent ==
  ASSUME TypesAssumption, NamesAssumption
  PROVE  Spec => []NothingIsInvented
<1>1. DataInv => NothingIsInvented
  <2> SUFFICES ASSUME DataInv, NEW k \in DOMAIN decoded,
                      NEW i \in DOMAIN decoded[k].bytes
               PROVE  decoded[k].bytes[i] # Garbage
    BY DEF NothingIsInvented
  <2>0. decoded \in Seq([type : Types, bytes : Seq(Cells)])
    BY DEF DataInv, Decoded
  <2>1. decoded[k] \in [type : Types, bytes : Seq(Cells)]
    <3>1. PICK S : S = [type : Types, bytes : Seq(Cells)]
      OBVIOUS
    <3>2. decoded \in Seq(S)
      BY <2>0, <3>1
    <3>3. decoded[k] \in S
      BY <3>2
    <3> QED
      BY <3>1, <3>3
  <2>2. decoded[k].bytes[i] \in Cells
    BY <2>1, LenProperties, ElementOfSeq
  <2> QED
    BY <2>2 DEF Cells, NamesAssumption
<1> QED
  BY <1>1, DataHolds, PTL
-----------------------------------------------------------------------------
(* The files. *)

\* A number is opened anew only after the program has closed what it stood for.
LEMMA NumbersStep ==
  ASSUME NamesAssumption, OwnMessage, Tables, NumbersStand, [Next]_vars
  PROVE  Tables' /\ NumbersStand'
<1> USE DEF Tables, NumbersStand, OwnMessage
<1>0. \A i \in 1 .. Len(own.attachments) :
        own.attachments[i] \in Numbers /\ attached[i] \in Files
  BY ElementOfSeq
<1>1. ASSUME own'.attachments = own.attachments, UNCHANGED files
      PROVE  Tables' /\ NumbersStand'
  BY <1>1 DEF files
<1>2. ASSUME NEW T \in Types, Encode(T) \/ DecodeOwn(T) PROVE Tables' /\ NumbersStand'
  BY <1>1, <1>2 DEF Encode, DecodeOwn, IsMessage
<1>3. ASSUME NEW length, Reserve(length) PROVE Tables' /\ NumbersStand'
  BY <1>1, <1>3 DEF Reserve, IsMessage
<1>4. ASSUME NEW n \in Numbers, NEW f \in Files, OpenFile(n, f)
      PROVE  Tables' /\ NumbersStand'
  BY <1>0, <1>4 DEF OpenFile, NamesAssumption
<1>5. ASSUME NEW n \in Numbers, CloseFile(n) PROVE Tables' /\ NumbersStand'
  <2>1. \A i \in 1 .. Len(own.attachments) : attached[i] \in Range(attached)
    BY DEF Range
  <2>2. /\ table' = [table EXCEPT ![n] = None]
        /\ closed' = closed \cup ({table[n]} \cap Range(attached))
        /\ UNCHANGED <<own, attached>>
    BY <1>5 DEF CloseFile
  <2>3. ASSUME NEW i \in 1 .. Len(own.attachments)
        PROVE  table'[own.attachments[i]] = attached[i] \/ attached[i] \in closed'
    <3>1. CASE own.attachments[i] = n
      BY <1>0, <2>1, <2>2, <3>1
    <3>2. CASE own.attachments[i] # n
      BY <1>0, <2>2, <3>2
    <3> QED
      BY <3>1, <3>2
  <2>4. Tables'
    BY <2>2
  <2> QED
    BY <2>2, <2>3, <2>4
<1>6. ASSUME NEW n \in Numbers, AddAttachment(n) PROVE Tables' /\ NumbersStand'
  <2>1. /\ own'.attachments = Append(own.attachments, n)
        /\ attached' = Append(attached, table[n])
        /\ UNCHANGED <<table, closed>>
        /\ table[n] \in Files
    BY <1>6 DEF AddAttachment, IsMessage
  <2>2. attached' \in Seq(Files) /\ Len(attached') = Len(own'.attachments)
    BY <2>1, AppendProperties
  <2>3. ASSUME NEW i \in 1 .. Len(own'.attachments)
        PROVE  table[own'.attachments[i]] = attached'[i] \/ attached'[i] \in closed
    BY <2>1, <2>3, AppendProperties
  <2> QED
    BY <2>1, <2>2, <2>3
<1>7. CASE Transfer \/ UNCHANGED vars \/ \E T \in Types : DecodeReceived(T)
  BY <1>1, <1>7 DEF Transfer, DecodeReceived, vars
<1> QED
  BY <1>2, <1>3, <1>4, <1>5, <1>6, <1>7 DEF Next

\* sendmsg() takes what the numbers stand for.
LEMMA TransferFiles ==
  ASSUME DataInv, FileInv, Transfer
  PROVE  NoWrongFile'
<1> USE DEF DataInv, OwnMessage, FileInv, Tables, NumbersStand
<1>1. /\ sent'.attachments = attached /\ sent'.closed = closed
      /\ \/ received' = [Copy(own) EXCEPT !.attachments = FilesOf(own)]
         \/ received' = None
  BY DEF Transfer
<1>2. CASE received' = [Copy(own) EXCEPT !.attachments = FilesOf(own)]
  <2>1. received'.attachments = FilesOf(own)
    BY <1>2 DEF Copy, IsMessage
  <2>2. DOMAIN own.attachments = 1 .. Len(own.attachments)
    BY LenProperties
  <2>3. FilesOf(own) = [i \in 1 .. Len(own.attachments) |-> table[own.attachments[i]]]
    BY <2>2 DEF FilesOf
  <2>4. Len(own.attachments) \in Nat
    BY LenProperties
  <2>5. Len(FilesOf(own)) = Len(attached)
    BY <2>3, <2>4
  <2> QED
    BY <1>1, <2>1, <2>3, <2>5 DEF NoWrongFile
<1>3. CASE received' = None
  BY <1>3 DEF NoWrongFile
<1> QED
  BY <1>1, <1>2, <1>3

LEMMA FileStep ==
  ASSUME TypesAssumption, NamesAssumption, DataInv, FileInv, [Next]_vars
  PROVE  FileInv'
<1>1. Tables' /\ NumbersStand'
  BY NumbersStep DEF DataInv, FileInv
<1>2. ASSUME UNCHANGED <<received, sent>> PROVE NoWrongFile'
  BY <1>2 DEF FileInv, NoWrongFile
<1>3. ASSUME NEW T \in Types, DecodeReceived(T) PROVE NoWrongFile'
  <2>1. received # None /\ received' = [received EXCEPT !.read = @ + SizeOf[T]]
        /\ UNCHANGED sent
    BY <1>3 DEF DecodeReceived
  <2>2. received'.attachments = received.attachments
    BY <2>1 DEF DataInv, ExactBuffer, IsMessage
  <2> QED
    BY <2>1, <2>2 DEF FileInv, NoWrongFile
<1>4. NoWrongFile'
  BY <1>2, <1>3, TransferFiles DEF Next, vars, Reserve, Encode, DecodeOwn, AddAttachment,
     CloseFile, OpenFile
<1> QED
  BY <1>1, <1>4 DEF FileInv

\* addAttachment() keeps a number, and numbers are reused.  A message that
\* ReadMessages() returns has a descriptor for each of them, in their order, and
\* for the file that was attached, or one that took its number after the sender
\* had closed the file and before WriteMessage() was called.
THEOREM NoFileIsMistaken ==
  ASSUME TypesAssumption, NamesAssumption
  PROVE  Spec => []NoWrongFile
<1>1. Init => DataInv /\ FileInv
  <2> SUFFICES ASSUME Init PROVE FileInv
    BY DataInit
  <2>1. /\ own.attachments = <<>> /\ attached = <<>> /\ received = None
        /\ table \in [Numbers -> Files \cup {None}]
    BY DEF Init, Blank
  <2> QED
    BY <2>1, EmptySeq DEF FileInv, Tables, NumbersStand, NoWrongFile
<1>2. DataInv /\ FileInv /\ [Next]_vars => DataInv' /\ FileInv'
  BY DataStep, FileStep
<1>3. FileInv => NoWrongFile
  BY DEF FileInv
<1> QED
  BY <1>1, <1>2, <1>3, PTL DEF Spec

-----------------------------------------------------------------------------
(* How much reserve() makes room for. *)

\* Of the lengths that the program asks for none is larger than half of what a
\* size_t counts.
Reservable == Reservations \subseteq 0 .. Pow2[Width - 1]

\* Spreading loses no digit and makes none above the highest.
LEMMA SmearLaws ==
  ASSUME ReachAssumption, NEW digits \in SUBSET Nat
  PROVE  /\ digits \subseteq Smear(digits)
         /\ \A b \in Smear(digits) : b \in Nat /\ \E d \in digits : b <= d
<1>1. ASSUME NEW d \in digits PROVE d \in Smear(digits)
  <2>1. d \in {b \in 0 .. d : d - b <= Reach}
    BY DEF ReachAssumption
  <2> QED
    BY <2>1 DEF Smear
<1>2. ASSUME NEW b \in Smear(digits) PROVE b \in Nat /\ \E d \in digits : b <= d
  BY <1>2 DEF Smear
<1> QED
  BY <1>1, <1>2

\* Message_NextPOTSize() rounds up.
LEMMA RoundsUp ==
  ASSUME ParametersAssumption, ReachAssumption, NEW length \in 1 .. Pow2[Width - 1]
  PROVE  /\ NextPOTSize(length) \in Nat
         /\ length <= NextPOTSize(length)
         /\ NextPOTSize(length) = Number(Smear(Digits(length - 1, Width)), Width) + 1
<1>1. PICK w \in Nat : w = Width - 1 /\ Width = w + 1 /\ Width \in Nat
  BY DEF ParametersAssumption
<1>2. PICK half \in Nat \ {0} : half = Pow2[w] /\ Pow2[Width] = 2 * half
  BY <1>1, Pow2Laws
<1>3. PICK x \in Nat : x = length - 1 /\ x < half /\ length = x + 1
  BY <1>1, <1>2
<1>4. PICK digits : digits = Digits(x, Width)
  OBVIOUS
<1>5. digits \subseteq Nat /\ \A d \in digits : d \in Nat /\ d < w
  BY <1>1, <1>2, <1>3, <1>4, DigitsBelow
<1>6. PICK more : more = Smear(digits)
  OBVIOUS
<1>7. digits \subseteq more /\ \A b \in more : b \in Nat /\ b < w
  BY <1>5, <1>6, SmearLaws
<1>8. Number(digits, Width) = x
  <2>1. x < Pow2[Width]
    BY <1>2, <1>3
  <2> QED
    BY <1>1, <1>4, <2>1, NumberOfDigits
<1>9. PICK n \in Nat : n = Number(more, Width)
  BY <1>1, NumberLaws
<1>10. x <= n
  BY <1>1, <1>7, <1>8, <1>9, NumberMonotone
<1>11. n < half
  <2>1. Number(more, Width) = Number(more, w)
    BY <1>1, <1>7, NumberStops
  <2> QED
    BY <1>1, <1>2, <1>9, <2>1, NumberBound
<1>12. (n + 1) % (2 * half) = n + 1
  BY <1>11, SmallRemainder
<1>13. NextPOTSize(length) = n + 1
  BY <1>2, <1>3, <1>4, <1>6, <1>9, <1>12 DEF NextPOTSize
<1> QED
  BY <1>3, <1>4, <1>6, <1>9, <1>10, <1>13

\* Where the shifts reach, it finds the least power of two.
LEMMA LeastPowerOfTwo ==
  ASSUME ParametersAssumption, ReachAssumption, NEW length \in 1 .. Pow2[Width - 1],
         length <= Pow2[Width \div 2]
  PROVE  NextPOTSize(length) < 2 * length
         /\ \E k \in 0 .. Width : NextPOTSize(length) = Pow2[k]
<1>1. PICK h \in Nat : h = Width \div 2 /\ h <= Width /\ h - 1 <= Reach
  BY DEF ParametersAssumption, ReachAssumption
<1>2. PICK x \in Nat : x = length - 1 /\ x < Pow2[h] /\ length = x + 1
  BY <1>1, Pow2Laws
<1>3. PICK digits : digits = Digits(x, Width)
  OBVIOUS
<1>4. Width \in Nat /\ Width # 0 /\ digits \subseteq Nat
  BY <1>3 DEF ParametersAssumption, Digits
<1>5. NextPOTSize(length) = Number(Smear(digits), Width) + 1
  BY <1>2, <1>3, RoundsUp
<1>6. CASE x = 0
  <2>1. digits = {}
    <3>1. x < Pow2[0]
      BY <1>6, Pow2Laws
    <3>2. \A d \in digits : d \in Nat /\ d < 0
      BY <1>3, <1>4, <3>1, DigitsBelow
    <3> QED
      BY <3>2
  <2>2. Smear(digits) = {}
    BY <1>4, <2>1, SmearLaws
  <2>3. Number({}, Width) = Number({}, 0)
    BY <1>4, NumberStops
  <2>4. NextPOTSize(length) = 1
    BY <1>5, <2>2, <2>3, NumberLaws
  <2>5. Pow2[0] = 1 /\ 0 \in 0 .. Width
    BY <1>4, Pow2Laws
  <2> QED
    BY <1>2, <1>6, <2>4, <2>5
<1>7. CASE x # 0
  <2>1. x < Pow2[Width]
    <3>1. Pow2[h] <= Pow2[Width]
      BY <1>1, <1>4, Pow2Grows
    <3>2. Pow2[h] \in Nat /\ Pow2[Width] \in Nat
      BY <1>4, Pow2Laws
    <3> QED
      BY <1>2, <3>1, <3>2
  <2>2. PICK d \in digits : /\ \A b \in digits : b <= d
                            /\ Pow2[d] <= x /\ x < Pow2[d + 1]
    BY <1>3, <1>4, <1>7, <2>1, HighestOne
  <2>3. d \in Nat /\ d < h
    BY <1>1, <1>2, <1>3, <1>4, DigitsBelow
  <2>4. Smear(digits) = 0 .. d
    <3>1. ASSUME NEW b \in Smear(digits) PROVE b \in 0 .. d
      BY <1>4, <2>2, <2>3, SmearLaws
    <3>2. ASSUME NEW b \in 0 .. d PROVE b \in Smear(digits)
      <4>1. d - b <= Reach
        BY <1>1, <2>3 DEF ReachAssumption
      <4> QED
        BY <4>1 DEF Smear
    <3> QED
      BY <3>1, <3>2
  <2>5. Number(0 .. d, Width) = Number(0 .. d, d + 1)
    <3>1. d + 1 \in Nat /\ d + 1 <= Width /\ \A b \in 0 .. d : b \in Nat /\ b < d + 1
      BY <1>1, <1>4, <2>3
    <3> QED
      BY <1>4, <3>1, NumberStops
  <2>6. Number(0 .. d, d + 1) = Pow2[d + 1] - 1
    <3>1. 0 .. (d + 1) - 1 \subseteq 0 .. d /\ d + 1 \in Nat
      BY <2>3
    <3> QED
      BY <3>1, NumberOfOnes
  <2>7. Pow2[d + 1] = 2 * Pow2[d] /\ Pow2[d] \in Nat
    BY <2>3, Pow2Laws
  <2>8. NextPOTSize(length) = Pow2[d + 1]
    BY <1>5, <2>4, <2>5, <2>6, <2>7
  <2>9. d + 1 \in 0 .. Width
    BY <1>1, <1>4, <2>3
  <2> QED
    BY <1>2, <2>2, <2>7, <2>8, <2>9
<1> QED
  BY <1>6, <1>7

\* reserve() makes a buffer no shorter, and long enough.
LEMMA ReservedLaws ==
  ASSUME ParametersAssumption, ReachAssumption, NEW capacity \in Nat,
         NEW length \in 0 .. Pow2[Width - 1]
  PROVE  /\ Reserved(capacity, length) \in Nat
         /\ capacity <= Reserved(capacity, length)
         /\ length <= Reserved(capacity, length)
<1>1. length \in Nat
  <2>1. Width - 1 \in Nat
    BY DEF ParametersAssumption
  <2> QED
    BY <2>1, Pow2Laws
<1>2. CASE length = 0 \/ capacity >= length
  BY <1>1, <1>2 DEF Reserved
<1>3. CASE ~ (length = 0 \/ capacity >= length)
  <2>1. length \in 1 .. Pow2[Width - 1]
    BY <1>1, <1>3
  <2>2. NextPOTSize(length) \in Nat /\ length <= NextPOTSize(length)
    BY <2>1, RoundsUp
  <2> QED
    BY <1>1, <1>3, <2>2 DEF Reserved
<1> QED
  BY <1>2, <1>3

BufferInv ==
  /\ own.cells \in Seq(Cells)
  /\ own.capacity \in Nat
  /\ own.read \in Nat
  /\ InBuffer

LEMMA BufferInit ==
  ASSUME ParametersAssumption, ReachAssumption, Reservable, Init
  PROVE  BufferInv
<1>1. PICK length \in Reservations \cup {0} : own = Blank(Reserved(0, length))
  BY DEF Init
<1>2. length \in 0 .. Pow2[Width - 1]
  <2>1. Width - 1 \in Nat
    BY DEF ParametersAssumption
  <2> QED
    BY <2>1, Pow2Laws DEF Reservable
<1>3. Reserved(0, length) \in Nat
  BY <1>2, ReservedLaws
<1>4. own.capacity = Reserved(0, length) /\ own.cells = <<>> /\ own.read = 0
  BY <1>1 DEF Blank
<1> QED
  BY <1>3, <1>4, EmptySeq DEF BufferInv, InBuffer

LEMMA BufferStep ==
  ASSUME TypesAssumption, ParametersAssumption, ReachAssumption, SizeAssumption,
         Reservable, DataInv, BufferInv, [Next]_vars
  PROVE  BufferInv'
<1> USE DEF BufferInv, InBuffer
<1>1. own = [capacity |-> own.capacity, cells |-> own.cells, read |-> own.read,
             attachments |-> own.attachments]
  BY DEF DataInv, OwnMessage, IsMessage
<1>2. ASSUME own'.cells = own.cells, own'.capacity = own.capacity, own'.read = own.read
      PROVE  BufferInv'
  BY <1>2
<1>3. ASSUME NEW length \in Reservations, Reserve(length) PROVE BufferInv'
  <2>1. /\ own'.capacity = Reserved(own.capacity, length)
        /\ own'.cells = own.cells /\ own'.read = own.read
    BY <1>1, <1>3 DEF Reserve
  <2>2. length \in 0 .. Pow2[Width - 1]
    BY DEF Reservable
  <2>3. /\ Reserved(own.capacity, length) \in Nat
        /\ own.capacity <= Reserved(own.capacity, length)
    BY <2>2, ReservedLaws
  <2> QED
    BY <2>1, <2>3, LenProperties
<1>4. ASSUME NEW T \in Types, Encode(T) PROVE BufferInv'
  <2>1. PICK length : length = Len(own.cells) + SizeOf[T]
    OBVIOUS
  <2>2. /\ own'.capacity = Reserved(own.capacity, length)
        /\ own'.cells = own.cells \o Value(Len(encoded) + 1, T)
        /\ own'.read = own.read
        /\ length <= MaxBytes
    BY <1>1, <1>4, <2>1 DEF Encode
  <2>3. SizeOf[T] \in Nat
    BY DEF TypesAssumption
  <2>4. own'.cells \in Seq(Cells) /\ Len(own'.cells) = length
    <3>1. Len(encoded) + 1 \in Nat
      BY LenProperties DEF DataInv, OwnMessage
    <3>2. PICK value \in Seq(Cells) :
            value = Value(Len(encoded) + 1, T) /\ Len(value) = SizeOf[T]
      BY <3>1, ValueLaws
    <3>3. PICK cells \in Seq(Cells) : cells = own.cells
      OBVIOUS
    <3>4. cells \o value \in Seq(Cells) /\ Len(cells \o value) = Len(cells) + Len(value)
      BY ConcatProperties
    <3>5. own'.cells = cells \o value
      BY <2>2, <3>2, <3>3
    <3> QED
      BY <2>1, <3>2, <3>3, <3>4, <3>5
  <2>5. length \in Nat /\ length \in 0 .. Pow2[Width - 1]
    <3>1. Len(own.cells) \in Nat
      BY LenProperties
    <3>2. Width - 1 \in Nat /\ MaxBytes \in Nat
      BY DEF ParametersAssumption
    <3>3. Pow2[Width - 1] \in Nat
      BY <3>2, Pow2Laws
    <3>4. length \in Nat
      BY <2>1, <2>3, <3>1
    <3> HIDE DEF BufferInv, InBuffer
    <3> QED
      BY <2>2, <3>2, <3>3, <3>4 DEF SizeAssumption
  <2>6. /\ Reserved(own.capacity, length) \in Nat
        /\ own.capacity <= Reserved(own.capacity, length)
        /\ length <= Reserved(own.capacity, length)
    BY <2>5, ReservedLaws
  <2>7. own'.capacity \in Nat /\ own'.read \in Nat /\ own'.read <= own'.capacity
    BY <2>2, <2>6
  <2>8. Len(own'.cells) <= own'.capacity
    BY <2>2, <2>4, <2>6
  <2> QED
    BY <2>4, <2>7, <2>8
<1>5. ASSUME NEW T \in Types, DecodeOwn(T) PROVE BufferInv'
  <2>1. /\ own'.capacity = own.capacity /\ own'.cells = own.cells
        /\ own'.read = own.read + SizeOf[T]
        /\ SizeOf[T] + own.read <= own.capacity
    BY <1>1, <1>5 DEF DecodeOwn, CanDecode
  <2>2. SizeOf[T] \in Nat
    BY DEF TypesAssumption
  <2> QED
    BY <2>1, <2>2
<1>6. ASSUME NEW n \in Numbers, AddAttachment(n) PROVE BufferInv'
  BY <1>1, <1>2, <1>6 DEF AddAttachment
<1>7. CASE UNCHANGED own
  BY <1>2, <1>7
<1> QED
  BY <1>3, <1>4, <1>5, <1>6, <1>7 DEF Next, vars, DecodeReceived, CloseFile, OpenFile,
     Transfer

\* encode() writes, and decode() reads, inside of the buffer that reserve() has
\* made: NextPOTSize loses no length that sendMessage() lets through.
THEOREM StaysInBuffer ==
  ASSUME TypesAssumption, ParametersAssumption, ReachAssumption, SizeAssumption,
         Reservable
  PROVE  Spec => []InBuffer
<1>1. Init => DataInv /\ BufferInv
  BY DataInit, BufferInit
<1>2. DataInv /\ BufferInv /\ [Next]_vars => DataInv' /\ BufferInv'
  BY DataStep, BufferStep
<1>3. BufferInv => InBuffer
  BY DEF BufferInv
<1> QED
  BY <1>1, <1>2, <1>3, PTL DEF Spec

\* reserve() on a buffer of any size: it is long enough for every length up to half
\* of what a size_t counts, and the least power of two where the shifts reach.
THEOREM ReservesEnough ==
  ASSUME TypesAssumption, ParametersAssumption, ReachAssumption, SizeAssumption,
         Reservable
  PROVE  Spec => []ReserveIsEnough
<1>1. Init => DataInv /\ BufferInv
  BY DataInit, BufferInit
<1>2. DataInv /\ BufferInv /\ [Next]_vars => DataInv' /\ BufferInv'
  BY DataStep, BufferStep
<1>3. BufferInv => ReserveIsEnough
  <2> SUFFICES ASSUME BufferInv, NEW length \in 1 .. Pow2[Width - 1]
               PROVE  LET capacity == Reserved(own.capacity, length) IN
                      /\ length <= capacity
                      /\ (capacity # own.capacity /\ length <= Pow2[Width \div 2]) =>
                           /\ capacity < 2 * length
                           /\ \E k \in 0 .. Width : capacity = Pow2[k]
    BY DEF ReserveIsEnough
  <2>1. PICK capacity : capacity = Reserved(own.capacity, length)
    OBVIOUS
  <2>2. length <= capacity
    <3>1. own.capacity \in Nat /\ length \in 0 .. Pow2[Width - 1]
      BY DEF BufferInv
    <3> QED
      BY <2>1, <3>1, ReservedLaws
  <2>3. ASSUME capacity # own.capacity, length <= Pow2[Width \div 2]
        PROVE  capacity < 2 * length /\ \E k \in 0 .. Width : capacity = Pow2[k]
    <3>1. capacity = NextPOTSize(length)
      BY <2>1, <2>3 DEF Reserved
    <3> QED
      BY <2>3, <3>1, LeastPowerOfTwo
  <2> QED
    BY <2>1, <2>2, <2>3
<1> QED
  BY <1>1, <1>2, <1>3, PTL DEF Spec

-----------------------------------------------------------------------------
(* The journey of the values. *)

\* Value k lies behind the first start[k] cells of the message.
Layout(start) ==
  /\ start \in [1 .. Len(encoded) + 1 -> 0 .. Len(own.cells)]
  /\ start[1] = 0
  /\ start[Len(encoded) + 1] = Len(own.cells)
  /\ \A k \in 1 .. Len(encoded) : start[k + 1] = start[k] + SizeOf[encoded[k]]
  /\ \A k \in 1 .. Len(encoded) : \A i \in 1 .. SizeOf[encoded[k]] :
       own.cells[start[k] + i] = <<k, i>>

\* The receiver has decoded n values, and these types were encoded and sent.
Faithful(n) ==
  n <= sent.values /\ \A j \in 1 .. n : decoded[j].type = encoded[j]

\* The packet is the beginning of the message; who decodes what was encoded has
\* read up to where the next value lies.
Packet(start) ==
  /\ sent.values \in 0 .. Len(encoded)
  /\ received = None => decoded = <<>>
  /\ received # None =>
       /\ Len(received.cells) = start[sent.values + 1]
       /\ \A p \in 1 .. Len(received.cells) : received.cells[p] = own.cells[p]
       /\ Faithful(Len(decoded)) => received.read = start[Len(decoded) + 1]

Journey == (\E start : Layout(start) /\ Packet(start)) /\ RoundTrip

LEMMA JourneyInit ==
  ASSUME Init
  PROVE  Journey
<1>1. /\ own.cells = <<>> /\ encoded = <<>> /\ decoded = <<>>
      /\ sent.values = 0 /\ received = None
  BY DEF Init, Blank
<1>2. Len(own.cells) = 0 /\ Len(encoded) = 0
  BY <1>1, EmptySeq
<1> DEFINE start == [k \in 1 .. 1 |-> 0]
<1>3. Layout(start)
  BY <1>2 DEF Layout
<1>4. Packet(start)
  BY <1>1, <1>2 DEF Packet
<1>5. RoundTrip
  BY <1>1, EmptySeq DEF RoundTrip
<1> QED
  BY <1>3, <1>4, <1>5 DEF Journey

LEMMA JourneyStays ==
  ASSUME Journey, own'.cells = own.cells, UNCHANGED <<encoded, sent, received, decoded>>
  PROVE  Journey'
<1>1. PICK start : Layout(start) /\ Packet(start)
  BY DEF Journey
<1>2. Layout(start)'
  BY <1>1 DEF Layout
<1>3. Packet(start)'
  BY <1>1 DEF Packet, Faithful
<1>4. RoundTrip'
  BY DEF Journey, RoundTrip, Value
<1> QED
  BY <1>2, <1>3, <1>4 DEF Journey

LEMMA JoinedCells ==
  ASSUME NEW s \in Seq(Cells), NEW t \in Seq(Cells)
  PROVE  /\ Len(s \o t) = Len(s) + Len(t)
         /\ \A p \in 1 .. Len(s) : (s \o t)[p] = s[p]
         /\ \A i \in 1 .. Len(t) : (s \o t)[Len(s) + i] = t[i]
<1>1. Len(s) \in Nat /\ Len(t) \in Nat
  BY LenProperties
<1>2. Len(s \o t) = Len(s) + Len(t)
  BY ConcatProperties
<1>3. \A p \in 1 .. Len(s) + Len(t) :
        (s \o t)[p] = IF p <= Len(s) THEN s[p] ELSE t[p - Len(s)]
  BY ConcatProperties
<1>4. ASSUME NEW p \in 1 .. Len(s) PROVE (s \o t)[p] = s[p]
  BY <1>1, <1>3
<1>5. ASSUME NEW i \in 1 .. Len(t) PROVE (s \o t)[Len(s) + i] = t[i]
  <2>1. Len(s) + i \in 1 .. Len(s) + Len(t) /\ ~ (Len(s) + i <= Len(s))
        /\ (Len(s) + i) - Len(s) = i
    BY <1>1
  <2> QED
    BY <1>3, <2>1
<1> QED
  BY <1>2, <1>4, <1>5

\* A new value is put behind the others, and the packet that may be on its way
\* does not change.
LEMMA EncodeJourney ==
  ASSUME TypesAssumption, DataInv, Journey, NEW T \in Types, Encode(T)
  PROVE  Journey'
<1> USE DEF DataInv, OwnMessage
<1>1. PICK start : Layout(start) /\ Packet(start)
  BY DEF Journey
<1>2. PICK size \in Nat : size = SizeOf[T]
  BY DEF TypesAssumption
<1>3. PICK n \in Nat : n = Len(encoded)
  BY LenProperties
<1>4. PICK m \in Nat : m = Len(own.cells)
  BY LenProperties
<1>5. /\ own'.cells = own.cells \o Value(n + 1, T)
      /\ encoded' = Append(encoded, T)
      /\ UNCHANGED <<sent, received, decoded>>
  BY <1>3 DEF Encode, IsMessage
<1>6. /\ Len(encoded') = n + 1 /\ encoded'[n + 1] = T
      /\ \A k \in 1 .. n : encoded'[k] = encoded[k]
  BY <1>3, <1>5, AppendProperties
<1>7. PICK value \in Seq(Cells) :
        /\ value = Value(n + 1, T) /\ Len(value) = size
        /\ \A i \in 1 .. size : value[i] = <<n + 1, i>>
  BY <1>2, ValueLaws
<1>8. /\ Len(own'.cells) = m + size
      /\ \A p \in 1 .. m : own'.cells[p] = own.cells[p]
      /\ \A i \in 1 .. size : own'.cells[m + i] = <<n + 1, i>>
  <2>1. PICK cells \in Seq(Cells) : cells = own.cells /\ Len(cells) = m
    BY <1>4
  <2>2. own'.cells = cells \o value
    BY <1>5, <1>7, <2>1
  <2> HIDE DEF DataInv, OwnMessage
  <2>3. /\ Len(cells \o value) = Len(cells) + Len(value)
        /\ \A p \in 1 .. Len(cells) : (cells \o value)[p] = cells[p]
        /\ \A i \in 1 .. Len(value) : (cells \o value)[Len(cells) + i] = value[i]
    BY JoinedCells
  <2>4. PICK joined : joined = cells \o value
    OBVIOUS
  <2>5. /\ Len(joined) = m + size
        /\ \A p \in 1 .. m : joined[p] = cells[p]
        /\ \A i \in 1 .. size : joined[m + i] = value[i]
    BY <1>7, <2>1, <2>3, <2>4
  <2>6. \A i \in 1 .. size : joined[m + i] = <<n + 1, i>>
    <3>1. ASSUME NEW i \in 1 .. size PROVE joined[m + i] = <<n + 1, i>>
      <4>1. value[i] = <<n + 1, i>>
        BY <1>7
      <4>2. joined[m + i] = value[i]
        BY <2>5
      <4> QED
        BY <4>1, <4>2
    <3> QED
      BY <3>1
  <2>7. own'.cells = joined /\ own.cells = cells
    BY <2>1, <2>2, <2>4
  <2> QED
    BY <2>5, <2>6, <2>7
<1>9. /\ start \in [1 .. n + 1 -> 0 .. m] /\ start[1] = 0 /\ start[n + 1] = m
      /\ \A k \in 1 .. n : start[k + 1] = start[k] + SizeOf[encoded[k]]
      /\ \A k \in 1 .. n : \A i \in 1 .. SizeOf[encoded[k]] :
           own.cells[start[k] + i] = <<k, i>>
  BY <1>1, <1>3, <1>4 DEF Layout
<1>10. PICK longer : longer = [k \in 1 .. n + 2 |-> IF k = n + 2 THEN m + size ELSE start[k]]
  OBVIOUS
<1>11. /\ longer \in [1 .. n + 2 -> 0 .. m + size]
       /\ longer[n + 2] = m + size
       /\ \A k \in 1 .. n + 1 : longer[k] = start[k]
  <2> HIDE DEF DataInv, OwnMessage
  <2> QED
    BY <1>9, <1>10
<1>12. \A k \in 1 .. n : SizeOf[encoded[k]] \in Nat
  <2>1. \A k \in 1 .. n : encoded[k] \in Types
    BY <1>3
  <2> QED
    BY <2>1 DEF TypesAssumption
<1> HIDE DEF DataInv, OwnMessage
<1>13. Layout(longer)'
  <2>1. ASSUME NEW k \in 1 .. n + 1
        PROVE  longer[k + 1] = longer[k] + SizeOf[encoded'[k]]
    <3>1. CASE k = n + 1
      BY <1>2, <1>6, <1>9, <1>11, <3>1
    <3>2. CASE k # n + 1
      <4>1. k \in 1 .. n /\ k \in 1 .. n + 1 /\ k + 1 \in 1 .. n + 1
        BY <3>2
      <4>2. longer[k] = start[k] /\ longer[k + 1] = start[k + 1]
        BY <1>11, <4>1
      <4> QED
        BY <1>6, <1>9, <4>1, <4>2
    <3> QED
      BY <3>1, <3>2
  <2>2. ASSUME NEW k \in 1 .. n + 1, NEW i \in 1 .. SizeOf[encoded'[k]]
        PROVE  own'.cells[longer[k] + i] = <<k, i>>
    <3>1. CASE k = n + 1
      <4>1. i \in 1 .. size /\ longer[k] = m
        BY <1>2, <1>6, <1>9, <1>11, <2>2, <3>1
      <4> QED
        BY <1>8, <3>1, <4>1
    <3>2. CASE k # n + 1
      <4>1. /\ k \in 1 .. n /\ i \in 1 .. SizeOf[encoded[k]]
            /\ longer[k] = start[k] /\ start[k] \in 0 .. m /\ start[k + 1] \in 0 .. m
        <5>1. k \in 1 .. n /\ k \in 1 .. n + 1 /\ k + 1 \in 1 .. n + 1
          BY <2>2, <3>2
        <5>2. encoded'[k] = encoded[k] /\ longer[k] = start[k]
          BY <1>6, <1>11, <5>1
        <5> QED
          BY <1>9, <2>2, <5>1, <5>2
      <4>2. start[k] + i \in 1 .. m
        <5>1. start[k + 1] = start[k] + SizeOf[encoded[k]]
          BY <1>9, <4>1
        <5>2. SizeOf[encoded[k]] \in Nat
          BY <1>12, <4>1
        <5>3. start[k] \in Nat /\ start[k + 1] <= m
          BY <1>4, <4>1
        <5>4. i \in Nat /\ 1 <= i /\ i <= SizeOf[encoded[k]]
          BY <4>1, <5>2
        <5> QED
          BY <1>4, <5>1, <5>2, <5>3, <5>4
      <4> QED
        BY <1>8, <1>9, <4>1, <4>2
    <3> QED
      BY <3>1, <3>2
  <2>3. (n + 1) + 1 = n + 2 /\ 1 \in 1 .. n + 1
    OBVIOUS
  <2> QED
    BY <1>6, <1>8, <1>9, <1>11, <2>1, <2>2, <2>3 DEF Layout
<1>14. sent.values \in 0 .. n
  BY <1>1, <1>3 DEF Packet
<1>15. ASSUME NEW k \in Nat, k <= sent.values
       PROVE  (\A j \in 1 .. k : decoded'[j].type = encoded'[j])
                <=> (\A j \in 1 .. k : decoded[j].type = encoded[j])
  BY <1>5, <1>6, <1>14, <1>15
<1>16. RoundTrip'
  <2> SUFFICES ASSUME NEW k \in DOMAIN decoded, k <= sent.values,
                      \A j \in 1 .. k : decoded'[j].type = encoded'[j]
               PROVE  decoded[k].bytes = Value(k, encoded'[k])
    BY <1>5 DEF RoundTrip, Value
  <2>1. k \in Nat /\ k \in 1 .. n
    BY <1>14, LenProperties DEF DataInv, Decoded
  <2>2. decoded[k].bytes = Value(k, encoded[k])
    BY <1>15, <2>1 DEF Journey, RoundTrip
  <2> QED
    BY <1>6, <2>1, <2>2
<1>17. Packet(longer)'
  <2>1. sent'.values \in 0 .. Len(encoded') /\ (received' = None => decoded' = <<>>)
    BY <1>1, <1>5, <1>6, <1>14 DEF Packet
  <2>2. ASSUME received # None
        PROVE  /\ Len(received.cells) = longer[sent.values + 1]
               /\ \A p \in 1 .. Len(received.cells) : received.cells[p] = own'.cells[p]
    <3>1. /\ Len(received.cells) = start[sent.values + 1]
          /\ \A p \in 1 .. Len(received.cells) : received.cells[p] = own.cells[p]
      BY <1>1, <2>2 DEF Packet
    <3>2. sent.values + 1 \in 1 .. n + 1
      BY <1>14
    <3>3. Len(received.cells) \in 0 .. m
      BY <1>9, <3>1, <3>2
    <3> QED
      BY <1>8, <1>11, <3>1, <3>2, <3>3
  <2>3. ASSUME received # None, Faithful(Len(decoded))'
        PROVE  received.read = longer[Len(decoded) + 1]
    <3>1. Len(decoded) \in Nat /\ Len(decoded) <= sent.values
      BY <1>5, <2>3, LenProperties DEF Faithful, DataInv, Decoded
    <3>2. Faithful(Len(decoded))
      BY <1>5, <1>15, <2>3, <3>1 DEF Faithful
    <3>3. received.read = start[Len(decoded) + 1]
      BY <1>1, <2>3, <3>2 DEF Packet
    <3>4. Len(decoded) + 1 \in 1 .. n + 1
      BY <1>14, <3>1
    <3> QED
      BY <1>11, <3>3, <3>4
  <2> QED
    BY <1>5, <2>1, <2>2, <2>3 DEF Packet
<1> QED
  BY <1>13, <1>16, <1>17 DEF Journey

\* The packet is the whole message, and nothing of it has been decoded.
LEMMA TransferJourney ==
  ASSUME DataInv, Journey, Transfer
  PROVE  Journey'
<1>1. PICK start : Layout(start) /\ Packet(start)
  BY DEF Journey
<1>2. /\ received = None /\ sent'.values = Len(encoded)
      /\ UNCHANGED <<own, encoded, decoded>>
      /\ \/ received' = [Copy(own) EXCEPT !.attachments = FilesOf(own)]
         \/ received' = None
  BY DEF Transfer
<1>3. decoded = <<>> /\ Len(decoded) = 0
  BY <1>1, <1>2, EmptySeq DEF Packet
<1>4. Layout(start)'
  BY <1>1, <1>2 DEF Layout
<1>5. Len(encoded) \in Nat
  BY LenProperties DEF DataInv, OwnMessage
<1>6. Packet(start)'
  <2>1. sent'.values \in 0 .. Len(encoded)
    BY <1>2, <1>5
  <2>2. CASE received' = None
    BY <1>2, <1>3, <2>1, <2>2 DEF Packet
  <2>3. CASE received' = [Copy(own) EXCEPT !.attachments = FilesOf(own)]
    <3>1. received'.cells = own.cells /\ received'.read = 0
      BY <2>3 DEF Copy, DataInv, OwnMessage, IsMessage
    <3>2. start[1] = 0 /\ start[Len(encoded) + 1] = Len(own.cells)
      BY <1>1 DEF Layout
    <3> QED
      BY <1>2, <1>3, <2>1, <3>1, <3>2 DEF Packet
  <2> QED
    BY <1>2, <2>2, <2>3
<1>7. RoundTrip'
  <2>1. DOMAIN decoded' = {}
    BY <1>2, <1>3
  <2> QED
    BY <2>1 DEF RoundTrip
<1> QED
  BY <1>4, <1>6, <1>7 DEF Journey

\* decode() takes the next value off the packet.
LEMMA DecodeJourney ==
  ASSUME TypesAssumption, NoneIsNoMessage, DataInv, Journey, NEW T \in Types,
         DecodeReceived(T)
  PROVE  Journey'
<1>1. PICK start : Layout(start) /\ Packet(start)
  BY DEF Journey
<1>2. PICK size \in Nat \ {0} : size = SizeOf[T]
  BY DEF TypesAssumption
<1>3. PICK n \in Nat : n = Len(decoded)
  BY LenProperties DEF DataInv, Decoded
<1>4. PICK last \in Nat : last = Len(encoded)
  BY LenProperties DEF DataInv, OwnMessage
<1>5. PICK m \in Nat : m = Len(received.cells)
  BY LenProperties DEF DataInv, ExactBuffer, DecodeReceived
<1>6. /\ received # None /\ received.read \in Nat
      /\ size + received.read <= m
      /\ decoded' = Append(decoded, [type |-> T, bytes |-> Bytes(received, T)])
      /\ UNCHANGED <<own, encoded, sent>>
  BY <1>2, <1>5 DEF DecodeReceived, CanDecode, DataInv, ExactBuffer
<1>7. /\ received'.cells = received.cells /\ received'.read = received.read + size
      /\ received' # None
  <2>1. received' = [capacity |-> received.capacity, cells |-> received.cells,
                     read |-> received.read + size,
                     attachments |-> received.attachments]
    BY <1>2, <1>6 DEF DecodeReceived, DataInv, ExactBuffer, IsMessage
  <2>2. received' # None
    BY <2>1, Zenon DEF NoneIsNoMessage
  <2> QED
    BY <2>1, <2>2
<1>8. /\ Len(decoded') = n + 1
      /\ decoded'[n + 1] = [type |-> T, bytes |-> Bytes(received, T)]
      /\ \A k \in 1 .. n : decoded'[k] = decoded[k]
      /\ DOMAIN decoded' = 1 .. n + 1
  <2>1. decoded \in Seq([type : Types, bytes : Seq(Cells)])
    BY DEF DataInv, Decoded
  <2>2. PICK S : S = [type : Types, bytes : Seq(Cells)]
    OBVIOUS
  <2>3. PICK value : value = [type |-> T, bytes |-> Bytes(received, T)]
    OBVIOUS
  <2>4. decoded \in Seq(S) /\ decoded' = Append(decoded, value) /\ decoded' \in Seq(S)
    <3>1. decoded' \in Seq([type : Types, bytes : Seq(Cells)])
      BY DecodeData DEF Decoded
    <3> QED
      BY <1>6, <2>1, <2>2, <2>3, <3>1
  <2>5. /\ Len(decoded') = n + 1 /\ decoded'[n + 1] = value
        /\ \A k \in 1 .. n : decoded'[k] = decoded[k]
    BY <1>3, <2>4
  <2>6. DOMAIN decoded' = 1 .. n + 1
    BY <2>4, <2>5, LenProperties
  <2> QED
    BY <2>3, <2>5, <2>6
<1>9. /\ start \in [1 .. last + 1 -> 0 .. Len(own.cells)]
      /\ \A k \in 1 .. last : start[k + 1] = start[k] + SizeOf[encoded[k]]
      /\ \A k \in 1 .. last : \A i \in 1 .. SizeOf[encoded[k]] :
           own.cells[start[k] + i] = <<k, i>>
  BY <1>1, <1>4 DEF Layout
<1>10. /\ sent.values \in 0 .. last
       /\ m = start[sent.values + 1]
       /\ \A p \in 1 .. m : received.cells[p] = own.cells[p]
       /\ Faithful(n) => received.read = start[n + 1]
  BY <1>1, <1>3, <1>4, <1>5, <1>6 DEF Packet
<1>11. Layout(start)'
  BY <1>1, <1>6 DEF Layout
<1>12. ASSUME NEW k \in 1 .. n + 1, k <= sent.values,
              \A j \in 1 .. k : decoded'[j].type = encoded[j]
       PROVE  k <= n => Faithful(k)
  BY <1>8, <1>12 DEF Faithful
<1>13. ASSUME n + 1 <= sent.values,
              \A j \in 1 .. n + 1 : decoded'[j].type = encoded[j]
       PROVE  /\ Bytes(received, T) = Value(n + 1, encoded[n + 1])
              /\ received.read + size = start[(n + 1) + 1]
  <2>1. Faithful(n)
    <3>1. ASSUME NEW j \in 1 .. n PROVE decoded[j].type = encoded[j]
      <4>1. decoded'[j] = decoded[j] /\ j \in 1 .. n + 1
        BY <1>8
      <4> QED
        BY <1>13, <4>1
    <3>2. n <= sent.values
      BY <1>10, <1>13
    <3> QED
      BY <3>1, <3>2 DEF Faithful
  <2>2. encoded[n + 1] = T /\ n + 1 \in 1 .. last /\ received.read = start[n + 1]
    BY <1>8, <1>10, <1>13, <2>1
  <2>3. \A i \in 1 .. size : own.cells[received.read + i] = <<n + 1, i>>
    BY <1>2, <1>9, <2>2
  <2>4. ASSUME NEW i \in 1 .. size
        PROVE  /\ received.read + i <= Len(received.cells)
               /\ received.cells[received.read + i] = <<n + 1, i>>
    <3>1. received.read + i \in 1 .. m
      BY <1>6
    <3>2. received.cells[received.read + i] = own.cells[received.read + i]
      BY <1>10, <3>1
    <3>3. own.cells[received.read + i] = <<n + 1, i>>
      BY <2>3
    <3>4. received.read + i <= Len(received.cells)
      BY <1>5, <3>1
    <3> QED
      BY <3>2, <3>3, <3>4
  <2>5. Bytes(received, T) = [i \in 1 .. size |-> <<n + 1, i>>]
    BY <1>2, <2>4 DEF Bytes
  <2>6. received.read + size = start[(n + 1) + 1]
    BY <1>2, <1>9, <2>2
  <2> QED
    BY <1>2, <2>2, <2>5, <2>6 DEF Value
<1>14. Packet(start)'
  <2>1. Faithful(n + 1)' => received.read + size = start[(n + 1) + 1]
    BY <1>6, <1>13 DEF Faithful
  <2>2. Faithful(Len(decoded))' = Faithful(n + 1)'
    BY <1>8 DEF Faithful
  <2> QED
    BY <1>4, <1>5, <1>6, <1>7, <1>8, <1>10, <2>1, <2>2 DEF Packet
<1>15. RoundTrip'
  <2> SUFFICES ASSUME NEW k \in 1 .. n + 1, k <= sent.values,
                      \A j \in 1 .. k : decoded'[j].type = encoded[j]
               PROVE  decoded'[k].bytes = Value(k, encoded[k])
    BY <1>6, <1>8 DEF RoundTrip, Value
  <2>1. CASE k = n + 1
    BY <1>8, <1>13, <2>1
  <2>2. CASE k # n + 1
    <3>1. k \in 1 .. n /\ k \in DOMAIN decoded /\ Faithful(k)
      BY <1>3, <1>12, <2>2, LenProperties DEF DataInv, Decoded
    <3>2. decoded[k].bytes = Value(k, encoded[k])
      BY <3>1 DEF Journey, RoundTrip, Faithful
    <3> QED
      BY <1>8, <3>1, <3>2
  <2> QED
    BY <2>1, <2>2
<1> QED
  BY <1>11, <1>14, <1>15 DEF Journey

LEMMA JourneyStep ==
  ASSUME TypesAssumption, NoneIsNoMessage, DataInv, Journey, [Next]_vars
  PROVE  Journey'
<1>1. ASSUME NEW length, Reserve(length) PROVE Journey'
  BY <1>1, JourneyStays DEF Reserve, DataInv, OwnMessage, IsMessage
<1>2. ASSUME NEW T \in Types, DecodeOwn(T) PROVE Journey'
  BY <1>2, JourneyStays DEF DecodeOwn, DataInv, OwnMessage, IsMessage
<1>3. ASSUME NEW n \in Numbers, AddAttachment(n) PROVE Journey'
  BY <1>3, JourneyStays DEF AddAttachment, DataInv, OwnMessage, IsMessage
<1>4. CASE UNCHANGED <<own, encoded, sent, received, decoded>>
  BY <1>4, JourneyStays
<1> QED
  BY <1>1, <1>2, <1>3, <1>4, EncodeJourney, TransferJourney, DecodeJourney
     DEF Next, vars, CloseFile, OpenFile

\* decode() with the types that encode() was called with, in the same order, gives
\* the values back, whatever else is decoded or reserved, and also when the sender
\* goes on encoding into its message after the packet was sent.
THEOREM ValuesComeBack ==
  ASSUME TypesAssumption, NoneIsNoMessage
  PROVE  Spec => []RoundTrip
<1>1. Init => DataInv /\ Journey
  BY DataInit, JourneyInit
<1>2. DataInv /\ Journey /\ [Next]_vars => DataInv' /\ Journey'
  BY DataStep, JourneyStep
<1>3. Journey => RoundTrip
  BY DEF Journey
<1> QED
  BY <1>1, <1>2, <1>3, PTL DEF Spec
=============================================================================
