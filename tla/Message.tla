------------------------------ MODULE Message -------------------------------
(***************************************************************************)
(* A cl::Message (Source/Message.cpp, Headers/Message.h) that a program    *)
(* encodes values into and sends, and the message the receiver decodes     *)
(* them from.  The journey is that of one packet through                   *)
(* Socket::WriteMessage() and Socket::ReadMessages(); queues and errors of *)
(* the socket are in Channel.                                              *)
(*                                                                         *)
(* A value is told from others by its place in the order of encoding, and  *)
(* a byte by its value and its place in it.                                *)
(*                                                                         *)
(* An Attachment (Source/Attachment.cpp) is a descriptor number and no     *)
(* more: which file it stands for is up to the sender's table of           *)
(* descriptors when the message is sent.                                   *)
(***************************************************************************)
EXTENDS Naturals, Sequences, FiniteSetsExt, Binary

CONSTANTS
  Types,           \* types of the values
  SizeOf,          \* SizeOf[T]: sizeof(T)
  Reservations,    \* lengths the program asks reserve() for
  Width,           \* bits of size_t (64)
  Shifts,          \* the shifts of Message_NextPOTSize (1, 2, 4, 8, 16)
  Garbage,         \* a byte that nothing was written to
  None,            \* no message received yet
  MaxBytes,        \* sendMessage() asserts that the size is <= 1024
  MaxControlBufferItemCount,  \* of Socket.cpp (8)
  NullIsFirst,     \* is CMSG_NXTHDR(header, nullptr) the first control message,
                   \* as on Apple's systems?  glibc reads through the null.
  Numbers,         \* descriptor numbers of the sender's process
  Files            \* what it opens: shared memories, pipes...

ASSUME TypesAssumption == SizeOf \in [Types -> Nat \ {0}]
ASSUME ParametersAssumption ==
  /\ Width \in Nat \ {0}
  /\ Shifts \subseteq Nat
  /\ Reservations \subseteq Nat
  /\ MaxBytes \in Nat
  /\ MaxControlBufferItemCount \in Nat
  /\ NullIsFirst \in BOOLEAN
ASSUME SizeAssumption == MaxBytes <= Pow2[Width - 1]
ASSUME NamesAssumption ==
  /\ None \notin Files
  /\ Garbage \notin Nat \X Nat

VARIABLES
  own,       \* the program's message: its _bufferLength, the first
             \* _dataLength bytes of _buffer, _sizeRead and _attachments
  encoded,   \* the types of the values encoded so far
  table,     \* table[n]: the file that descriptor n of the sender is open on
  attached,  \* the files the program meant with its attachments
  closed,    \* history: those of them it has closed since
  sent,      \* how many values the packet was sent with; attached and closed
  received,  \* the message the receiver got, with the files attached to it
  decoded,   \* the values the receiver decoded: type and bytes
  stopped    \* the receiver failed an assertion or died

files == <<table, attached, closed>>
vars == <<own, encoded, files, sent, received, decoded, stopped>>

-----------------------------------------------------------------------------
(* Message_NextPOTSize() on the binary digits of a size_t. *)

\* How far down a digit is spread: by all of the shifts together.
Reach == MapThenSumSet(LAMBDA n : n, Shifts)

\* 1 + 2 + 4 + 8 + 16 = 31: half of the 64 bits, counted from the digit itself.
ASSUME ReachAssumption == Reach \in Nat /\ Width \div 2 - 1 <= Reach

\* x |= x >> n for each n of Shifts: every digit spreads to those below it.
Smear(digits) == UNION {{b \in 0 .. d : d - b <= Reach} : d \in digits}

\* Mutant: x - 1 is forgotten.
NextPOTSize_NoDecrement(x) ==
  (Number(Smear(Digits(x, Width)), Width) + 1) % Pow2[Width]

NextPOTSize(x) ==
  (Number(Smear(Digits(x - 1, Width)), Width) + 1) % Pow2[Width]

-----------------------------------------------------------------------------
Blank(capacity) ==
  [capacity |-> capacity, cells |-> <<>>, read |-> 0, attachments |-> <<>>]

\* The capacity after reserve(length); malloc() and realloc() succeed.
Reserved(capacity, length) ==
  IF length = 0 \/ capacity >= length THEN capacity ELSE NextPOTSize(length)

\* Message(reservedLength)
Init ==
  /\ \E length \in Reservations \cup {0} : own = Blank(Reserved(0, length))
  /\ encoded = <<>>
  /\ table = [n \in Numbers |-> None]
  /\ attached = <<>>
  /\ closed = {}
  /\ sent = [values |-> 0, attachments |-> <<>>, closed |-> {}]
  /\ received = None
  /\ decoded = <<>>
  /\ stopped = FALSE

Reserve(length) ==
  /\ own' = [own EXCEPT !.capacity = Reserved(@, length)]
  /\ UNCHANGED <<encoded, files, sent, received, decoded, stopped>>

\* The bytes of the k-th value, of type T.
Value(k, T) == [i \in 1 .. SizeOf[T] |-> <<k, i>>]

\* Mutant: the room for the value itself is not reserved.
Encode_ReservesLength(T) ==
  LET length == Len(own.cells) + SizeOf[T] IN
  /\ length <= MaxBytes
  /\ own' = [own EXCEPT !.capacity = Reserved(@, Len(own.cells)),
                        !.cells = @ \o Value(Len(encoded) + 1, T)]
  /\ encoded' = Append(encoded, T)
  /\ UNCHANGED <<files, sent, received, decoded, stopped>>

Encode(T) ==
  LET length == Len(own.cells) + SizeOf[T] IN
  /\ length <= MaxBytes
  /\ own' = [own EXCEPT !.capacity = Reserved(@, length),
                        !.cells = @ \o Value(Len(encoded) + 1, T)]
  /\ encoded' = Append(encoded, T)
  /\ UNCHANGED <<files, sent, received, decoded, stopped>>

-----------------------------------------------------------------------------
(* Attachments. *)

\* The program opens a file that it has not attached before.
OpenFile(n, f) ==
  /\ table[n] = None
  /\ f \notin Range(table) \cup Range(attached)
  /\ table' = [table EXCEPT ![n] = f]
  /\ UNCHANGED <<own, encoded, attached, closed, sent, received, decoded, stopped>>

\* It closes one (the SharedMemory is destroyed, say), whose number is free
\* then.  Attachment::~Attachment() does not.
CloseFile(n) ==
  /\ table[n] # None
  /\ table' = [table EXCEPT ![n] = None]
  /\ closed' = closed \cup ({table[n]} \cap Range(attached))
  /\ UNCHANGED <<own, encoded, attached, sent, received, decoded, stopped>>

\* addAttachment(Attachment(n)), which asserts that there is room: for one more
\* than the receiver's control buffer has.
AddAttachment(n) ==
  /\ table[n] # None
  /\ Len(own.attachments) <= MaxControlBufferItemCount
  /\ own' = [own EXCEPT !.attachments = Append(@, n)]
  /\ attached' = Append(attached, table[n])
  /\ UNCHANGED <<encoded, table, closed, sent, received, decoded, stopped>>

-----------------------------------------------------------------------------
(* Decoding.  decode() looks at the length of the buffer, not of the data. *)

CanDecode(m, T) == SizeOf[T] + m.read <= m.capacity

\* Mutant: what was read before is not skipped.
Bytes_FromTheStart(m, T) ==
  [i \in 1 .. SizeOf[T] |->
    IF i <= Len(m.cells) THEN m.cells[i] ELSE Garbage]

Bytes(m, T) ==
  [i \in 1 .. SizeOf[T] |->
    IF m.read + i <= Len(m.cells) THEN m.cells[m.read + i] ELSE Garbage]

\* The program decodes from its own message.
DecodeOwn(T) ==
  /\ CanDecode(own, T)
  /\ own' = [own EXCEPT !.read = @ + SizeOf[T]]
  /\ UNCHANGED <<encoded, files, sent, received, decoded, stopped>>

DecodeReceived(T) ==
  /\ received # None
  /\ CanDecode(received, T)
  /\ received' = [received EXCEPT !.read = @ + SizeOf[T]]
  /\ decoded' = Append(decoded, [type |-> T, bytes |-> Bytes(received, T)])
  /\ UNCHANGED <<own, encoded, files, sent, stopped>>

-----------------------------------------------------------------------------
(* Socket::WriteMessage() and Socket::ReadMessages(). *)

\* Mutant: the buffer length is rounded up as reserve() does.
Copy_Rounded(m) ==
  [m EXCEPT !.capacity = NextPOTSize(Len(m.cells)), !.read = 0]

\* Message(buffer, bufferSize)
Copy(m) == [m EXCEPT !.capacity = Len(m.cells), !.read = 0]

\* Mutant: the descriptors of a packet are not added to the message.
FilesOf_Nothing(m) == <<>>

\* The SCM_RIGHTS of a packet: the kernel takes the files from the sender's
\* table when sendmsg() is called, and the receiver gets descriptors of its own.
FilesOf(m) == [i \in DOMAIN m.attachments |-> table[m.attachments[i]]]

\* The receiver's loop over control messages gets past the one that holds all
\* descriptors of the packet: its length is that of a single descriptor.
ReadsControl(m) ==
  \/ m.attachments = <<>>
  \/ Len(m.attachments) = 1 /\ NullIsFirst

\* The packet arrives and is read, or an assertion on its control message, or
\* a null pointer, stops the receiver.  With a closed descriptor sendmsg()
\* fails (EBADF), and without data the packet ends the channel (see Channel).
Transfer ==
  /\ received = None
  /\ ~stopped
  /\ own.cells # <<>>
  /\ \A n \in Range(own.attachments) : table[n] # None
  /\ sent' = [values |-> Len(encoded), attachments |-> attached, closed |-> closed]
  /\ received' = IF ReadsControl(own)
                   THEN [Copy(own) EXCEPT !.attachments = FilesOf(own)]
                   ELSE None
  /\ stopped' = ~ReadsControl(own)
  /\ UNCHANGED <<own, encoded, files, decoded>>

Next ==
  \/ \E length \in Reservations : Reserve(length)
  \/ \E T \in Types : Encode(T) \/ DecodeOwn(T) \/ DecodeReceived(T)
  \/ \E n \in Numbers : AddAttachment(n) \/ CloseFile(n) \/ \E f \in Files : OpenFile(n, f)
  \/ Transfer

Spec == Init /\ [][Next]_vars

-----------------------------------------------------------------------------
\* Encoding and decoding stay inside the buffer that malloc() returned.
InBuffer ==
  /\ Len(own.cells) <= own.capacity
  /\ own.read <= own.capacity

\* Whoever decodes the types that were encoded gets the values, also when
\* the sender goes on encoding into its message.
RoundTrip ==
  \A k \in DOMAIN decoded :
    (k <= sent.values /\ \A j \in 1 .. k : decoded[j].type = encoded[j])
      => decoded[k].bytes = Value(k, encoded[k])

\* The receiver decodes nothing that was not sent: decode() fails when the
\* data is used up.
NothingIsInvented ==
  \A k \in DOMAIN decoded : \A i \in DOMAIN decoded[k].bytes :
    decoded[k].bytes[i] # Garbage

\* The receiver gets the file that each number stood for when it was attached,
\* though numbers are reused: another one only in place of a file that the
\* sender closed before it sent the message.
NoWrongFile ==
  received # None =>
    /\ Len(received.attachments) = Len(sent.attachments)
    /\ \A i \in DOMAIN received.attachments :
         received.attachments[i] = sent.attachments[i] \/ sent.attachments[i] \in sent.closed

\* A packet is read with all its attachments, if the sender kept them open.
AttachmentsArrive ==
  (received # None \/ stopped) /\ sent.closed = {} =>
    received # None /\ received.attachments = sent.attachments

\* However much a new message has reserved, reserve() makes room for any
\* length but the largest; a buffer that grows gets the least power of two,
\* for lengths of up to half the bits of a size_t, which the shifts reach.
ReserveIsEnough ==
  encoded = <<>> /\ own.read = 0 =>
    \A length \in 1 .. Pow2[Width - 1] :
      LET capacity == Reserved(own.capacity, length) IN
      /\ length <= capacity
      /\ (capacity # own.capacity /\ length <= Pow2[Width \div 2]) =>
           capacity < 2 * length /\ \E k \in 0 .. Width : capacity = Pow2[k]
=============================================================================
