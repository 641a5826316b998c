--------------------------- MODULE WebSocketFrame ---------------------------
(***************************************************************************)
(* ws_send_frame and ws_read_frame of                                      *)
(* coroutine_frame/examples/websocket_server.cpp: frames go into a byte    *)
(* stream, and a read takes what has arrived of what it asks for.          *)
(*                                                                         *)
(* A stream is the lengths of its frames, a place in it the number of      *)
(* bytes before it.  What payloads, masks and opcodes say is left out.     *)
(***************************************************************************)
EXTENDS Naturals, Sequences, FiniteSets

CONSTANTS
  Lengths,    (* payload lengths the peer may send                         *)
  MaxFrames,  (* bound: frames in the stream                               *)
  MaxCuts     (* bound: reads that get less than they ask for, or an error *)

(* The lengths that the reader makes the same of as the writer: of the two *)
(* bytes of those from 126 on both are less than 128, see Widened below.   *)
FrameAssumption ==
  /\ MaxFrames \in Nat /\ MaxCuts \in Nat
  /\ \A len \in Lengths :
       /\ len \in Nat /\ len <= 2147483647
       /\ \/ len < 126
          \/ len < 32768 /\ len % 256 < 128
          \/ len >= 65536

VARIABLES
  sent,           (* the frames in the stream: masked, payload_length      *)
  at,             (* bytes the reader has taken from the stream            *)
  stage,          (* which async_read of ws_read_frame comes next          *)
  frame,          (* the frame being read: masked, payload_length          *)
  total_read,     (* payload bytes of it so far                            *)
  returned,       (* frames ws_read_frame has returned                     *)
  cuts            (* reads that got less than they asked for               *)

vars == <<sent, at, stage, frame, total_read, returned, cuts>>

NoFrame == [masked |-> FALSE, payload_length |-> 0]
FrameOf == [masked : BOOLEAN, payload_length : Lengths]

Init ==
  /\ sent \in UNION {[1 .. n -> FrameOf] : n \in 1 .. MaxFrames}
  /\ at = 0 /\ stage = "header" /\ frame = NoFrame /\ total_read = 0
  /\ returned = <<>> /\ cuts = 0

-----------------------------------------------------------------------------
(* The second byte without the mask bit, and the bytes that extend it.     *)
Digit(len, unit) == (len \div unit) % 256

LengthBits(len) == IF len < 126 THEN len ELSE IF len < 65536 THEN 126 ELSE 127
ExtBytes(bits) == IF bits = 126 THEN 2 ELSE IF bits = 127 THEN 8 ELSE 0

(* The two bytes are chars: one of 128 or more is negative, its conversion *)
(* to uint16_t has eight ones in front, and they end up in the result.     *)
Widened(b) == IF b < 128 THEN b ELSE 65280 + b
Joined(high, low) ==
  IF low < 256 THEN high * 256 + low ELSE ((high * 256) \div 65536) * 65536 + low

(* Of the eight, taken as bytes, the first four are 0 in every stream here.*)
Length8(len) ==
  ((Digit(len, 16777216) * 256 + Digit(len, 65536)) * 256 + Digit(len, 256)) * 256 + Digit(len, 1)
Length2(len) == Joined(Widened(Digit(len, 256)), Widened(Digit(len, 1)))
ExtLength(len) == IF LengthBits(len) = 126 THEN Length2(len) ELSE Length8(len)

MaskBytes(masked) == IF masked THEN 4 ELSE 0
FrameBytes(f) ==
  2 + ExtBytes(LengthBits(f.payload_length)) + MaskBytes(f.masked) + f.payload_length

StartOf(k) ==
  LET sum[i \in 0 .. Len(sent)] == IF i = 0 THEN 0 ELSE sum[i - 1] + FrameBytes(sent[i])
  IN  sum[k - 1]
End == StartOf(Len(sent) + 1)

-----------------------------------------------------------------------------
(* async_read: all of what is asked for, or, in a cut, less; the reader    *)
(* waits while nothing has arrived.  A 0 is the end of the stream, or an   *)
(* error.                                                                  *)
AsyncRead(size) ==
  LET left == End - at
      most == IF size < left THEN size ELSE left
  IN  {most} \cup IF cuts < MaxCuts /\ most > 1 THEN {0, 1, most - 1} ELSE {}

Take(n, size) ==
  /\ at' = at + n
  /\ cuts' = IF n < size /\ at + n < End THEN cuts + 1 ELSE cuts

Nullopt == stage' = "nullopt" /\ UNCHANGED <<frame, total_read, returned>>

Return(f) ==
  /\ returned' = Append(returned, f)
  /\ stage' = "header" /\ frame' = NoFrame /\ total_read' = 0

(* What comes behind the length: the mask key, the payload, or nothing.    *)
AfterMask(f) ==
  IF f.payload_length > 0
    THEN stage' = "payload" /\ frame' = f /\ UNCHANGED <<total_read, returned>>
    ELSE Return(f)

AfterLength(f) ==
  IF f.masked
    THEN stage' = "mask" /\ frame' = f /\ UNCHANGED <<total_read, returned>>
    ELSE AfterMask(f)

(* The frame whose header is here; any, where payload is taken for one.    *)
FramesAt(place) ==
  LET here == {k \in 1 .. Len(sent) : StartOf(k) = place}
  IN  IF here = {} THEN FrameOf ELSE {sent[k] : k \in here}

ReadHeader ==
  /\ stage = "header"
  /\ \E n \in AsyncRead(2), f \in FramesAt(at) :
       /\ Take(n, 2)
       /\ IF n # 2
            THEN Nullopt
            ELSE IF ExtBytes(LengthBits(f.payload_length)) > 0
                   THEN stage' = "length" /\ frame' = f /\ UNCHANGED <<total_read, returned>>
                   ELSE AfterLength(f)
  /\ UNCHANGED sent

ReadLength ==
  /\ stage = "length"
  /\ LET size == ExtBytes(LengthBits(frame.payload_length))
     IN  \E n \in AsyncRead(size) :
           /\ Take(n, size)
           /\ IF n # size
                THEN Nullopt
                ELSE AfterLength([frame EXCEPT !.payload_length = ExtLength(@)])
  /\ UNCHANGED sent

ReadMask ==
  /\ stage = "mask"
  /\ \E n \in AsyncRead(4) : Take(n, 4) /\ IF n # 4 THEN Nullopt ELSE AfterMask(frame)
  /\ UNCHANGED sent

(* Mutant: one read, as for the other parts, but without looking at what   *)
(* it got.                                                                 *)
ReadPayloadOnce ==
  /\ stage = "payload"
  /\ \E n \in AsyncRead(frame.payload_length) :
       Take(n, frame.payload_length) /\ IF n = 0 THEN Nullopt ELSE Return(frame)
  /\ UNCHANGED sent

ReadPayload ==
  /\ stage = "payload"
  /\ LET size == frame.payload_length - total_read
     IN  \E n \in AsyncRead(size) :
           /\ Take(n, size)
           /\ IF n = 0 THEN Nullopt
              ELSE IF n = size THEN Return(frame)
              ELSE total_read' = total_read + n /\ UNCHANGED <<stage, frame, returned>>
  /\ UNCHANGED sent

Next == ReadHeader \/ ReadLength \/ ReadMask \/ ReadPayload
Spec == Init /\ [][Next]_vars

-----------------------------------------------------------------------------
(* ws_read_frame returns the frames of the stream, each once and in their  *)
(* order, and stands at the start of the next one, wherever the stream is  *)
(* cut; it gives up only at the end of the stream or at a cut in front of  *)
(* a payload.                                                              *)
FramesAsSent ==
  /\ returned = SubSeq(sent, 1, Len(returned))
  /\ stage = "header" => at = StartOf(Len(returned) + 1)
  /\ stage = "nullopt" => at = End \/ cuts > 0

(* "Extended payload length": the length that is read is the one sent.     *)
LengthIsRead ==
  stage \in {"mask", "payload"} => frame.payload_length = sent[Len(returned) + 1].payload_length
-----------------------------------------------------------------------------
(* What the theorem rests on: where in the frame after those returned the  *)
(* reader is, and that it has that frame in hand.                          *)
Payloads == [masked : BOOLEAN, payload_length : Nat]

TypeOK ==
  /\ sent \in Seq(FrameOf) /\ at \in Nat
  /\ stage \in {"header", "length", "mask", "payload", "nullopt"}
  /\ frame \in Payloads /\ total_read \in Nat
  /\ returned \in Seq(FrameOf) /\ cuts \in Nat

Place(f) ==
  LET start == StartOf(Len(returned) + 1)
      extended == ExtBytes(LengthBits(f.payload_length))
  IN  /\ stage = "length" => extended > 0 /\ total_read = 0 /\ at = start + 2
      /\ stage = "mask" => f.masked /\ total_read = 0 /\ at = start + 2 + extended
      /\ stage = "payload" =>
           /\ total_read < f.payload_length
           /\ at = start + 2 + extended + MaskBytes(f.masked) + total_read

InHand ==
  /\ Len(returned) <= Len(sent) /\ at <= End
  /\ stage = "header" => frame = NoFrame /\ total_read = 0
  /\ stage \in {"length", "mask", "payload"} =>
       Len(returned) < Len(sent) /\ frame = sent[Len(returned) + 1] /\ Place(frame)

IInv == TypeOK /\ FramesAsSent /\ InHand
=============================================================================
