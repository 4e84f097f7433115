------------------------- MODULE BufferedInputStream -------------------------
(***************************************************************************)
(* yeti/Source/Core/YetiBufferedStream.cpp: an input stream that reads its *)
(* source in blocks and hands out bytes and lines.  One thread calls it;   *)
(* what varies is how many bytes the source delivers at a time, when it    *)
(* times out or ends, and in which order the owner mixes read_line, read,  *)
(* peek and set_buffer_size.                                               *)
(*                                                                         *)
(* A byte is known by its place in the text of the source; the model tells *)
(* '\r' ("cr") and '\n' ("lf") from the others.                            *)
(*                                                                         *)
(* A copy that runs over its buffer is undefined behaviour: the model goes  *)
(* on with any bytes in the place of those that were copied too far.  Two   *)
(* history variables, which no action reads, tell when that has happened    *)
(* and whether the owner had brought it about.                              *)
(*                                                                         *)
(* No name here is one of RingBufferStream's, so that StreamProofs can     *)
(* speak of both.                                                          *)
(***************************************************************************)
EXTENDS Naturals, Sequences, SequencesExt

CONSTANTS
  Texts,       \* what the source may hold
  Sizes,       \* the sizes of the buffer, at first and in set_buffer_size
  DefaultSize, \* YETI_BUFFERED_BYTE_STREAM_DEFAULT_SIZE
  Rooms,       \* the room the callers of read_line have, in characters
  Wants        \* how many bytes the callers of read and peek want

ASSUME BufferedAssumption ==
  /\ \A t \in Texts : t \in Seq({"char", "cr", "lf"})
  /\ Sizes \subseteq Nat /\ DefaultSize \in Nat \ {0}
  /\ Rooms \subseteq Nat \ {0} /\ Wants \subseteq Nat \ {0}

VARIABLES
  text,        \* the text of the source
  given,       \* how many bytes of it the source has delivered
  held,        \* the bytes between m_buffer_.offset_ and valid_
  capacity,    \* how much was allocated for data_, 0 for NULL
  size,        \* m_buffer_.size_
  skipNewline, \* m_skipnewline_
  atEnd,       \* m_eos_
  at,          \* where the call is
  call,        \* the call, or the last one
  begun,       \* how many bytes the calls before it had taken
  copied,      \* the bytes it has copied to its caller
  result,      \* what it returned
  overrun,     \* history: set_buffer_size has copied more than its new buffer holds
  tight        \* history: the owner has set a size smaller than what was held

buffer == <<held, capacity, size>>
history == <<overrun, tight>>
bufferedVars == <<text, given, buffer, skipNewline, atEnd, at, call, begun, copied, result,
                  history>>

LineCalls == [op : {"read_line"}, room : Rooms, breakOnCr : BOOLEAN, skip : BOOLEAN]
ByteCalls == [op : {"read", "peek"}, want : Wants, skip : BOOLEAN]
NoCall == [op |-> "none"]

BufferedTypeOK ==
  /\ text \in Texts /\ given \in 0 .. Len(text)
  /\ held \in Seq(1 .. given)
  /\ capacity \in Sizes \cup {0} /\ size \in Sizes
  /\ skipNewline \in BOOLEAN /\ atEnd \in BOOLEAN
  /\ at \in {"idle", "line", "raw", "first", "read", "refill"}
  /\ call \in LineCalls \cup ByteCalls \cup {NoCall}
  /\ begun \in 0 .. Len(text)
  /\ copied \in Seq(1 .. given)
  /\ call \in ByteCalls => Len(copied) <= call.want
  /\ call \in LineCalls => Len(copied) <= call.room + 1
  /\ result \in {"none", "SUCCESS", "EOS", "TIMEOUT", "NOT_ENOUGH_SPACE"}

(* What was allocated holds the bytes and any block that is asked for.       *)
Fits == BufferedTypeOK /\ (capacity > 0 => Len(held) <= capacity /\ size <= capacity)

(* YetiBufferedStream.cpp:52, 119-157, 187-188: no copy runs over a buffer   *)
(* unless the owner has set a size smaller than what was held.  Until then   *)
(* neither the bytes in the buffer nor a block that fill_buffer asks for is  *)
(* longer than what was allocated; read and peek give no more than they were *)
(* asked for, and read_line one character more than buffer_size at most,     *)
(* beside the terminator (buffer_end).                                       *)
BufferFits == (overrun => tight) /\ (~overrun => Fits)

BufferedInit ==
  /\ text \in Texts /\ given = 0
  /\ held = << >> /\ capacity = 0 /\ size \in Sizes
  /\ skipNewline = FALSE /\ atEnd = FALSE
  /\ at = "idle" /\ call = NoCall /\ begun = 0 /\ copied = << >> /\ result = "none"
  /\ overrun = FALSE /\ tight = FALSE

(* How many bytes of the text were taken out of the stream. *)
Consumed == given - Len(held)

Places(first, n) == [i \in 1 .. n |-> first + i - 1]

-----------------------------------------------------------------------------
(* m_source_->read of at most n bytes: some of them, or a failure. *)
Delivers(n, k) == k \in 1 .. n /\ given + k <= Len(text) /\ given' = given + k
Block(k) == Places(given + 1, k)
SourceFails(code) ==
  /\ code = "TIMEOUT" \/ (code = "EOS" /\ given = Len(text))
  /\ UNCHANGED given
Failures == {"TIMEOUT", "EOS"}

(* The end of the source is reported once there is nothing else to report. *)
Return_EosAtOnce(code) ==
  /\ at' = "idle"
  /\ atEnd' = (atEnd \/ code = "EOS")
  /\ result' = code

Return(code) ==
  /\ at' = "idle"
  /\ atEnd' = (atEnd \/ code = "EOS")
  /\ result' = IF code = "EOS" /\ copied' # << >> THEN "SUCCESS" ELSE code

(* fill_buffer, which does not ask a source that has ended. *)
Allocated == IF capacity = 0 THEN size ELSE capacity
Filled(k) ==
  /\ ~atEnd /\ Delivers(size, k)
  /\ capacity' = Allocated
FillFails(code) ==
  \/ atEnd /\ code = "EOS" /\ UNCHANGED <<given, capacity>>
  \/ ~atEnd /\ SourceFails(code) /\ capacity' = Allocated

-----------------------------------------------------------------------------
Begin(c, place) ==
  /\ at = "idle"
  /\ call' = c /\ begun' = Consumed /\ copied' = << >> /\ result' = "none"
  /\ at' = place

(* read_line *)

ReadLine ==
  /\ \E room \in Rooms, brk \in BOOLEAN :
       Begin([op |-> "read_line", room |-> room, breakOnCr |-> brk, skip |-> skipNewline], "line")
  /\ UNCHANGED <<text, given, buffer, skipNewline, atEnd, history>>

Ignored == UNCHANGED <<at, copied, atEnd, result, skipNewline>>
EndsLine(code, skip) == Return(code) /\ skipNewline' = skip
(* Room for a character more than buffer_size says (buffer_end). *)
Roomless == Len(copied) = call.room + 1

Skips_InTheLine == skipNewline
Skips == skipNewline /\ copied = << >>

(* A newline that follows the '\r' which ended the line before is skipped,   *)
(* as long as nothing of this line was copied; a character that does not fit *)
(* ends the line and is gone.                                                *)
LineChar ==
  /\ at = "line" /\ held # << >>
  /\ held' = Tail(held)
  /\ LET p == Head(held) IN
     \/ text[p] = "cr" /\ ~call.breakOnCr /\ Ignored
     \/ text[p] = "cr" /\ call.breakOnCr /\ UNCHANGED copied /\ EndsLine("SUCCESS", TRUE)
     \/ text[p] = "lf" /\ Skips /\ Ignored
     \/ text[p] = "lf" /\ ~Skips /\ UNCHANGED copied /\ EndsLine("SUCCESS", FALSE)
     \/ text[p] = "char" /\ Roomless /\ UNCHANGED copied /\ EndsLine("SUCCESS", FALSE)
     \/ /\ text[p] = "char" /\ ~Roomless
        /\ copied' = Append(copied, p)
        /\ UNCHANGED <<at, atEnd, result, skipNewline>>
  /\ UNCHANGED <<text, given, capacity, size, call, begun, history>>

LineFill ==
  /\ at = "line" /\ held = << >> /\ (size > 0 \/ atEnd)
  /\ \/ \E k \in 1 .. size : Filled(k) /\ held' = Block(k) /\ Ignored
     \/ \E code \in Failures : FillFails(code) /\ UNCHANGED <<held, copied>> /\ EndsLine(code, FALSE)
  /\ UNCHANGED <<text, size, call, begun, history>>

(* Without a buffer the characters are read one by one, and a newline is     *)
(* never skipped.                                                            *)
LineRelease ==
  /\ at = "line" /\ held = << >> /\ size = 0 /\ ~atEnd
  /\ at' = "raw"
  /\ capacity' = 0
  /\ UNCHANGED <<text, given, held, size, skipNewline, atEnd, call, begun, copied, result, history>>

RawChar ==
  /\ at = "raw"
  /\ \/ /\ Delivers(1, 1)
        /\ LET p == given' IN
           \/ text[p] = "cr" /\ ~call.breakOnCr /\ Ignored
           \/ text[p] = "cr" /\ call.breakOnCr /\ UNCHANGED copied /\ EndsLine("SUCCESS", TRUE)
           \/ text[p] = "lf" /\ UNCHANGED copied /\ EndsLine("SUCCESS", FALSE)
           \/ text[p] = "char" /\ Roomless /\ UNCHANGED copied /\ EndsLine("NOT_ENOUGH_SPACE", FALSE)
           \/ /\ text[p] = "char" /\ ~Roomless
              /\ copied' = Append(copied, p)
              /\ UNCHANGED <<at, atEnd, result, skipNewline>>
     \/ \E code \in Failures : SourceFails(code) /\ UNCHANGED copied /\ EndsLine(code, FALSE)
  /\ UNCHANGED <<text, buffer, call, begun, history>>

(* read *)

ReadBytes ==
  /\ \E n \in Wants :
       Begin([op |-> "read", want |-> n, skip |-> skipNewline],
             IF skipNewline THEN "first" ELSE "read")
  /\ skipNewline' = FALSE
  /\ UNCHANGED <<text, given, buffer, atEnd, history>>

(* The first byte after a '\r' that ended a line, unless it is a newline. *)
FirstIs_Kept(p) == copied' = <<p>> /\ at' = "read"
FirstIs(p) ==
  /\ copied' = IF text[p] = "lf" THEN << >> ELSE <<p>>
  /\ at' = "read"

ReadFirst ==
  /\ at = "first"
  /\ \/ held # << >> /\ FirstIs(Head(held)) /\ held' = Tail(held) /\ UNCHANGED <<given, capacity, atEnd, result>>
     \/ /\ held = << >> /\ size = 0
        /\ capacity' = 0
        /\ \/ Delivers(1, 1) /\ FirstIs(given') /\ UNCHANGED <<atEnd, result>>
           \/ \E code \in Failures : SourceFails(code) /\ UNCHANGED copied /\ Return(code)
        /\ UNCHANGED held
     \/ /\ held = << >> /\ size > 0
        /\ \/ \E k \in 1 .. size :
                Filled(k) /\ FirstIs(given + 1) /\ held' = Tail(Block(k)) /\ UNCHANGED <<atEnd, result>>
           \/ \E code \in Failures : FillFails(code) /\ UNCHANGED <<held, copied>> /\ Return(code)
  /\ UNCHANGED <<text, size, skipNewline, call, begun, history>>

Left == call.want - Len(copied)
Upto(n, s) == IF n < Len(s) THEN n ELSE Len(s)
HandsOut(s) ==
  LET k == Upto(Left, s) IN
  /\ copied' = copied \o SubSeq(s, 1, k)
  /\ held' = SubSeq(s, k + 1, Len(s))

ReadRest ==
  /\ at = "read"
  /\ \/ /\ held # << >> \/ Left = 0
        /\ HandsOut(held) /\ Return("SUCCESS")
        /\ UNCHANGED <<given, capacity>>
     \/ /\ held = << >> /\ Left > 0 /\ size = 0
        /\ capacity' = 0
        /\ \/ \E k \in 1 .. Left : Delivers(Left, k) /\ copied' = copied \o Block(k) /\ Return("SUCCESS")
           \/ \E code \in Failures : SourceFails(code) /\ UNCHANGED copied /\ Return(code)
        /\ UNCHANGED held
     \/ /\ held = << >> /\ Left > 0 /\ size > 0
        /\ \/ \E k \in 1 .. size : Filled(k) /\ HandsOut(Block(k)) /\ Return("SUCCESS")
           \/ \E code \in Failures : FillFails(code) /\ UNCHANGED <<held, copied>> /\ Return(code)
  /\ UNCHANGED <<text, size, skipNewline, call, begun, history>>

(* A new buffer of s bytes takes all that is held.  What does not fit is     *)
(* read back as it was, or as whatever has come to lie there: the first byte *)
(* of the text, which may be any, stands for that.                           *)
Squeezed(s) == {held, [i \in DOMAIN held |-> IF i <= s THEN held[i] ELSE 1]}
Moves(s) ==
  /\ capacity' = s /\ held' \in Squeezed(s)
  /\ overrun' = (overrun \/ Len(held) > s)

(* peek copies what is in the buffer.  One that wants more than a buffer     *)
(* that holds too much moves it to a smaller buffer and refills that one.    *)
NewSize == IF size > 0 THEN size ELSE DefaultSize
Squeezes(n) == n > Len(held) /\ Len(held) > NewSize /\ ~atEnd

Peek ==
  /\ at = "idle"
  /\ \E n \in Wants :
       /\ call' = [op |-> "peek", want |-> n, skip |-> skipNewline]
       /\ \/ /\ ~Squeezes(n)
             /\ copied' = SubSeq(held, 1, Upto(n, held))
             /\ result' = "SUCCESS"
             /\ UNCHANGED <<buffer, at, overrun>>
          \/ /\ Squeezes(n)
             /\ size' = NewSize /\ Moves(NewSize)
             /\ copied' = << >> /\ result' = "none"
             /\ at' = "refill"
  /\ begun' = Consumed
  /\ UNCHANGED <<text, given, skipNewline, atEnd, tight>>

(* The block takes the place of what was held.                               *)
PeekRefill ==
  /\ at = "refill"
  /\ \/ \E k \in 1 .. size :
          /\ Filled(k) /\ held' = Block(k)
          /\ copied' = SubSeq(Block(k), 1, Upto(call.want, Block(k)))
          /\ Return("SUCCESS")
     \/ \E code \in Failures :
          /\ FillFails(code) /\ held' = << >>
          /\ UNCHANGED copied /\ Return(code)
  /\ UNCHANGED <<text, size, skipNewline, call, begun, history>>

(* set_buffer_size compares with size_, which may have shrunk without a new  *)
(* buffer.  A buffer of no bytes is as good as none, once it is read.        *)
Made == capacity > 0 \/ held # << >>

SetBufferSize_NeverReallocates ==
  /\ at = "idle"
  /\ size' \in Sizes
  /\ UNCHANGED <<text, given, held, capacity, skipNewline, atEnd, at, call, begun, copied, result, history>>

SetBufferSize ==
  /\ at = "idle"
  /\ \E s \in Sizes, force \in BOOLEAN :
       /\ size' = s
       /\ IF Made /\ (size < s \/ force) THEN Moves(s) ELSE UNCHANGED <<held, capacity, overrun>>
       /\ tight' = (tight \/ Len(held) > IF s > 0 \/ force THEN s ELSE DefaultSize)
  /\ UNCHANGED <<text, given, skipNewline, atEnd, at, call, begun, copied, result>>

BufferedNext ==
  \/ ReadLine \/ LineChar \/ LineFill \/ LineRelease \/ RawChar
  \/ ReadBytes \/ ReadFirst \/ ReadRest \/ Peek \/ PeekRefill \/ SetBufferSize

BufferedSpec == BufferedInit /\ [][BufferedNext]_bufferedVars

-----------------------------------------------------------------------------
(* The bytes the last call took out of the stream. *)
Own == Places(begun + 1, Consumed - begun)
Plain(p) == text[p] = "char"
LineEnd(p) == text[p] = "lf" \/ (text[p] = "cr" /\ call.breakOnCr)
Answered(op) == at = "idle" /\ call.op = op

(* The newlines read_line may pass over at the start of its line. *)
Passed(i) == call.skip /\ \A j \in 1 .. i : ~Plain(Own[j])

(* Whatever the source delivers at a time and wherever it times out, and     *)
(* however reads, lines and new sizes of the buffer follow each other: what  *)
(* a call takes out of the stream it hands to its caller, once and in order, *)
(* apart from '\r', '\n' and the characters of a line that was full         *)
(* (read_line), or the newline that belongs to the line before (read).  It   *)
(* holds until a copy has overrun the buffer: see BufferFits, and            *)
(* FillsEmptyBuffer for what peek loses then.                                *)
NothingLost ==
  ~overrun =>
    /\ Answered("read_line") /\ Len(copied) <= call.room =>
         /\ \A i, j \in DOMAIN copied : i < j => copied[i] < copied[j]
         /\ ToSet(copied) = {p \in ToSet(Own) : Plain(p)}
    /\ Answered("read") =>
         copied = IF call.skip /\ Own # << >> /\ text[Head(Own)] = "lf" THEN Tail(Own) ELSE Own
    /\ Answered("peek") => Own = << >> /\ copied = Places(begun + 1, Len(copied))

(* A line is as long as the text says: a line that fits and was read without *)
(* a failure ends at the first end of a line, or where the text ends, and    *)
(* not where a block ends.  What read_line may pass over is the code's own   *)
(* rule (lines 69 and 106): all newlines at the start of a line that follows *)
(* a '\r', but none after a call that failed in between.                     *)
LinesAreWhole ==
  ~overrun /\ Answered("read_line") /\ result = "SUCCESS" /\ Len(copied) <= call.room =>
    /\ \A i \in 1 .. Len(Own) - 1 : LineEnd(Own[i]) => Passed(i)
    /\ \/ Own # << >> /\ LineEnd(Last(Own))
       \/ atEnd /\ Consumed = Len(text)

(* The stream is only at its end when the source is, and every byte has been *)
(* handed out: an end that was met in the middle of a call is not reported   *)
(* before what came first.  Nor is it swallowed: a read that succeeds brings *)
(* at least one byte, or InputStream::read_fully would fail.                 *)
EosComesLast ==
  ~overrun =>
    /\ atEnd => given = Len(text)
    /\ at = "idle" /\ result = "EOS" => Consumed = Len(text) /\ copied = << >>
    /\ Answered("read") /\ result = "SUCCESS" => copied # << >>

(* YetiBufferedStream.cpp:145, an assertion of fill_buffer: a block is only  *)
(* asked for when the buffer is empty, for it takes the place of what is     *)
(* there.  peek asks for one when more is held than the buffer is to hold    *)
(* (line 181), so the assertion fails, and without it the bytes are lost.    *)
FillsEmptyBuffer == at = "refill" => held = << >>
=============================================================================
