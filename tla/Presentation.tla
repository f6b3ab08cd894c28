---------------------------- MODULE Presentation ----------------------------
(***************************************************************************)
(* From a published BUY signal to the text a transport sends: the          *)
(* projection (delivery/message.py), the caption, its split into parts     *)
(* (delivery/formatting.py) and the chart that may be attached             *)
(* (delivery/chart.py).  A line of text is the field it shows and its      *)
(* length; a part is the sequence of the pieces of lines it holds, so that *)
(* "nothing is lost, torn or reordered" can be said without the text.      *)
(***************************************************************************)
EXTENDS Naturals, Sequences

CONSTANTS
    None,               \* the absent value
    MaxCaptionLength    \* DeliveryConfig.max_caption_length

ASSUME LimitAssumption == MaxCaptionLength \in Nat \ {0}

Line(field, length) == [field |-> field, length |-> length]

\* A line that is there only when its condition holds.
OnlyIf(condition, line) == IF condition THEN <<line>> ELSE <<>>

\* The sum of a sequence of lengths.
Total(lengths) ==
    LET upTo[k \in 0 .. Len(lengths)] == IF k = 0 THEN 0 ELSE upTo[k - 1] + lengths[k]
    IN  upTo[Len(lengths)]

\* "; ".join of the identities of the evidence.
JoinedLength(lengths) == Total(lengths) + 2 * (Len(lengths) - 1)

\* The lines of the caption.  The length of a fixed line is 1: what varies is the
\* explanation (its lines are indented by two) and the list of evidence.
RenderMessage(message, show, chartPresent) ==
    LET why == [k \in 1 .. Len(message.explanation) |->
                    Line(<<"why", k>>, 2 + message.explanation[k])]
    IN  <<Line("header", 1)>>
          \o OnlyIf(show.signal, Line("signal", 1))
          \o OnlyIf(message.priced, Line("price", 1))
          \o <<Line("score", 1)>>
          \o OnlyIf(show.setup, Line("setup", 1))
          \o <<Line("reasons", 1)>>
          \o (IF show.halal THEN <<Line("classification", 1), Line("eligibility", 1)>> ELSE <<>>)
          \o OnlyIf(show.times, Line("times", 1))
          \o <<Line("why", 1)>> \o why
          \o <<Line("provenance", JoinedLength(message.evidence))>>
          \o OnlyIf(~ chartPresent /\ show.marker, Line("no chart", 1))
          \o <<Line("footer", 1)>>

\* The number of characters of lines joined by newlines.
TextLength(lines) ==
    Total([i \in 1 .. Len(lines) |-> lines[i].length]) + (Len(lines) - 1)

-----------------------------------------------------------------------------
(* split_caption.  A piece is a stretch of one line.                       *)

Piece(i, from, to) == [line |-> i, from |-> from, to |-> to]

PartLength(part) ==
    Total([i \in 1 .. Len(part) |-> part[i].to - part[i].from + 1]) + (Len(part) - 1)

\* A line that is longer than the limit, broken at the limit: every piece but the last.
ForcedPieces(i, length, limit) ==
    [k \in 1 .. (length - 1) \div limit |-> Piece(i, (k - 1) * limit + 1, k * limit)]

\* What is left of it.
Remainder(i, length, limit) == Piece(i, ((length - 1) \div limit) * limit + 1, length)

\* Variant: the buffer is dropped, not flushed, before a line that does not fit.
PlaceLineUnflushed(state, i, length, limit) ==
    LET whole == Piece(i, 1, length)
        candidate == Append(state.buffer, whole)
    IN  IF PartLength(candidate) <= limit
        THEN [state EXCEPT !.buffer = candidate]
        ELSE [parts |-> state.parts \o [k \in 1 .. (length - 1) \div limit |->
                                            <<ForcedPieces(i, length, limit)[k]>>],
              buffer |-> <<Remainder(i, length, limit)>>]

\* One line: it joins the buffer when it fits; if not, the buffer becomes a part and the
\* line, broken when it has to be, starts the next one.
PlaceLine(state, i, length, limit) ==
    LET whole == Piece(i, 1, length)
        candidate == Append(state.buffer, whole)
        flushed == IF state.buffer = <<>> THEN <<>> ELSE <<state.buffer>>
        forced == ForcedPieces(i, length, limit)
    IN  IF PartLength(candidate) <= limit
        THEN [state EXCEPT !.buffer = candidate]
        ELSE [parts |-> state.parts \o flushed \o [k \in 1 .. Len(forced) |-> <<forced[k]>>],
              buffer |-> <<Remainder(i, length, limit)>>]

\* The caption as one part.
OnePart(lines) == <<[i \in 1 .. Len(lines) |-> Piece(i, 1, lines[i].length)]>>

SplitCaption(lines, limit) ==
    IF TextLength(lines) <= limit
    THEN OnePart(lines)
    ELSE LET placed[i \in 0 .. Len(lines)] ==
                 IF i = 0 THEN [parts |-> <<>>, buffer |-> <<>>]
                 ELSE PlaceLine(placed[i - 1], i, lines[i].length, limit)
             final == placed[Len(lines)]
         IN  final.parts \o (IF final.buffer = <<>> THEN <<>> ELSE <<final.buffer>>)

-----------------------------------------------------------------------------
(* The records                                                             *)

MessageId(signal) == <<"message", signal>>

DeliveryId(message, destination) == <<"delivery", message, destination>>

\* _try_attach_chart: a drawing of another series, or one that cannot be rendered, is dropped.
AttachChart(message, drawing) ==
    IF drawing = None \/ drawing.series # message.series \/ ~ drawing.renders
    THEN None
    ELSE [signal |-> message.signal, drawing |-> drawing.series]

\* require_buy_signal
IsBuy(frame) == frame.status = "BUY_SIGNAL"

\* SignalMessage.from_signal
FromSignal(frame) ==
    [signal |-> frame.signal, series |-> frame.series, priced |-> frame.priced,
     explanation |-> frame.explanation, evidence |-> frame.evidence]

\* assemble_signal_message: parts obey the presentation limit, the caption does not.
Assemble(message, chart, show) ==
    LET lines == RenderMessage(message, show, chart # None)
    IN  [signal |-> message.signal, message |-> MessageId(message.signal),
         lines |-> lines,
         parts |-> IF show.split
                   THEN SplitCaption(lines, MaxCaptionLength)
                   ELSE OnePart(lines),
         chart |-> chart]

\* What RenderedSignalMessage and ChartAttachment insist on.
RenderedIsValid(rendered) ==
    /\ rendered.message = MessageId(rendered.signal)
    /\ rendered.lines # <<>>
    /\ rendered.parts # <<>>
    /\ \A k \in 1 .. Len(rendered.parts) : rendered.parts[k] # <<>>
    /\ rendered.chart # None => rendered.chart.signal = rendered.signal

-----------------------------------------------------------------------------
(* Reading a caption that was split                                        *)

\* q is where the text goes on after p; only a line longer than a part is torn.
Follows(q, p, lines) ==
    IF p.to < lines[p.line].length
    THEN lines[p.line].length > MaxCaptionLength /\ q.line = p.line /\ q.from = p.to + 1
    ELSE q.line = p.line + 1 /\ q.from = 1

=============================================================================
