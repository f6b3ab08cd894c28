--------------------------- MODULE DeliveryProofs ---------------------------
(***************************************************************************)
(* The delivery stack, for any frames, destinations, configurations,       *)
(* attempt budgets, token bucket, durations and answers of the network:    *)
(* receipts tell what is known, a message is settled once, and requests    *)
(* stay within what the bucket allows.                                     *)
(***************************************************************************)
EXTENDS Delivery, WellFoundedInduction, TLAPS

-----------------------------------------------------------------------------
(* The caption of a message, for any message and any limit: whatever the   *)
(* lengths of its lines, the parts it is split into obey the limit and     *)
(* hold the text once, in order and without a gap.  Nothing in this part   *)
(* reads the state.                                                        *)

(* Induction.                                                              *)

LessThan == {ss \in Nat \X Nat : ss[1] < ss[2]}

\* A set of naturals that holds 0 and every successor holds them all.
LEMMA Induction ==
    ASSUME NEW S, 0 \in S, \A n \in Nat : n \in S => n + 1 \in S
    PROVE  \A n \in Nat : n \in S
<1> DEFINE T == {n \in Nat : n \notin S}
<1> SUFFICES ASSUME T # {} PROVE FALSE
  OBVIOUS
<1>1. T \subseteq Nat
  OBVIOUS
<1> HIDE DEF T
<1>2. IsWellFoundedOn(LessThan, Nat)
  BY NatLessThanWellFounded DEF OpToRel, LessThan
<1>3. PICK x \in T : \A y \in T : ~ (<<y, x>> \in LessThan)
  BY <1>1, <1>2, WFMin
<1>4. x \in Nat /\ x \notin S /\ x # 0
  BY <1>3 DEF T
<1>5. x - 1 \in Nat /\ x - 1 < x /\ (x - 1) + 1 = x
  BY <1>4
<1>6. x - 1 \notin T
  BY <1>3, <1>4, <1>5 DEF LessThan
<1> QED BY <1>4, <1>5, <1>6 DEF T

-----------------------------------------------------------------------------
(* Sums.                                                                   *)

\* f holds the sums of the first lengths, up to the n-th.
Sums(f, lengths, n) ==
    f = [k \in 0 .. n |-> IF k = 0 THEN 0 ELSE f[k - 1] + lengths[k]]

\* There are such sums.
LEMMA SumsExist ==
    ASSUME NEW lengths PROVE \A n \in Nat : \E f : Sums(f, lengths, n)
<1> DEFINE S == {n \in Nat : \E f : Sums(f, lengths, n)}
<1>1. 0 \in S
  <2>1. Sums([k \in 0 .. 0 |-> 0], lengths, 0)
    BY DEF Sums
  <2> QED BY <2>1
<1>2. ASSUME NEW n \in Nat, n \in S PROVE n + 1 \in S
  <2>1. PICK f : Sums(f, lengths, n)
    BY <1>2
  <2> DEFINE g == [k \in 0 .. n + 1 |-> IF k = n + 1 THEN f[n] + lengths[n + 1] ELSE f[k]]
  <2>2. Sums(g, lengths, n + 1)
    <3>1. ASSUME NEW k \in 0 .. n + 1
          PROVE  g[k] = IF k = 0 THEN 0 ELSE g[k - 1] + lengths[k]
      <4>1. CASE k = n + 1
        BY <4>1
      <4>2. CASE k \in 1 .. n
        <5>1. f[k] = f[k - 1] + lengths[k]
          BY <2>1, <4>2 DEF Sums
        <5> QED BY <4>2, <5>1
      <4>3. CASE k = 0
        BY <2>1, <4>3 DEF Sums
      <4> QED BY <4>1, <4>2, <4>3
    <3> HIDE DEF g
    <3>2. g = [k \in 0 .. n + 1 |-> g[k]]
      BY DEF g
    <3> QED BY <3>1, <3>2 DEF Sums
  <2> QED BY <2>2
<1> HIDE DEF S
<1>3. \A n \in Nat : n \in S
  BY <1>1, <1>2, Induction
<1> QED BY <1>3 DEF S

\* Total is the last of them.
LEMMA TotalSums ==
    ASSUME NEW lengths, Len(lengths) \in Nat
    PROVE  \E f : Sums(f, lengths, Len(lengths)) /\ Total(lengths) = f[Len(lengths)]
<1> DEFINE f == CHOOSE g : Sums(g, lengths, Len(lengths))
<1>1. Sums(f, lengths, Len(lengths))
  BY SumsExist
<1>2. Total(lengths) = f[Len(lengths)]
  BY DEF Total, Sums
<1> QED BY <1>1, <1>2

\* The sum of one length.
LEMMA TotalOfOne ==
    ASSUME NEW x \in Nat PROVE Total(<<x>>) = x
<1>0. Len(<<x>>) = 1 /\ <<x>>[1] = x
  OBVIOUS
<1>1. PICK f : Sums(f, <<x>>, 1) /\ Total(<<x>>) = f[1]
  BY <1>0, TotalSums
<1>2. f[1] = f[0] + x /\ f[0] = 0
  BY <1>0, <1>1 DEF Sums
<1> QED BY <1>1, <1>2

\* A sum of naturals is one, and at least the last of them.
LEMMA TotalType ==
    ASSUME NEW s \in Seq(Nat)
    PROVE  Total(s) \in Nat /\ (s # <<>> => Total(s) >= s[Len(s)])
<1>1. PICK f : Sums(f, s, Len(s)) /\ Total(s) = f[Len(s)]
  BY TotalSums
<1>2. /\ f[0] = 0
      /\ \A k \in 1 .. Len(s) : f[k] = f[k - 1] + s[k]
  <2>1. Len(s) \in Nat
    OBVIOUS
  <2>2. \A k \in 0 .. Len(s) : f[k] = IF k = 0 THEN 0 ELSE f[k - 1] + s[k]
    BY <1>1 DEF Sums
  <2> QED BY <2>1, <2>2
<1> DEFINE S == {n \in Nat : n <= Len(s) => f[n] \in Nat}
<1>3. \A n \in Nat : n \in S
  <2>1. 0 \in S
    BY <1>2
  <2>2. ASSUME NEW n \in Nat, n \in S PROVE n + 1 \in S
    <3> SUFFICES ASSUME n + 1 <= Len(s) PROVE f[n + 1] \in Nat
      OBVIOUS
    <3>1. n + 1 \in 1 .. Len(s) /\ f[n] \in Nat /\ (n + 1) - 1 = n
      BY <2>2
    <3>2. s[n + 1] \in Nat /\ f[n + 1] = f[n] + s[n + 1]
      BY <1>2, <3>1
    <3> QED BY <3>1, <3>2
  <2> HIDE DEF S
  <2> QED BY <2>1, <2>2, Induction
<1>4. Total(s) \in Nat
  BY <1>1, <1>3
<1>5. ASSUME s # <<>> PROVE Total(s) >= s[Len(s)]
  <2>1. Len(s) \in 1 .. Len(s) /\ Len(s) - 1 \in Nat
    BY <1>5
  <2>2. f[Len(s)] = f[Len(s) - 1] + s[Len(s)] /\ f[Len(s) - 1] \in Nat
    BY <1>2, <1>3, <2>1
  <2> QED BY <1>1, <2>1, <2>2
<1> QED BY <1>4, <1>5

-----------------------------------------------------------------------------
(* The lines of a caption.                                                 *)

Fields == {"header", "signal", "price", "score", "setup", "reasons", "classification",
           "eligibility", "times", "why", "provenance", "no chart", "footer"}
              \union ({"why"} \X Nat)

\* The lines a caption may have: none is empty.
Lines == [field : Fields, length : Nat \ {0}]

\* A message has evidence, and each piece of it an identity.
HasEvidence(message) ==
    /\ message.explanation \in Seq(Nat)
    /\ message.evidence \in Seq(Nat \ {0}) /\ message.evidence # <<>>

\* A line of the caption, given its length.
LEMMA LineType ==
    ASSUME NEW field \in Fields, NEW length \in Nat \ {0}
    PROVE  Line(field, length) \in Lines
BY DEF Line, Lines

\* A line that may be missing is a sequence of at most one line.
LEMMA OnlyIfType ==
    ASSUME NEW condition \in BOOLEAN, NEW line \in Lines
    PROVE  OnlyIf(condition, line) \in Seq(Lines)
BY DEF OnlyIf

\* The evidence takes room.
LEMMA JoinedType ==
    ASSUME NEW s \in Seq(Nat \ {0}), s # <<>> PROVE JoinedLength(s) \in Nat \ {0}
<1>1. s \in Seq(Nat) /\ Len(s) \in Nat \ {0} /\ s[Len(s)] \in Nat \ {0}
  OBVIOUS
<1>2. Total(s) \in Nat /\ Total(s) >= s[Len(s)]
  BY <1>1, TotalType
<1>3. Len(s) - 1 \in Nat /\ Total(s) \in Nat \ {0}
  BY <1>1, <1>2
<1> QED BY <1>3 DEF JoinedLength

\* A caption is a sequence of lines, and not empty.
LEMMA CaptionType ==
    ASSUME NEW message, HasEvidence(message), NEW show, NEW chartPresent
    PROVE  /\ RenderMessage(message, show, chartPresent) \in Seq(Lines)
           /\ RenderMessage(message, show, chartPresent) # <<>>
<1> DEFINE why == [k \in 1 .. Len(message.explanation) |->
                      Line(<<"why", k>>, 2 + message.explanation[k])]
           first == <<Line("header", 1)>>
           o(condition, field) == OnlyIf(condition, Line(field, 1))
           halal == IF show.halal THEN <<Line("classification", 1), Line("eligibility", 1)>>
                    ELSE <<>>
           provenance == <<Line("provenance", JoinedLength(message.evidence))>>
<1>1. why \in Seq(Lines)
  <2>1. \A k \in 1 .. Len(message.explanation) :
            2 + message.explanation[k] \in Nat \ {0} /\ k \in Nat
    BY DEF HasEvidence
  <2>4. \A k \in Nat : <<"why", k>> \in Fields
    BY DEF Fields
  <2>2. \A k \in 1 .. Len(message.explanation) :
            Line(<<"why", k>>, 2 + message.explanation[k]) \in Lines
    BY <2>1, <2>4, LineType
  <2>3. Len(message.explanation) \in Nat
    BY DEF HasEvidence
  <2> QED BY <2>2, <2>3
<1>2. \A field \in Fields : <<Line(field, 1)>> \in Seq(Lines)
  BY LineType
<1>3. first \in Seq(Lines)
  BY <1>2 DEF Fields
<1>4. \A condition : \A field \in Fields : o(condition, field) \in Seq(Lines)
  BY LineType DEF OnlyIf
<1>5. halal \in Seq(Lines)
  <2>1. "classification" \in Fields /\ "eligibility" \in Fields
    BY DEF Fields
  <2>2. Line("classification", 1) \in Lines /\ Line("eligibility", 1) \in Lines
    BY <2>1, LineType
  <2> QED BY <2>2
<1>6. provenance \in Seq(Lines)
  <2>1. "provenance" \in Fields /\ JoinedLength(message.evidence) \in Nat \ {0}
    BY JoinedType DEF Fields, HasEvidence
  <2>2. Line("provenance", JoinedLength(message.evidence)) \in Lines
    BY <2>1, LineType
  <2> QED BY <2>2
<1>7. /\ o(show.signal, "signal") \in Seq(Lines) /\ o(message.priced, "price") \in Seq(Lines)
      /\ <<Line("score", 1)>> \in Seq(Lines) /\ o(show.setup, "setup") \in Seq(Lines)
      /\ <<Line("reasons", 1)>> \in Seq(Lines) /\ o(show.times, "times") \in Seq(Lines)
      /\ <<Line("why", 1)>> \in Seq(Lines) /\ <<Line("footer", 1)>> \in Seq(Lines)
      /\ o(~ chartPresent /\ show.marker, "no chart") \in Seq(Lines)
  BY <1>2, <1>4 DEF Fields
<1> DEFINE second == o(show.signal, "signal")
           third == o(message.priced, "price")
           score == <<Line("score", 1)>>
           arranged == o(show.setup, "setup")
           reasons == <<Line("reasons", 1)>>
           times == o(show.times, "times")
           because == <<Line("why", 1)>>
           marker == o(~ chartPresent /\ show.marker, "no chart")
           footer == <<Line("footer", 1)>>
           caption == first \o second \o third \o score \o arranged \o reasons \o halal \o times
                         \o because \o why \o provenance \o marker \o footer
<1>8. RenderMessage(message, show, chartPresent) = caption
  BY DEF RenderMessage
<1>9. first # <<>>
  OBVIOUS
<1> HIDE DEF first, second, third, score, arranged, reasons, halal, times, because, why,
             provenance, marker, footer
<1>10. \A s, t \in Seq(Lines) : s \o t \in Seq(Lines) /\ (s # <<>> => s \o t # <<>>)
  OBVIOUS
<1>11. /\ second \in Seq(Lines) /\ third \in Seq(Lines) /\ score \in Seq(Lines)
       /\ arranged \in Seq(Lines) /\ reasons \in Seq(Lines) /\ times \in Seq(Lines)
       /\ because \in Seq(Lines) /\ marker \in Seq(Lines) /\ footer \in Seq(Lines)
  BY <1>7 DEF second, third, score, arranged, reasons, times, because, marker, footer
<1> HIDE DEF caption
<1>12. caption \in Seq(Lines) /\ caption # <<>>
  BY <1>1, <1>3, <1>5, <1>6, <1>9, <1>10, <1>11 DEF caption
<1> QED BY <1>8, <1>12

-----------------------------------------------------------------------------
(* Reading the parts.                                                      *)

Pieces == [line : Nat, from : Nat, to : Nat]

\* A part that may be sent.
Sound(part) == part \in Seq(Pieces) /\ part # <<>> /\ PartLength(part) <= MaxCaptionLength

\* The parts hold the first n lines, once, in order and without a gap.
Reads(parts, n, lines) ==
    /\ parts # <<>> /\ parts[1][1].line = 1 /\ parts[1][1].from = 1
    /\ \A k \in 1 .. Len(parts) : \A i \in 1 .. Len(parts[k]) :
        LET p == parts[k][i]
        IN  /\ p.line \in 1 .. n
            /\ p.from <= p.to /\ p.to <= lines[p.line].length
            /\ i < Len(parts[k]) =>
                   p.to = lines[p.line].length /\ Follows(parts[k][i + 1], p, lines)
            /\ i = Len(parts[k]) /\ k < Len(parts) => Follows(parts[k + 1][1], p, lines)
            /\ i = Len(parts[k]) /\ k = Len(parts) =>
                   p.line = n /\ p.to = lines[p.line].length

\* The length of a part of one piece.
LEMMA PieceLength ==
    ASSUME NEW p \in Pieces, p.from <= p.to
    PROVE  PartLength(<<p>>) = p.to - p.from + 1
<1> DEFINE x == p.to - p.from + 1
<1>1. x \in Nat
  BY DEF Pieces
<1>2. Len(<<p>>) = 1 /\ [i \in 1 .. 1 |-> <<p>>[i].to - <<p>>[i].from + 1] = <<x>>
  OBVIOUS
<1> HIDE DEF x
<1>3. Total(<<x>>) = x
  BY <1>1, TotalOfOne
<1>4. PartLength(<<p>>) = Total(<<x>>) + (1 - 1)
  BY <1>2 DEF PartLength, x
<1> QED BY <1>1, <1>3, <1>4 DEF x

\* A caption of one part holds every line whole.
LEMMA OneRead ==
    ASSUME NEW lines \in Seq(Lines), lines # <<>>
    PROVE  /\ Reads(OnePart(lines), Len(lines), lines)
           /\ Len(OnePart(lines)) = 1 /\ OnePart(lines)[1] # <<>>
           /\ OnePart(lines)[1] \in Seq(Pieces)
           /\ PartLength(OnePart(lines)[1]) = TextLength(lines)
<1> DEFINE part == [i \in 1 .. Len(lines) |-> Piece(i, 1, lines[i].length)]
<1>1. Len(lines) \in Nat \ {0} /\ \A i \in 1 .. Len(lines) : lines[i].length \in Nat \ {0}
  <2>1. \A i \in 1 .. Len(lines) : lines[i] \in Lines
    OBVIOUS
  <2> QED BY <2>1 DEF Lines
<1>2. part \in Seq(Pieces) /\ Len(part) = Len(lines) /\ part # <<>>
  BY <1>1 DEF Piece, Pieces
<1>3. \A i \in 1 .. Len(lines) : part[i].line = i /\ part[i].from = 1
                                 /\ part[i].to = lines[i].length
  BY DEF Piece
<1>4. PartLength(part) = TextLength(lines)
  <2>1. [i \in 1 .. Len(part) |-> part[i].to - part[i].from + 1]
            = [i \in 1 .. Len(lines) |-> lines[i].length]
    BY <1>1, <1>2, <1>3
  <2> QED BY <1>2, <2>1 DEF PartLength, TextLength
<1> HIDE DEF part
<1>5. OnePart(lines) = <<part>>
  BY DEF OnePart, part
<1>6. Reads(<<part>>, Len(lines), lines)
  <2>1. Len(<<part>>) = 1 /\ <<part>>[1] = part /\ <<part>> # <<>>
    OBVIOUS
  <2>2. ASSUME NEW i \in 1 .. Len(part)
        PROVE  LET p == part[i]
               IN  /\ p.line \in 1 .. Len(lines)
                   /\ p.from <= p.to /\ p.to <= lines[p.line].length
                   /\ i < Len(part) =>
                          p.to = lines[p.line].length /\ Follows(part[i + 1], p, lines)
                   /\ i = Len(part) => p.line = Len(lines) /\ p.to = lines[p.line].length
    BY <1>1, <1>2, <1>3 DEF Follows
  <2>3. part[1].line = 1 /\ part[1].from = 1
    BY <1>1, <1>3
  <2> QED BY <2>1, <2>2, <2>3 DEF Reads
<1> QED BY <1>2, <1>4, <1>5, <1>6

\* The last piece of a line, after the others took the limit each, is not empty and fits.
LEMMA Breaks ==
    ASSUME NEW length \in Nat \ {0}
    PROVE  LET q == (length - 1) \div MaxCaptionLength
           IN  /\ q \in Nat
               /\ q * MaxCaptionLength + 1 <= length
               /\ length - q * MaxCaptionLength <= MaxCaptionLength
               /\ q * MaxCaptionLength \in Nat
               /\ \A k \in 1 .. q : /\ k * MaxCaptionLength \in Nat
                                    /\ (k - 1) * MaxCaptionLength \in Nat
                                    /\ k * MaxCaptionLength < length
                                    /\ k * MaxCaptionLength =
                                           (k - 1) * MaxCaptionLength + MaxCaptionLength
<1> DEFINE M == MaxCaptionLength
           q == (length - 1) \div M
           r == (length - 1) % M
<1>1. M \in Nat \ {0} /\ length - 1 \in Nat
  BY LimitAssumption
<1>2. q \in Nat /\ r \in 0 .. M - 1 /\ length - 1 = M * q + r
  BY <1>1
<1> HIDE DEF M, q, r
<1>3. q * M \in Nat /\ q * M = M * q
  BY <1>1, <1>2
<1>4. q * M + 1 <= length /\ length - q * M <= M
  BY <1>1, <1>2, <1>3
<1>5. ASSUME NEW k \in 1 .. q
      PROVE  /\ k * M \in Nat /\ (k - 1) * M \in Nat /\ k * M < length
             /\ k * M = (k - 1) * M + M
  <2>1. k \in Nat /\ k - 1 \in Nat /\ q - k \in Nat
    BY <1>2
  <2>2. k * M \in Nat /\ (k - 1) * M \in Nat /\ (q - k) * M \in Nat
    BY <1>1, <2>1
  <2>3. k * M = (k - 1) * M + M
    BY <1>1, <2>1
  <2>4. q * M = k * M + (q - k) * M
    BY <1>1, <1>2, <2>1
  <2> QED BY <1>3, <1>4, <2>2, <2>3, <2>4
<1> QED BY <1>2, <1>3, <1>4, <1>5 DEF M, q

\* A line broken at the limit, piece by piece.
Torn(i, length) ==
    LET q == (length - 1) \div MaxCaptionLength
    IN  [k \in 1 .. q + 1 |->
            <<Piece(i, (k - 1) * MaxCaptionLength + 1,
                    IF k <= q THEN k * MaxCaptionLength ELSE length)>>]

\* Joining with an appended sequence appends to the join.
LEMMA JoinAppend ==
    ASSUME NEW p \in Seq(Seq(Pieces)), NEW q \in Seq(Seq(Pieces)), NEW r \in Seq(Pieces)
    PROVE  p \o Append(q, r) = Append(p \o q, r)
BY SMTT(30)

\* The pieces of a broken line: each fits, they follow one another and the last ends the line.
LEMMA TornPieces ==
    ASSUME NEW i \in Nat, NEW length \in Nat \ {0}
    PROVE  LET t == Torn(i, length)
           IN  /\ Len(t) \in Nat \ {0} /\ t \in Seq(Seq(Pieces))
               /\ t[1][1].from = 1
               /\ \A k \in 1 .. Len(t) :
                    /\ Len(t[k]) = 1 /\ Sound(t[k]) /\ t[k][1].line = i
                    /\ t[k][1].from <= t[k][1].to /\ t[k][1].to <= length
                    /\ k < Len(t) => /\ t[k][1].to < length /\ length > MaxCaptionLength
                                     /\ t[k + 1][1].from = t[k][1].to + 1
                    /\ k = Len(t) => t[k][1].to = length
<1> DEFINE M == MaxCaptionLength
           q == (length - 1) \div M
           P(k) == Piece(i, (k - 1) * M + 1, IF k <= q THEN k * M ELSE length)
           t == [k \in 1 .. q + 1 |-> <<P(k)>>]
<1>0. M \in Nat \ {0}
  BY LimitAssumption
<1>1. /\ q \in Nat /\ q * M + 1 <= length /\ length - q * M <= M /\ q * M \in Nat
      /\ \A k \in 1 .. q : /\ k * M \in Nat /\ (k - 1) * M \in Nat
                           /\ k * M < length /\ k * M = (k - 1) * M + M
  BY Breaks
<1> HIDE DEF q, M
<1>2. ASSUME NEW k \in 1 .. q + 1
      PROVE  /\ P(k) \in Pieces /\ P(k).line = i
             /\ P(k).from <= P(k).to /\ P(k).to <= length
             /\ P(k).to - P(k).from + 1 <= M
             /\ k <= q => P(k).to < length /\ P(k + 1).from = P(k).to + 1
             /\ k = q + 1 => P(k).to = length
  <2> DEFINE before == (k - 1) * M
             upTo == k * M
  <2>1. P(k).line = i /\ P(k).from = before + 1 /\ P(k).to = IF k <= q THEN upTo ELSE length
    BY DEF Piece
  <2>2. CASE k <= q
    <3>1. k \in 1 .. q
      BY <1>1, <2>2
    <3>2. before \in Nat /\ upTo \in Nat /\ upTo < length /\ upTo = before + M
      BY <1>1, <3>1
    <3>3. P(k + 1).from = upTo + 1
      <4>1. (k + 1) - 1 = k
        BY <3>1, <1>1
      <4> QED BY <4>1 DEF Piece
    <3>4. P(k).from = before + 1 /\ P(k).to = upTo /\ P(k) = Piece(i, before + 1, upTo)
      BY <2>1, <2>2
    <3> HIDE DEF before, upTo, P
    <3>5. Piece(i, before + 1, upTo) \in Pieces
      BY <3>2 DEF Piece, Pieces
    <3>6. k # q + 1
      BY <2>2, <1>1
    <3> QED BY <1>0, <2>1, <2>2, <3>2, <3>3, <3>4, <3>5, <3>6
  <2>3. CASE k = q + 1
    <3>1. before = q * M /\ ~ (k <= q)
      BY <1>1, <2>3
    <3>2. before \in Nat /\ before + 1 <= length /\ length - before <= M
      BY <1>1, <3>1
    <3>3. P(k).from = before + 1 /\ P(k).to = length /\ P(k) = Piece(i, before + 1, length)
      BY <2>1, <3>1
    <3> HIDE DEF before, upTo, P
    <3>4. Piece(i, before + 1, length) \in Pieces
      BY <3>2 DEF Piece, Pieces
    <3> QED BY <1>0, <2>1, <3>1, <3>2, <3>3, <3>4
  <2> QED BY <1>1, <2>2, <2>3
<1>3. P(1).from = 1
  <2>1. (1 - 1) * M + 1 = 1
    BY <1>0
  <2> QED BY <2>1 DEF Piece
<1>4. q \in Nat /\ (q >= 1 => length > M)
  <2>1. q >= 1 => 1 * M < length
    BY <1>1
  <2> QED BY <1>0, <1>1, <2>1
<1> HIDE DEF P
<1>5. /\ Len(t) = q + 1 /\ \A k \in 1 .. q + 1 : t[k] = <<P(k)>>
      /\ t \in Seq(Seq(Pieces))
  <2>1. \A k \in 1 .. q + 1 : <<P(k)>> \in Seq(Pieces)
    BY <1>2
  <2> QED BY <1>4, <2>1
<1>6. \A k \in 1 .. q + 1 : Len(t[k]) = 1 /\ t[k][1] = P(k) /\ t[k] # <<>>
  BY <1>5
<1>7. \A k \in 1 .. q + 1 : Sound(t[k])
  <2> SUFFICES ASSUME NEW k \in 1 .. q + 1 PROVE Sound(<<P(k)>>)
    BY <1>5
  <2>1. PartLength(<<P(k)>>) = P(k).to - P(k).from + 1
    BY <1>2, PieceLength
  <2>2. P(k).to - P(k).from + 1 <= MaxCaptionLength
    BY <1>2 DEF M
  <2> QED BY <1>2, <2>1, <2>2 DEF Sound
<1> HIDE DEF t
<1>8. Torn(i, length) = t
  BY DEF Torn, t, P, q, M
<1>9. /\ Len(t) \in Nat \ {0} /\ t[1][1].from = 1
      /\ \A k \in 1 .. Len(t) :
            /\ Len(t[k]) = 1 /\ Sound(t[k]) /\ t[k][1].line = i
            /\ t[k][1].from <= t[k][1].to /\ t[k][1].to <= length
            /\ k < Len(t) => /\ t[k][1].to < length /\ length > M
                             /\ t[k + 1][1].from = t[k][1].to + 1
            /\ k = Len(t) => t[k][1].to = length
  <2>1. 1 \in 1 .. q + 1
    BY <1>4
  <2>2. ASSUME NEW k \in 1 .. q, TRUE
        PROVE  k \in 1 .. q + 1 /\ k + 1 \in 1 .. q + 1 /\ k <= q /\ q >= 1
    BY <1>4
  <2>3. \A k \in 1 .. q : t[k][1].to < length /\ length > M /\ t[k + 1][1].from = t[k][1].to + 1
    BY <1>2, <1>4, <1>6, <2>2
  <2>4. \A k \in 1 .. q + 1 : k < q + 1 => k \in 1 .. q
    BY <1>4
  <2> QED BY <1>2, <1>3, <1>4, <1>5, <1>6, <1>7, <2>1, <2>3, <2>4
<1> QED BY <1>5, <1>8, <1>9 DEF M

\* The parts after a line that starts a new one.
LEMMA GrowBreak ==
    ASSUME NEW lines \in Seq(Lines), NEW n \in Nat, n + 1 <= Len(lines),
           NEW ps \in Seq(Seq(Pieces)),
           IF n = 0 THEN ps = <<>> ELSE Reads(ps, n, lines)
    PROVE  Reads(ps \o Torn(n + 1, lines[n + 1].length), n + 1, lines)
<1> DEFINE L == lines[n + 1].length
           t == Torn(n + 1, L)
           m == Len(ps)
           s == ps \o t
<1>0. L \in Nat \ {0} /\ n + 1 \in Nat /\ m \in Nat
  <2>1. lines[n + 1] \in Lines
    OBVIOUS
  <2> QED BY <2>1 DEF Lines
<1>1. /\ Len(t) \in Nat \ {0} /\ t \in Seq(Seq(Pieces)) /\ t[1][1].from = 1
      /\ \A k \in 1 .. Len(t) :
           /\ Len(t[k]) = 1 /\ t[k][1].line = n + 1
           /\ t[k][1].from <= t[k][1].to /\ t[k][1].to <= L
           /\ k < Len(t) => /\ t[k][1].to < L /\ L > MaxCaptionLength
                            /\ t[k + 1][1].from = t[k][1].to + 1
           /\ k = Len(t) => t[k][1].to = L
  <2> HIDE DEF L
  <2>1. LET u == Torn(n + 1, L)
        IN  /\ Len(u) \in Nat \ {0} /\ u \in Seq(Seq(Pieces))
            /\ u[1][1].from = 1
            /\ \A k \in 1 .. Len(u) :
                 /\ Len(u[k]) = 1 /\ Sound(u[k]) /\ u[k][1].line = n + 1
                 /\ u[k][1].from <= u[k][1].to /\ u[k][1].to <= L
                 /\ k < Len(u) => /\ u[k][1].to < L /\ L > MaxCaptionLength
                                  /\ u[k + 1][1].from = u[k][1].to + 1
                 /\ k = Len(u) => u[k][1].to = L
    BY <1>0, TornPieces, ZenonT(40)
  <2> QED BY <2>1
<1> HIDE DEF L, t
<1>2. /\ Len(s) = m + Len(t)
      /\ \A k \in 1 .. m : s[k] = ps[k]
      /\ \A k \in m + 1 .. Len(s) : k - m \in 1 .. Len(t) /\ s[k] = t[k - m]
  BY <1>0, <1>1
<1> HIDE DEF m, s
<1>3. s # <<>> /\ s[1][1].line = 1 /\ s[1][1].from = 1
  <2>1. CASE n = 0
    BY <1>1, <1>2, <2>1 DEF s
  <2>2. CASE n # 0
    <3>1. ps # <<>> /\ ps[1][1].line = 1 /\ ps[1][1].from = 1 /\ m \in Nat \ {0}
      BY <2>2, <1>0 DEF Reads, m
    <3>2. 1 \in 1 .. m /\ Len(s) \in Nat \ {0}
      BY <1>1, <1>2, <3>1
    <3>3. s[1] = ps[1]
      BY <1>2, <3>2
    <3>4. s # <<>>
      BY <3>2
    <3> QED BY <3>1, <3>3, <3>4
  <2> QED BY <2>1, <2>2
<1>4. ASSUME NEW k \in 1 .. Len(s), NEW i \in 1 .. Len(s[k])
      PROVE  LET p == s[k][i]
             IN  /\ p.line \in 1 .. n + 1
                 /\ p.from <= p.to /\ p.to <= lines[p.line].length
                 /\ i < Len(s[k]) => p.to = lines[p.line].length /\ Follows(s[k][i + 1], p, lines)
                 /\ i = Len(s[k]) /\ k < Len(s) => Follows(s[k + 1][1], p, lines)
                 /\ i = Len(s[k]) /\ k = Len(s) => p.line = n + 1 /\ p.to = lines[p.line].length
  <2>1. CASE k <= m
    <3>1. n # 0 /\ Reads(ps, n, lines) /\ k \in 1 .. m /\ s[k] = ps[k] /\ i \in 1 .. Len(ps[k])
      <4>1. k \in 1 .. m
        BY <2>1, <1>0
      <4>2. n # 0
        BY <4>1 DEF m
      <4> QED BY <4>1, <4>2, <1>2
    <3>2. k < Len(s)
      BY <3>1, <1>0, <1>1, <1>2
    <3> DEFINE p == ps[k][i]
    <3>3. /\ p.line \in 1 .. n
          /\ p.from <= p.to /\ p.to <= lines[p.line].length
          /\ i < Len(ps[k]) => p.to = lines[p.line].length /\ Follows(ps[k][i + 1], p, lines)
          /\ i = Len(ps[k]) /\ k < m => Follows(ps[k + 1][1], p, lines)
          /\ i = Len(ps[k]) /\ k = m => p.line = n /\ p.to = lines[p.line].length
      BY <3>1 DEF Reads, m
    <3> HIDE DEF p
    <3>4. ASSUME i = Len(ps[k]) PROVE Follows(s[k + 1][1], p, lines)
      <4>1. CASE k < m
        <5>1. k + 1 \in 1 .. m
          BY <4>1, <3>1, <1>0
        <5> QED BY <3>3, <3>4, <4>1, <5>1, <1>2
      <4>2. CASE k = m
        <5>1. k + 1 \in m + 1 .. Len(s) /\ (k + 1) - m = 1
          <6>1. Len(t) \in Nat \ {0} /\ Len(s) = m + Len(t)
            BY <1>1, <1>2
          <6> QED BY <6>1, <4>2, <3>1, <1>0
        <5>2. s[k + 1] = t[1] /\ s[k + 1][1].line = n + 1 /\ s[k + 1][1].from = 1
          BY <5>1, <1>1, <1>2
        <5>3. p.line = n /\ p.to = lines[n].length
          BY <3>3, <3>4, <4>2
        <5>4. lines[n].length \in Nat
          <6>1. lines[n] \in Lines
            BY <3>1
          <6> QED BY <6>1 DEF Lines
        <5> QED BY <5>2, <5>3, <5>4 DEF Follows
      <4> QED BY <2>1, <3>1, <1>0, <4>1, <4>2
    <3>5. p.line \in 1 .. n + 1
      BY <3>3
    <3> QED BY <3>1, <3>2, <3>3, <3>4, <3>5 DEF p
  <2>2. CASE k > m
    <3> DEFINE j == k - m
    <3>1. k \in m + 1 .. Len(s) /\ j \in 1 .. Len(t) /\ s[k] = t[j] /\ Len(t[j]) = 1 /\ i = 1
      <4>1. k \in m + 1 .. Len(s)
        BY <2>2, <1>0, <1>1, <1>2
      <4>2. j \in 1 .. Len(t) /\ s[k] = t[j] /\ Len(t[j]) = 1
        BY <4>1, <1>1, <1>2
      <4> QED BY <4>1, <4>2
    <3> DEFINE p == t[j][1]
    <3>2. /\ p.line = n + 1 /\ p.from <= p.to /\ p.to <= L
          /\ j < Len(t) => p.to < L /\ L > MaxCaptionLength /\ t[j + 1][1].from = p.to + 1
          /\ j = Len(t) => p.to = L
      BY <3>1, <1>1
    <3>3. lines[p.line].length = L
      BY <3>2 DEF L
    <3>4. ASSUME k < Len(s) PROVE Follows(s[k + 1][1], p, lines)
      <4>1. k + 1 \in m + 1 .. Len(s) /\ (k + 1) - m = j + 1 /\ j < Len(t) /\ j + 1 \in 1 .. Len(t)
        BY <3>1, <3>4, <1>0, <1>1, <1>2, SMTT(30)
      <4>2. s[k + 1] = t[j + 1]
        BY <4>1, <1>2
      <4>3. t[j + 1][1].line = n + 1
        BY <4>1, <1>1
      <4> HIDE DEF p, j
      <4>5. p.to < L /\ L > MaxCaptionLength /\ t[j + 1][1].from = p.to + 1
        BY <3>2, <4>1
      <4> QED BY <3>2, <3>3, <4>2, <4>3, <4>5 DEF Follows
    <3>5. k = Len(s) => j = Len(t)
      BY <1>0, <1>1, <1>2
    <3>6. p.line \in 1 .. n + 1
      BY <3>2
    <3>7. s[k][i] = p /\ Len(s[k]) = 1
      BY <3>1
    <3> HIDE DEF p, j
    <3> QED BY <3>1, <3>2, <3>3, <3>4, <3>5, <3>6, <3>7
  <2> QED BY <1>0, <2>1, <2>2
<1>5. Reads(s, n + 1, lines)
  BY <1>3, <1>4 DEF Reads
<1> QED BY <1>5 DEF s, t, L

\* The parts after a line that joins the last of them.
LEMMA GrowFit ==
    ASSUME NEW lines \in Seq(Lines), NEW n \in Nat \ {0}, n + 1 <= Len(lines),
           NEW ps \in Seq(Seq(Pieces)), NEW buffer \in Seq(Pieces), buffer # <<>>,
           Reads(Append(ps, buffer), n, lines)
    PROVE  Reads(Append(ps, Append(buffer, Piece(n + 1, 1, lines[n + 1].length))), n + 1, lines)
<1> DEFINE L == lines[n + 1].length
           whole == Piece(n + 1, 1, L)
           grown == Append(buffer, whole)
           s == Append(ps, buffer)
           t == Append(ps, grown)
           m == Len(ps)
<1>0. /\ L \in Nat \ {0} /\ n + 1 \in Nat /\ m \in Nat
      /\ lines[n].length \in Nat
  <2>1. lines[n + 1] \in Lines /\ lines[n] \in Lines
    OBVIOUS
  <2> QED BY <2>1 DEF Lines
<1>1. whole.line = n + 1 /\ whole.from = 1 /\ whole.to = L
  BY DEF Piece
<1> HIDE DEF whole
<1>2. /\ Len(grown) = Len(buffer) + 1 /\ Len(buffer) \in Nat \ {0}
      /\ grown[Len(buffer) + 1] = whole
      /\ \A i \in 1 .. Len(buffer) : grown[i] = buffer[i]
  OBVIOUS
<1> HIDE DEF grown, m
<1>3. /\ Len(s) = m + 1 /\ Len(t) = m + 1
      /\ s[m + 1] = buffer /\ t[m + 1] = grown
      /\ \A k \in 1 .. m : s[k] = ps[k] /\ t[k] = ps[k]
  BY DEF m
<1> HIDE DEF s, t
<1>4. /\ s[1][1].line = 1 /\ s[1][1].from = 1
      /\ \A k \in 1 .. m + 1 : \A i \in 1 .. Len(s[k]) :
            /\ s[k][i].line \in 1 .. n
            /\ s[k][i].from <= s[k][i].to /\ s[k][i].to <= lines[s[k][i].line].length
            /\ i < Len(s[k]) => s[k][i].to = lines[s[k][i].line].length
                                /\ Follows(s[k][i + 1], s[k][i], lines)
            /\ i = Len(s[k]) /\ k < m + 1 => Follows(s[k + 1][1], s[k][i], lines)
            /\ i = Len(s[k]) /\ k = m + 1 => /\ s[k][i].line = n
                                             /\ s[k][i].to = lines[s[k][i].line].length
  <2>1. Reads(s, n, lines)
    BY DEF s
  <2>2. 1 .. Len(s) = 1 .. m + 1
    BY <1>3
  <2>3. Len(s) = m + 1
    BY <1>3
  <2> HIDE DEF s
  <2>4. \A k \in 1 .. Len(s) : \A i \in 1 .. Len(s[k]) :
           /\ s[k][i].line \in 1 .. n
           /\ s[k][i].from <= s[k][i].to /\ s[k][i].to <= lines[s[k][i].line].length
           /\ i < Len(s[k]) => s[k][i].to = lines[s[k][i].line].length
                               /\ Follows(s[k][i + 1], s[k][i], lines)
           /\ i = Len(s[k]) /\ k < Len(s) => Follows(s[k + 1][1], s[k][i], lines)
           /\ i = Len(s[k]) /\ k = Len(s) => /\ s[k][i].line = n
                                             /\ s[k][i].to = lines[s[k][i].line].length
    BY <2>1, ZenonT(30) DEF Reads
  <2>5. s[1][1].line = 1 /\ s[1][1].from = 1
    BY <2>1 DEF Reads
  <2>6. ASSUME NEW k \in 1 .. m + 1, NEW i \in 1 .. Len(s[k])
        PROVE  /\ s[k][i].line \in 1 .. n
               /\ s[k][i].from <= s[k][i].to /\ s[k][i].to <= lines[s[k][i].line].length
               /\ i < Len(s[k]) => s[k][i].to = lines[s[k][i].line].length
                                   /\ Follows(s[k][i + 1], s[k][i], lines)
               /\ i = Len(s[k]) /\ k < m + 1 => Follows(s[k + 1][1], s[k][i], lines)
               /\ i = Len(s[k]) /\ k = m + 1 => /\ s[k][i].line = n
                                                /\ s[k][i].to = lines[s[k][i].line].length
    <3>1. k \in 1 .. Len(s)
      BY <2>2
    <3> QED BY <2>3, <2>4, <3>1
  <2> QED BY <2>5, <2>6
<1>5. /\ \A k \in 1 .. m + 1 : \A i \in 1 .. Len(s[k]) : t[k][i] = s[k][i]
      /\ \A k \in 1 .. m : Len(t[k]) = Len(s[k])
      /\ t[1][1] = s[1][1]
  <2>1. \A k \in 1 .. m + 1 : k \in 1 .. m \/ k = m + 1
    BY <1>0
  <2>2. \A i \in 1 .. Len(buffer) : t[m + 1][i] = s[m + 1][i]
    BY <1>2, <1>3
  <2>3. \A k \in 1 .. m : t[k] = s[k]
    BY <1>3
  <2>4. t[1][1] = s[1][1]
    <3>1. CASE m = 0
      <4>1. t[1] = grown /\ s[1] = buffer /\ 1 \in 1 .. Len(buffer)
        BY <3>1, <1>2, <1>3
      <4> QED BY <4>1, <1>2
    <3>2. CASE m # 0
      <4>1. 1 \in 1 .. m
        BY <3>2, <1>0
      <4> QED BY <4>1, <2>3
    <3> QED BY <3>1, <3>2
  <2> QED BY <1>3, <2>1, <2>2, <2>3, <2>4
<1>6. t # <<>> /\ t[1][1].line = 1 /\ t[1][1].from = 1
  BY <1>0, <1>3, <1>4, <1>5
<1>7. ASSUME NEW k \in 1 .. Len(t), NEW i \in 1 .. Len(t[k])
      PROVE  LET p == t[k][i]
             IN  /\ p.line \in 1 .. n + 1
                 /\ p.from <= p.to /\ p.to <= lines[p.line].length
                 /\ i < Len(t[k]) => p.to = lines[p.line].length /\ Follows(t[k][i + 1], p, lines)
                 /\ i = Len(t[k]) /\ k < Len(t) => Follows(t[k + 1][1], p, lines)
                 /\ i = Len(t[k]) /\ k = Len(t) => p.line = n + 1 /\ p.to = lines[p.line].length
  <2>1. CASE k \in 1 .. m
    <3>1. /\ k \in 1 .. m + 1 /\ k < m + 1 /\ t[k] = s[k] /\ i \in 1 .. Len(s[k])
          /\ k + 1 \in 1 .. m + 1
      BY <2>1, <1>0, <1>3
    <3>2. /\ s[k][i].line \in 1 .. n
          /\ s[k][i].from <= s[k][i].to /\ s[k][i].to <= lines[s[k][i].line].length
          /\ i < Len(s[k]) => s[k][i].to = lines[s[k][i].line].length
                              /\ Follows(s[k][i + 1], s[k][i], lines)
          /\ i = Len(s[k]) => Follows(s[k + 1][1], s[k][i], lines)
      BY <3>1, <1>4
    <3>3. t[k + 1][1] = s[k + 1][1]
      <4>1. CASE k + 1 \in 1 .. m
        BY <4>1, <1>3
      <4>2. CASE k + 1 = m + 1
        <5>1. t[k + 1] = grown /\ s[k + 1] = buffer /\ 1 \in 1 .. Len(buffer)
          BY <4>2, <1>2, <1>3
        <5> QED BY <5>1, <1>2
      <4> QED BY <3>1, <1>0, <4>1, <4>2
    <3> DEFINE p == s[k][i]
    <3> HIDE DEF p
    <3>4. t[k][i] = p /\ t[k] = s[k]
      BY <3>1 DEF p
    <3>5. /\ p.line \in 1 .. n
          /\ p.from <= p.to /\ p.to <= lines[p.line].length
          /\ i < Len(s[k]) => p.to = lines[p.line].length /\ Follows(s[k][i + 1], p, lines)
          /\ i = Len(s[k]) => Follows(t[k + 1][1], p, lines)
      BY <3>2, <3>3 DEF p
    <3>6. p.line \in 1 .. n + 1 /\ k < Len(t)
      BY <3>1, <3>5, <1>3
    <3> QED BY <3>1, <3>4, <3>5, <3>6, <1>0
  <2>2. CASE k = m + 1 /\ i \in 1 .. Len(buffer)
    <3> DEFINE p == buffer[i]
    <3>1. k \in 1 .. m + 1 /\ s[k] = buffer /\ t[k] = grown /\ s[k][i] = p /\ t[k][i] = p
      BY <2>2, <1>0, <1>2, <1>3
    <3> HIDE DEF p
    <3>2. /\ p.line \in 1 .. n
          /\ p.from <= p.to /\ p.to <= lines[p.line].length
          /\ i < Len(buffer) => p.to = lines[p.line].length /\ Follows(s[k][i + 1], p, lines)
          /\ i = Len(buffer) => p.line = n /\ p.to = lines[p.line].length
      <4>1. k \in 1 .. m + 1 /\ i \in 1 .. Len(s[k])
        BY <2>2, <3>1
      <4>2. LET q == s[k][i]
            IN  /\ q.line \in 1 .. n
                /\ q.from <= q.to /\ q.to <= lines[q.line].length
                /\ i < Len(s[k]) => q.to = lines[q.line].length /\ Follows(s[k][i + 1], q, lines)
                /\ i = Len(s[k]) /\ k = m + 1 => q.line = n /\ q.to = lines[q.line].length
        BY <1>4, <4>1
      <4> QED BY <2>2, <3>1, <4>2
    <3>3. i < Len(t[k]) /\ k = Len(t)
      BY <2>2, <3>1, <1>2, <1>3
    <3>4. p.to = lines[p.line].length
      BY <2>2, <3>2, <1>2
    <3>5. Follows(t[k][i + 1], p, lines)
      <4>1. CASE i < Len(buffer)
        <5>1. i + 1 \in 1 .. Len(buffer)
          BY <4>1, <2>2, <1>2
        <5>2. t[k][i + 1] = s[k][i + 1]
          BY <5>1, <3>1, <1>2
        <5> QED BY <4>1, <5>2, <3>2
      <4>2. CASE i = Len(buffer)
        <5>1. t[k][i + 1] = whole /\ p.line = n /\ p.to = lines[n].length
          BY <4>2, <3>1, <3>2, <1>2
        <5> QED BY <5>1, <1>0, <1>1 DEF Follows
      <4> QED BY <2>2, <1>2, <4>1, <4>2
    <3>6. p.line \in 1 .. n + 1
      BY <3>2
    <3> QED BY <3>1, <3>2, <3>3, <3>4, <3>5, <3>6
  <2>3. CASE k = m + 1 /\ i = Len(buffer) + 1
    <3>1. t[k][i] = whole /\ i = Len(t[k]) /\ k = Len(t)
      BY <2>3, <1>2, <1>3
    <3>2. whole.line = n + 1 /\ whole.from = 1 /\ whole.to = L /\ lines[whole.line].length = L
      BY <1>1
    <3>3. ~ (i < Len(t[k])) /\ ~ (k < Len(t)) /\ n + 1 \in 1 .. n + 1
      BY <3>1, <1>0, <1>2, <1>3, <2>3
    <3> QED BY <3>1, <3>2, <3>3, <1>0
  <2>4. k \in 1 .. m \/ (k = m + 1 /\ i \in 1 .. Len(buffer)) \/ (k = m + 1 /\ i = Len(buffer) + 1)
    <3>1. CASE k \in 1 .. m
      BY <3>1
    <3>2. CASE k = m + 1
      <4>1. i \in 1 .. Len(buffer) + 1
        BY <3>2, <1>2, <1>3
      <4> QED BY <3>2, <4>1, <1>2
    <3> QED BY <3>1, <3>2, <1>0, <1>3
  <2> QED BY <2>1, <2>2, <2>3, <2>4
<1>8. Reads(t, n + 1, lines)
  BY <1>6, <1>7 DEF Reads
<1> QED BY <1>8 DEF t, grown, whole

\* The first line, when it fits, is the first part so far.
LEMMA GrowFirst ==
    ASSUME NEW lines \in Seq(Lines), lines # <<>>
    PROVE  Reads(<< <<Piece(1, 1, lines[1].length)>> >>, 1, lines)
<1> DEFINE p == Piece(1, 1, lines[1].length)
<1>1. p.line = 1 /\ p.from = 1 /\ p.to = lines[1].length
  BY DEF Piece
<1>2. lines[1].length \in Nat \ {0}
  <2>1. lines[1] \in Lines
    OBVIOUS
  <2> QED BY <2>1 DEF Lines
<1> HIDE DEF p
<1>3. Reads(<< <<p>> >>, 1, lines)
  <2>1. Len(<< <<p>> >>) = 1 /\ << <<p>> >>[1] = <<p>> /\ Len(<<p>>) = 1 /\ <<p>>[1] = p
    OBVIOUS
  <2> QED BY <1>1, <1>2, <2>1 DEF Reads
<1> QED BY <1>3 DEF p

-----------------------------------------------------------------------------
(* The split.                                                              *)

\* Where the split stands after n lines.
Placed(state, n, lines) ==
    /\ state \in [parts : Seq(Seq(Pieces)), buffer : Seq(Pieces)]
    /\ \A k \in 1 .. Len(state.parts) : Sound(state.parts[k])
    /\ IF n = 0
       THEN state.parts = <<>> /\ state.buffer = <<>>
       ELSE Sound(state.buffer) /\ Reads(Append(state.parts, state.buffer), n, lines)

\* The next line keeps it so.
LEMMA PlaceStep ==
    ASSUME NEW lines \in Seq(Lines), NEW n \in Nat, n + 1 <= Len(lines),
           NEW state, Placed(state, n, lines)
    PROVE  Placed(PlaceLine(state, n + 1, lines[n + 1].length, MaxCaptionLength), n + 1, lines)
<1> DEFINE L == lines[n + 1].length
           whole == Piece(n + 1, 1, L)
           candidate == Append(state.buffer, whole)
           flushed == IF state.buffer = <<>> THEN <<>> ELSE <<state.buffer>>
           forced == ForcedPieces(n + 1, L, MaxCaptionLength)
           rest == Remainder(n + 1, L, MaxCaptionLength)
           singles == [k \in 1 .. Len(forced) |-> <<forced[k]>>]
           ps == state.parts \o flushed
           t == Torn(n + 1, L)
           next == PlaceLine(state, n + 1, L, MaxCaptionLength)
<1>0. L \in Nat \ {0} /\ n + 1 \in Nat \ {0} /\ n + 1 # 0
  <2>1. lines[n + 1] \in Lines
    OBVIOUS
  <2> QED BY <2>1 DEF Lines
<1>1. whole \in Pieces
  BY <1>0 DEF Piece, Pieces
<1>2. /\ state \in [parts : Seq(Seq(Pieces)), buffer : Seq(Pieces)]
      /\ state.parts \in Seq(Seq(Pieces)) /\ state.buffer \in Seq(Pieces)
  BY DEF Placed
<1>3. CASE PartLength(candidate) <= MaxCaptionLength
  <2>1. next = [state EXCEPT !.buffer = candidate]
    BY <1>3 DEF PlaceLine
  <2>3. candidate \in Seq(Pieces) /\ candidate # <<>>
    <3> HIDE DEF whole
    <3>1. candidate \in Seq(Pieces)
      BY <1>1, <1>2
    <3>2. Len(candidate) # 0
      BY <1>1, <1>2
    <3> QED BY <3>1, <3>2
  <2> HIDE DEF next, candidate, L
  <2>2. next.parts = state.parts /\ next.buffer = candidate
    BY <1>2, <2>1
  <2>4. next \in [parts : Seq(Seq(Pieces)), buffer : Seq(Pieces)]
    BY <1>2, <2>1, <2>3
  <2>5. Sound(candidate)
    BY <1>3, <2>3 DEF Sound
  <2>6. Reads(Append(state.parts, candidate), n + 1, lines)
    <3>1. CASE n = 0
      <4>1. state.parts = <<>> /\ state.buffer = <<>>
        BY <3>1 DEF Placed
      <4>2. candidate = <<whole>> /\ Append(state.parts, candidate) = <<candidate>>
        BY <4>1 DEF candidate
      <4>3. lines # <<>> /\ n + 1 = 1
        BY <3>1
      <4>4. Reads(<< <<Piece(1, 1, lines[1].length)>> >>, 1, lines)
        BY <4>3, GrowFirst
      <4> QED BY <4>2, <4>3, <4>4 DEF L
    <3>2. CASE n # 0
      <4>1. Reads(Append(state.parts, state.buffer), n, lines) /\ state.buffer # <<>>
        BY <3>2 DEF Placed, Sound
      <4>2. n \in Nat \ {0}
        BY <3>2
      <4> QED BY <1>2, <4>1, <4>2, GrowFit DEF candidate, L
    <3> QED BY <3>1, <3>2
  <2>7. Placed(next, n + 1, lines)
    BY <1>0, <2>2, <2>4, <2>5, <2>6 DEF Placed
  <2> QED BY <2>7 DEF next, L
<1>4. CASE ~ (PartLength(candidate) <= MaxCaptionLength)
  <2>1. next = [parts |-> ps \o singles, buffer |-> <<rest>>]
    BY <1>4 DEF PlaceLine
  <2> HIDE DEF next
  <2>2. next.parts = ps \o singles /\ next.buffer = <<rest>>
    BY <2>1
  <2>3. /\ ps \in Seq(Seq(Pieces))
        /\ \A k \in 1 .. Len(ps) : Sound(ps[k])
        /\ IF n = 0 THEN ps = <<>> ELSE Reads(ps, n, lines)
    <3>1. CASE n = 0
      <4>1. state.parts = <<>> /\ state.buffer = <<>>
        BY <3>1 DEF Placed
      <4>2. ps = <<>>
        BY <4>1
      <4> HIDE DEF ps
      <4> QED BY <3>1, <4>2
    <3>2. CASE n # 0
      <4>1. /\ Reads(Append(state.parts, state.buffer), n, lines)
            /\ Sound(state.buffer) /\ state.buffer # <<>>
            /\ \A k \in 1 .. Len(state.parts) : Sound(state.parts[k])
        BY <3>2 DEF Placed, Sound
      <4>2. ps = Append(state.parts, state.buffer)
        BY <1>2, <4>1
      <4> HIDE DEF ps
      <4>3. ASSUME NEW k \in 1 .. Len(ps) PROVE Sound(ps[k])
        <5>1. CASE k \in 1 .. Len(state.parts)
          <6>1. ps[k] = state.parts[k]
            BY <1>2, <4>2, <5>1
          <6> QED BY <4>1, <5>1, <6>1
        <5>2. CASE k = Len(state.parts) + 1
          <6>1. ps[k] = state.buffer
            BY <1>2, <4>2, <5>2
          <6> QED BY <4>1, <6>1
        <5>3. k \in 1 .. Len(state.parts) + 1
          BY <1>2, <4>2
        <5> QED BY <1>2, <5>1, <5>2, <5>3
      <4>4. ps \in Seq(Seq(Pieces))
        BY <1>2, <4>2
      <4>5. Reads(ps, n, lines)
        BY <4>1, <4>2
      <4> QED BY <3>2, <4>3, <4>4, <4>5
    <3> QED BY <3>1, <3>2
  <2>4. Reads(ps \o t, n + 1, lines)
    <3> HIDE DEF ps
    <3> QED BY <2>3, GrowBreak
  <2>5. /\ Len(t) \in Nat \ {0} /\ t \in Seq(Seq(Pieces))
        /\ \A k \in 1 .. Len(t) : Sound(t[k])
    <3> HIDE DEF L
    <3>1. LET u == Torn(n + 1, L)
          IN  /\ Len(u) \in Nat \ {0} /\ u \in Seq(Seq(Pieces))
              /\ u[1][1].from = 1
              /\ \A k \in 1 .. Len(u) :
                   /\ Len(u[k]) = 1 /\ Sound(u[k]) /\ u[k][1].line = n + 1
                   /\ u[k][1].from <= u[k][1].to /\ u[k][1].to <= L
                   /\ k < Len(u) => /\ u[k][1].to < L /\ L > MaxCaptionLength
                                    /\ u[k + 1][1].from = u[k][1].to + 1
                   /\ k = Len(u) => u[k][1].to = L
      BY <1>0, TornPieces, ZenonT(40)
    <3> QED BY <3>1
  <2>6. t = Append(singles, <<rest>>) /\ singles \in Seq(Seq(Pieces))
    <3> DEFINE M == MaxCaptionLength
               q == (L - 1) \div M
               P(k) == Piece(n + 1, (k - 1) * M + 1, IF k <= q THEN k * M ELSE L)
    <3>1. q \in Nat
      <4>1. M \in Nat \ {0} /\ L - 1 \in Nat
        BY <1>0, LimitAssumption
      <4> HIDE DEF M, L
      <4> QED BY <4>1
    <3>2. t = [k \in 1 .. q + 1 |-> <<P(k)>>]
      BY DEF Torn
    <3>3. forced = [k \in 1 .. q |-> Piece(n + 1, (k - 1) * M + 1, k * M)]
      BY DEF ForcedPieces
    <3>4. rest = Piece(n + 1, q * M + 1, L)
      BY DEF Remainder
    <3> DEFINE F(k) == Piece(n + 1, (k - 1) * M + 1, k * M)
    <3> HIDE DEF q, L
    <3>5. \A k \in 1 .. q : P(k) = F(k)
      BY <3>1
    <3>6. P(q + 1) = rest
      <4>1. (q + 1) - 1 = q /\ ~ (q + 1 <= q)
        BY <3>1
      <4> QED BY <3>4, <4>1
    <3> HIDE DEF P, F, forced, rest, t
    <3>7. forced = [k \in 1 .. q |-> F(k)]
      BY <3>3 DEF F
    <3>8. Len(forced) = q /\ \A k \in 1 .. q : forced[k] = P(k)
      BY <3>1, <3>5, <3>7
    <3>9. singles = [k \in 1 .. q |-> <<P(k)>>]
      BY <3>8
    <3> HIDE DEF singles
    <3> DEFINE Only(x) == <<x>>
    <3>14. singles = [k \in 1 .. q |-> Only(P(k))] /\ t = [k \in 1 .. q + 1 |-> Only(P(k))]
      BY <3>2, <3>9
    <3> DEFINE tail == Only(rest)
    <3>15. tail = Only(P(q + 1))
      BY <3>6
    <3> HIDE DEF Only, tail
    <3>10. Len(t) = q + 1 /\ \A k \in 1 .. q + 1 : t[k] = Only(P(k)) /\ Only(P(k)) \in Seq(Pieces)
      <4>1. Len(t) = q + 1 /\ \A k \in 1 .. q + 1 : t[k] = Only(P(k))
        BY <3>1, <3>14
      <4> QED BY <4>1, <2>5
    <3>11. singles \in Seq(Seq(Pieces)) /\ Len(singles) = q
      <4>1. \A k \in 1 .. q : Only(P(k)) \in Seq(Pieces)
        BY <3>1, <3>10
      <4> QED BY <3>1, <3>14, <4>1
    <3>12. tail \in Seq(Pieces)
      <4>1. q + 1 \in 1 .. q + 1
        BY <3>1
      <4> QED BY <4>1, <3>15, <3>10
    <3>13. t = Append(singles, tail)
      <4> DEFINE a == Append(singles, tail)
      <4>1. Len(a) = q + 1 /\ a \in Seq(Seq(Pieces))
        BY <3>11, <3>12
      <4>2. \A k \in 1 .. q : a[k] = Only(P(k))
        <5>1. \A k \in 1 .. q : singles[k] = Only(P(k))
          BY <3>14
        <5>2. \A k \in 1 .. Len(singles) : a[k] = singles[k]
          BY <3>11
        <5> QED BY <3>11, <5>1, <5>2
      <4>3. a[q + 1] = Only(P(q + 1))
        BY <3>15, <3>11
      <4> HIDE DEF a
      <4>4. \A k \in 1 .. q + 1 : a[k] = t[k]
        <5>1. \A k \in 1 .. q + 1 : k \in 1 .. q \/ k = q + 1
          BY <3>1
        <5> QED BY <4>2, <4>3, <5>1, <3>10
      <4>5. a = t
        BY <2>5, <3>10, <4>1, <4>4
      <4> QED BY <4>5 DEF a
    <3>16. t = Append(singles, <<rest>>)
      BY <3>13 DEF tail, Only
    <3> QED BY <3>11, <3>16 DEF t, singles, rest, forced
  <2> HIDE DEF ps, singles, rest, t
  <2>13. <<rest>> \in Seq(Pieces)
    <3> DEFINE r == <<rest>>
    <3> HIDE DEF r
    <3>1. t = Append(singles, r) /\ singles \in Seq(Seq(Pieces))
      BY <2>6 DEF r
    <3>2. t[Len(t)] = r /\ Len(t) \in 1 .. Len(t)
      BY <2>5, <3>1
    <3>3. r \in Seq(Pieces)
      BY <2>5, <3>2
    <3> QED BY <3>3 DEF r
  <2>7. ps \o t = Append(ps \o singles, <<rest>>)
    <3> DEFINE r == <<rest>>
    <3> HIDE DEF r
    <3>1. r \in Seq(Pieces) /\ t = Append(singles, r)
      BY <2>6, <2>13 DEF r
    <3>2. ps \o Append(singles, r) = Append(ps \o singles, r)
      <4>1. ps \in Seq(Seq(Pieces))
        BY <2>3
      <4> HIDE DEF ps, singles, t
      <4>2. singles \in Seq(Seq(Pieces)) /\ r \in Seq(Pieces)
        BY <2>6, <3>1
      <4> QED BY <4>1, <4>2, JoinAppend
    <3> QED BY <3>1, <3>2 DEF r
  <2>8. Sound(<<rest>>) /\ \A k \in 1 .. Len(singles) : Sound(singles[k])
    <3>1. t[Len(t)] = <<rest>> /\ Len(t) \in 1 .. Len(t)
      BY <2>5, <2>6
    <3>2. \A k \in 1 .. Len(singles) : k \in 1 .. Len(t) /\ t[k] = singles[k]
      BY <2>6
    <3> QED BY <2>5, <3>1, <3>2
  <2>9. <<rest>> \in Seq(Pieces)
    BY <2>8 DEF Sound
  <2>10. \A k \in 1 .. Len(ps \o singles) : Sound((ps \o singles)[k])
    <3> SUFFICES ASSUME NEW k \in 1 .. Len(ps \o singles) PROVE Sound((ps \o singles)[k])
      OBVIOUS
    <3>1. CASE k <= Len(ps)
      <4>1. (ps \o singles)[k] = ps[k] /\ k \in 1 .. Len(ps)
        BY <2>3, <2>6, <3>1
      <4> QED BY <2>3, <4>1
    <3>2. CASE k > Len(ps)
      <4>1. (ps \o singles)[k] = singles[k - Len(ps)] /\ k - Len(ps) \in 1 .. Len(singles)
        BY <2>3, <2>6, <3>2, SMTT(30)
      <4> QED BY <2>8, <4>1
    <3> QED BY <2>3, <3>1, <3>2
  <2>11. next \in [parts : Seq(Seq(Pieces)), buffer : Seq(Pieces)]
    BY <2>1, <2>3, <2>6, <2>9
  <2>12. Placed(next, n + 1, lines)
    BY <1>0, <2>2, <2>4, <2>7, <2>8, <2>10, <2>11 DEF Placed
  <2> QED BY <2>12 DEF next
<1> QED BY <1>3, <1>4

\* f holds the states of the split after each of the first n lines.
Splits(f, lines, n) ==
    f = [i \in 0 .. n |-> IF i = 0 THEN [parts |-> <<>>, buffer |-> <<>>]
                          ELSE PlaceLine(f[i - 1], i, lines[i].length, MaxCaptionLength)]

\* There are such states.
LEMMA SplitsExist ==
    ASSUME NEW lines PROVE \A n \in Nat : \E f : Splits(f, lines, n)
<1> DEFINE S == {n \in Nat : \E f : Splits(f, lines, n)}
           start == [parts |-> <<>>, buffer |-> <<>>]
           next(state, i) == PlaceLine(state, i, lines[i].length, MaxCaptionLength)
<1>1. 0 \in S
  <2>1. Splits([k \in 0 .. 0 |-> start], lines, 0)
    BY DEF Splits
  <2> QED BY <2>1
<1>2. ASSUME NEW n \in Nat, n \in S PROVE n + 1 \in S
  <2>1. PICK f : Splits(f, lines, n)
    BY <1>2
  <2> DEFINE g == [k \in 0 .. n + 1 |-> IF k = n + 1 THEN next(f[n], n + 1) ELSE f[k]]
  <2>2. Splits(g, lines, n + 1)
    <3>0. f = [i \in 0 .. n |-> IF i = 0 THEN start ELSE next(f[i - 1], i)]
      BY <2>1 DEF Splits
    <3> HIDE DEF start, next
    <3>1. ASSUME NEW k \in 0 .. n + 1
          PROVE  g[k] = IF k = 0 THEN start ELSE next(g[k - 1], k)
      <4>1. CASE k = n + 1
        <5>1. g[k] = next(f[n], n + 1) /\ k - 1 = n /\ k - 1 \in 0 .. n + 1 /\ k - 1 # n + 1
          BY <4>1
        <5> QED BY <4>1, <5>1
      <4>2. CASE k \in 1 .. n
        <5>1. f[k] = next(f[k - 1], k)
          BY <3>0, <4>2
        <5>2. g[k] = f[k] /\ g[k - 1] = f[k - 1]
          BY <4>2
        <5> QED BY <4>2, <5>1, <5>2
      <4>3. CASE k = 0
        <5>1. f[k] = start
          BY <3>0, <4>3
        <5> QED BY <4>3, <5>1
      <4> QED BY <4>1, <4>2, <4>3
    <3> HIDE DEF g
    <3>2. g = [k \in 0 .. n + 1 |-> g[k]]
      BY DEF g
    <3>3. g = [k \in 0 .. n + 1 |-> IF k = 0 THEN start ELSE next(g[k - 1], k)]
      BY <3>1, <3>2
    <3> QED BY <3>3 DEF Splits, start, next
  <2> QED BY <2>2
<1> HIDE DEF S
<1>3. \A n \in Nat : n \in S
  BY <1>1, <1>2, Induction
<1> QED BY <1>3 DEF S

\* Whatever the lengths of its lines, a caption is split into parts that obey the limit and
\* hold every line once, in order and without a gap; only a line longer than a part is torn
\* (split_caption in delivery/formatting.py).
THEOREM SplitReads ==
    ASSUME NEW lines \in Seq(Lines), lines # <<>>
    PROVE  LET parts == SplitCaption(lines, MaxCaptionLength)
           IN  /\ Reads(parts, Len(lines), lines)
               /\ \A k \in 1 .. Len(parts) : Sound(parts[k])
<1> DEFINE f == CHOOSE g : Splits(g, lines, Len(lines))
           final == f[Len(lines)]
           parts == SplitCaption(lines, MaxCaptionLength)
<1>1. Len(lines) \in Nat \ {0}
  OBVIOUS
<1>2. CASE TextLength(lines) <= MaxCaptionLength
  <2>1. parts = OnePart(lines)
    BY <1>2 DEF SplitCaption
  <2>2. /\ Reads(OnePart(lines), Len(lines), lines)
        /\ Len(OnePart(lines)) = 1 /\ Sound(OnePart(lines)[1])
    BY <1>2, OneRead DEF Sound
  <2>3. /\ Reads(parts, Len(lines), lines)
        /\ \A k \in 1 .. Len(parts) : Sound(parts[k])
    <3> HIDE DEF parts
    <3> QED BY <2>1, <2>2
  <2> QED BY <2>3
<1>3. CASE ~ (TextLength(lines) <= MaxCaptionLength)
  <2>1. Splits(f, lines, Len(lines))
    BY <1>1, SplitsExist
  <2>2. parts = final.parts \o (IF final.buffer = <<>> THEN <<>> ELSE <<final.buffer>>)
    BY <1>3 DEF SplitCaption, Splits
  <2> HIDE DEF f, parts
  <2> DEFINE S == {n \in Nat : n <= Len(lines) => Placed(f[n], n, lines)}
             next(state, i) == PlaceLine(state, i, lines[i].length, MaxCaptionLength)
             start == [parts |-> <<>>, buffer |-> <<>>]
  <2>3. f = [i \in 0 .. Len(lines) |-> IF i = 0 THEN start ELSE next(f[i - 1], i)]
    BY <2>1 DEF Splits
  <2>4. \A n \in Nat : n \in S
    <3>1. 0 \in S
      <4>1. f[0] = start
        BY <1>1, <2>3
      <4>2. Placed(start, 0, lines)
        BY DEF Placed
      <4> QED BY <4>1, <4>2
    <3>2. ASSUME NEW n \in Nat, n \in S PROVE n + 1 \in S
      <4> SUFFICES ASSUME n + 1 <= Len(lines) PROVE Placed(f[n + 1], n + 1, lines)
        OBVIOUS
      <4>1. n + 1 \in 0 .. Len(lines) /\ n + 1 # 0 /\ (n + 1) - 1 = n /\ n <= Len(lines)
        BY <1>1
      <4>2. Placed(f[n], n, lines)
        BY <3>2, <4>1
      <4> HIDE DEF next
      <4>3. f[n + 1] = next(f[n], n + 1)
        BY <2>3, <4>1
      <4>4. Placed(next(f[n], n + 1), n + 1, lines)
        BY <4>2, PlaceStep DEF next
      <4> QED BY <4>3, <4>4
    <3> HIDE DEF S
    <3> QED BY <3>1, <3>2, Induction
  <2>5. Placed(final, Len(lines), lines) /\ Len(lines) # 0
    BY <1>1, <2>4
  <2> HIDE DEF final
  <2>6. /\ final.parts \in Seq(Seq(Pieces)) /\ final.buffer \in Seq(Pieces)
        /\ final.buffer # <<>> /\ Sound(final.buffer)
        /\ \A k \in 1 .. Len(final.parts) : Sound(final.parts[k])
        /\ Reads(Append(final.parts, final.buffer), Len(lines), lines)
    BY <2>5 DEF Placed, Sound
  <2>7. parts = Append(final.parts, final.buffer)
    BY <2>2, <2>6
  <2>8. ASSUME NEW k \in 1 .. Len(parts) PROVE Sound(parts[k])
    <3>1. k \in 1 .. Len(final.parts) + 1
      BY <2>6, <2>7
    <3>2. CASE k \in 1 .. Len(final.parts)
      <4>1. parts[k] = final.parts[k]
        BY <2>6, <2>7, <3>2
      <4> QED BY <2>6, <3>2, <4>1
    <3>3. CASE k = Len(final.parts) + 1
      <4>1. parts[k] = final.buffer
        BY <2>6, <2>7, <3>3
      <4> QED BY <2>6, <4>1
    <3> QED BY <2>6, <3>1, <3>2, <3>3
  <2>9. Reads(parts, Len(lines), lines)
    BY <2>6, <2>7
  <2> QED BY <2>8, <2>9 DEF parts
<1> QED BY <1>2, <1>3

-----------------------------------------------------------------------------
(* What the bridge may hold.                                               *)

\* A projection of a BUY signal, shown as a configuration says.
Projected(outcome, show) ==
    \E f \in Frames, d \in Destinations, w \in Drawings :
        IsBuy(f) /\ outcome = Outcome(f, d, w, show)

\* The bridge holds the payload of the call in progress, a projection of this process.
BoundInv ==
    IF call = None
    THEN bound = None
    ELSE bound = PayloadOf(call.outcome) /\ Projected(call.outcome, setup.show)

-----------------------------------------------------------------------------
(* The quantities of a driver.                                             *)

\* The budgets, the bucket and the durations are natural numbers.
LEMMA Quantities ==
    /\ MaxAttempts \in Nat \ {0} /\ RetryMaxAttempts \in Nat \ {0}
    /\ Capacity \in Nat \ {0} /\ Unit \in Nat \ {0} /\ Rate \in Nat \ {0}
    /\ Backoff \in Nat /\ Durations \subseteq Nat /\ Pauses \subseteq Nat
BY DeliveryAssumption

-----------------------------------------------------------------------------
(* The bucket.                                                             *)

\* The token that was taken and not yet spent on a request.
Held == IF call # None /\ call.step \in {"backoff", "request"} THEN Unit ELSE 0

\* Since a request the bucket was looked at, and what was spent since is covered by a full
\* bucket and its refill; or it was not looked at, and nothing was spent.
BucketInv ==
    \A i \in 1 .. Len(requests) :
        /\ requests[i].at <= clock
        /\ IF requests[i].at <= last
           THEN (Len(requests) - i) * Unit + Held + tokens
                    <= Capacity * Unit + (last - requests[i].at) * Rate
           ELSE i = Len(requests) /\ Held = 0

-----------------------------------------------------------------------------
(* Receipts.                                                               *)

\* The checks before any network call pass.
Sendable(outcome) ==
    /\ ~ setup.dryRun /\ setup.telegram
    /\ outcome.destination \in Resolvable
    /\ ~ (TextLength(outcome.rendered.lines) > MaxMessageChars)

\* An answer after which the text may be sent again.
MayRepeat(answer) == ~ Accepts(answer) /\ answer.kind \notin {"timeout", "broken"}

AllMayRepeat(asked) == \A k \in 1 .. Len(asked) : MayRepeat(asked[k])

Quiet == {"attempt", "acquire", "backoff", "request"}

\* What the answers of a call say when its text is settled.
SettledAs(state, asked) ==
    /\ asked # <<>>
    /\ CASE state = "DELIVERED" -> Confirms(asked[Len(asked)])
         [] state = "SENT" -> Accepts(asked[Len(asked)]) /\ ~ Confirms(asked[Len(asked)])
         [] state = "UNKNOWN" -> asked[Len(asked)] = Timeout
         [] state = "FAILED" -> AllMayRepeat(asked)
         [] OTHER -> FALSE

AskedInv ==
    call # None =>
        /\ call.step # "attempt" \/ call.asked # <<>> => Sendable(call.outcome)
        /\ call.step \in Quiet => AllMayRepeat(call.asked)
        /\ call.step = "answered" => SettledAs(call.state, call.asked)
        /\ call.step = "chart" => SettledAs("DELIVERED", call.asked)

\* What the registry knows was reported by an earlier call.
Reported(id, n) ==
    \E j \in 1 .. n : results[j].id = id /\ results[j].state \in {"DELIVERED", "SENT"}

RegistryInv == \A id \in registry : Reported(id, Len(results))

-----------------------------------------------------------------------------
(* Requests.                                                               *)

Now == Len(results) + 1

\* A request belongs to a call that ended or to the one in progress, in the order of the calls.
OwnerInv ==
    \A i \in 1 .. Len(requests) :
        /\ requests[i].call \in 1 .. Now
        /\ \A j \in i .. Len(requests) : requests[i].call <= requests[j].call
        /\ requests[i].call = Now => call # None /\ requests[i].id = call.outcome.id

\* While a call may still send its text, none of its texts was settled.
MaySendAgain ==
    call # None /\ (call.step \in Quiet \/ (call.step = "answered" /\ call.state = "FAILED"))

QuietInv ==
    MaySendAgain =>
        \A i \in 1 .. Len(requests) :
            requests[i].call = Now /\ requests[i].kind = "text" => MayRepeat(requests[i].answer)

\* Where the knowledge is that a text was accepted.
TakenInv ==
    setup.deduplicate =>
        /\ call # None => call.outcome.id \notin registry
        /\ \A i \in 1 .. Len(requests) :
              requests[i].kind = "text" /\ Accepts(requests[i].answer) =>
                 IF requests[i].call = Now
                 THEN \/ call.step = "answered" /\ call.state \in {"DELIVERED", "SENT"}
                      \/ call.step \in {"chart", "raised"}
                 ELSE \/ results[requests[i].call].state = "raised"
                      \/ requests[i].id \in registry

IInv ==
    /\ TypeOK /\ BoundInv
    /\ BucketInv /\ RequestRateIsBounded
    /\ AskedInv /\ RegistryInv /\ ReceiptTellsTheTruth
    /\ OwnerInv /\ QuietInv /\ TakenInv /\ SettledOnce

-----------------------------------------------------------------------------
(* The pieces of an action.                                                *)

\* A call that ends is reported and leaves nothing behind.
CallEnds(state, category) ==
    /\ registry' = Registered(state)
    /\ results' = Append(results, Ended(state, category, TRUE))
    /\ call' = None /\ bound' = None

\* A call that failed starts its next attempt.
CallRetries ==
    /\ call.attempt < MaxAttempts
    /\ call' = [call EXCEPT !.step = "attempt", !.attempt = @ + 1]
    /\ UNCHANGED <<registry, results, bound>>

\* A receipt either ends the call or, after a failure, starts the next attempt.
LEMMA ConcludeSplits ==
    ASSUME NEW state, NEW category, Conclude(state, category)
    PROVE  CallEnds(state, category) \/ (state = "FAILED" /\ CallRetries)
BY DEF Conclude, Finish, CallEnds, CallRetries, Retries, Registered

\* An exception ends the call and registers nothing.
LEMMA RaiseEnds ==
    ASSUME Raise PROVE CallEnds("raised", "none")
BY DEF Raise, CallEnds, Registered

\* What a projection says of its message.
LEMMA ProjectionType ==
    ASSUME NEW o \in Projections
    PROVE  /\ o.id \in Ids /\ o.destination \in Destinations
           /\ o.id = DeliveryId(o.rendered.message, o.destination)
           /\ o.rendered.signal = o.signal /\ o.context = o.signal
           /\ o.rendered.message = o.message /\ o.state = "NOT_ATTEMPTED" /\ o.attempt = 1
<1>1. PICK f \in Frames, d \in Destinations, w \in Drawings, s \in Setups :
          o = Outcome(f, d, w, s.show)
  BY DEF Projections
<1> DEFINE chart == AttachChart(FromSignal(f), w)
           rendered == Assemble(FromSignal(f), chart, s.show)
<1>2. /\ rendered.signal = FromSignal(f).signal
      /\ rendered.message = MessageId(FromSignal(f).signal)
  BY DEF Assemble
<1>3. FromSignal(f).signal = f.signal
  BY DEF FromSignal
<1> HIDE DEF rendered, chart
<1>4. o = [signal |-> FromSignal(f).signal, message |-> rendered.message,
           id |-> DeliveryId(rendered.message, d), destination |-> d,
           rendered |-> rendered, context |-> FromSignal(f).signal,
           state |-> "NOT_ATTEMPTED", category |-> "config", attempt |-> 1]
  BY <1>1 DEF Outcome, rendered, chart
<1> QED BY <1>2, <1>3, <1>4 DEF Ids

\* The payload of a projection is that of its attempts, so the bridge accepts it.
LEMMA BridgeForwards ==
    ASSUME NEW o \in Projections, NEW n
    PROVE  BridgeAccepts(PayloadOf(o), Attempt(o, n))
BY ProjectionType, NoneAssumption DEF BridgeAccepts, PayloadOf, Attempt

-----------------------------------------------------------------------------
(* Types.                                                                  *)

\* The fields of the call in progress.
LEMMA CallType ==
    ASSUME TypeOK, call # None
    PROVE  /\ call \in Calls /\ call.outcome \in Projections
           /\ call.attempt \in 1 .. MaxAttempts /\ call.try \in 0 .. RetryMaxAttempts
           /\ call.state \in States /\ call.category \in Categories
           /\ call.asked \in Seq(Answers)
           /\ call.outcome.id \in Ids /\ call.outcome.destination \in Destinations
BY ProjectionType DEF TypeOK, Calls

\* Counting an outcome keeps the counters.
LEMMA TallyType ==
    ASSUME TypeOK, NEW d \in Destinations, NEW state \in States
    PROVE  [counters EXCEPT ![d] = Tally(@, state)] \in [Destinations -> [States -> Nat]]
<1>1. counters[d] \in [States -> Nat]
  BY DEF TypeOK
<1>2. Tally(counters[d], state) \in [States -> Nat]
  BY <1>1 DEF Tally
<1> QED BY <1>2 DEF TypeOK

\* What the history keeps of a call is well typed.
LEMMA EndedType ==
    ASSUME TypeOK, call # None, NEW state \in States \union {"raised"},
           NEW category \in Categories
    PROVE  /\ Ended(state, category, TRUE) \in Results
           /\ Append(results, Ended(state, category, TRUE)) \in Seq(Results)
<1>1. Ended(state, category, TRUE) \in Results
  BY CallType DEF Ended, Results
<1>2. results \in Seq(Results)
  BY DEF TypeOK
<1>3. \A r \in Results : Append(results, r) \in Seq(Results)
  BY <1>2
<1> QED BY <1>1, <1>3

\* The next attempt is made with the same message.
LEMMA RetriesType ==
    ASSUME TypeOK, call # None, CallRetries
    PROVE  /\ call' \in Calls /\ call'.outcome = call.outcome /\ call'.asked = call.asked
           /\ call'.step = "attempt"
<1>0. MaxAttempts \in Nat /\ call.attempt \in 1 .. MaxAttempts /\ call.attempt < MaxAttempts
  BY CallType, Quantities DEF CallRetries
<1>1. call.attempt + 1 \in 1 .. MaxAttempts
  BY <1>0
<1>2. call \in Calls /\ call' = [call EXCEPT !.step = "attempt", !.attempt = @ + 1]
  BY CallType DEF CallRetries
<1> QED BY <1>1, <1>2 DEF Calls

\* The end of an attempt keeps the types of what it touches.
LEMMA ConcludeType ==
    ASSUME TypeOK, call # None, NEW state \in States, NEW category \in Categories,
           Conclude(state, category)
    PROVE  /\ registry' \subseteq Ids /\ counters' \in [Destinations -> [States -> Nat]]
           /\ call' \in Calls \union {None} /\ results' \in Seq(Results)
<1>1. registry' \subseteq Ids
  BY CallType DEF Conclude, Registered, TypeOK
<1>2. CASE Retries(state)
  <2>1. call.attempt + 1 \in 1 .. MaxAttempts
    BY <1>2, CallType, Quantities DEF Retries
  <2>2. call' = [call EXCEPT !.step = "attempt", !.attempt = @ + 1]
        /\ UNCHANGED <<counters, results>>
    BY <1>2 DEF Conclude
  <2> QED BY <1>1, <2>1, <2>2, CallType DEF Calls, TypeOK
<1>3. CASE ~ Retries(state)
  <2>1. Finish(state, category)
    BY <1>3 DEF Conclude
  <2>2. counters' = [counters EXCEPT ![call.outcome.destination] = Tally(@, state)]
        /\ results' = Append(results, Ended(state, category, TRUE)) /\ call' = None
    BY <2>1 DEF Finish
  <2> QED BY <1>1, <2>2, CallType, TallyType, EndedType
<1> QED BY <1>2, <1>3

\* So does an exception.
LEMMA RaiseType ==
    ASSUME TypeOK, call # None, Raise
    PROVE  /\ registry' \subseteq Ids /\ counters' \in [Destinations -> [States -> Nat]]
           /\ call' \in Calls \union {None} /\ results' \in Seq(Results)
BY EndedType DEF Raise, TypeOK, Categories

\* A look at the bucket keeps its level within the capacity.
LEMMA AcquireType ==
    ASSUME TypeOK, NEW taken \in BOOLEAN, TryAcquire(taken)
    PROVE  /\ tokens' \in 0 .. Capacity * Unit /\ last' = clock
           /\ Refilled \in 0 .. Capacity * Unit
           /\ tokens' + (IF taken THEN Unit ELSE 0) = Refilled
<1> DEFINE full == Capacity * Unit
           gain == (clock - last) * Rate
<1>1. full \in Nat /\ Unit \in Nat /\ Rate \in Nat
  BY Quantities
<1>2. clock - last \in Nat
  BY DEF TypeOK
<1>3. gain \in Nat
  BY <1>1, <1>2
<1>4. tokens \in Nat
  BY <1>1 DEF TypeOK
<1>5. Refilled = IF full <= tokens + gain THEN full ELSE tokens + gain
  BY DEF Refilled, Least
<1> HIDE DEF full, gain
<1>6. Refilled \in 0 .. full
  BY <1>1, <1>3, <1>4, <1>5
<1>7. last' = clock /\ tokens' = (IF HasToken THEN Refilled - Unit ELSE Refilled)
      /\ (taken <=> HasToken)
  BY DEF TryAcquire
<1>8. HasToken <=> Refilled >= Unit
  BY DEF HasToken
<1> QED BY <1>1, <1>6, <1>7, <1>8 DEF full

\* A driver starts with a full bucket, nothing registered and nothing counted.
LEMMA InitType == Init => TypeOK
<1> SUFFICES ASSUME Init PROVE TypeOK
  OBVIOUS
<1>1. Capacity * Unit \in Nat
  BY Quantities
<1>2. [d \in Destinations |-> Zero] \in [Destinations -> [States -> Nat]]
  BY DEF Zero
<1>3. requests \in Seq(Requests) /\ results \in Seq(Results)
  BY DEF Init
<1> QED BY <1>1, <1>2, <1>3 DEF Init, TypeOK

\* deliver_outcome and deliver_message: the call of a projection, or its result at once.
LEMMA BeginType ==
    ASSUME TypeOK, NEW f \in Frames, NEW d \in Destinations, NEW w \in Drawings, Begin(f, d, w)
    PROVE  TypeOK'
<1> DEFINE outcome == Outcome(f, d, w, setup.show)
<1>0. outcome \in Projections
  BY DEF Begin, Projections, TypeOK
<1> HIDE DEF outcome
<1>1. UNCHANGED <<setup, clock, tokens, last, registry, chartFailure, requests>>
  BY DEF Begin, bucket
<1>2. ASSUME NEW state \in States, NEW category \in Categories,
             counters' = [counters EXCEPT ![d] = Tally(@, state)],
             results' = Append(results, [id |-> outcome.id, state |-> state,
                            category |-> category, attempt |-> 1, payload |-> FALSE,
                            asked |-> <<>>]),
             UNCHANGED call
      PROVE  TypeOK'
  <2>1. counters' \in [Destinations -> [States -> Nat]]
    BY <1>2, TallyType
  <2>2. [id |-> outcome.id, state |-> state, category |-> category, attempt |-> 1,
         payload |-> FALSE, asked |-> <<>>] \in Results
    BY <1>0, <1>2, ProjectionType, Quantities DEF Results
  <2>3. results' \in Seq(Results)
    <3>1. results \in Seq(Results)
      BY DEF TypeOK
    <3> QED BY <1>2, <2>2, <3>1
  <2> QED BY <1>1, <1>2, <2>1, <2>3 DEF TypeOK
<1>3. CASE ~ setup.enabled
  BY <1>2, <1>3 DEF Begin, outcome, States, Categories
<1>4. CASE setup.enabled /\ setup.deduplicate /\ outcome.id \in registry
  BY <1>2, <1>4 DEF Begin, outcome, States, Categories
<1>5. CASE setup.enabled /\ ~ (setup.deduplicate /\ outcome.id \in registry)
  <2>1. /\ call' = [step |-> "attempt", outcome |-> outcome, attempt |-> 1, try |-> 0,
                    state |-> "FAILED", category |-> "none", asked |-> <<>>]
        /\ UNCHANGED <<counters, results>>
    BY <1>5 DEF Begin, outcome
  <2>2. call' \in Calls
    BY <2>1, <1>0, Quantities DEF Calls, States, Categories
  <2> QED BY <1>1, <2>1, <2>2 DEF TypeOK
<1> QED BY <1>3, <1>4, <1>5

\* deliver_payload: the checks before any request.
LEMMA PreFlightType == TypeOK /\ PreFlight => TypeOK'
<1> SUFFICES ASSUME TypeOK, PreFlight PROVE TypeOK'
  OBVIOUS
<1>1. UNCHANGED <<setup, clock, tokens, last, chartFailure, requests>> /\ call # None
  BY DEF PreFlight, bucket
<1>2. \/ Raise \/ Conclude("DELIVERED", "none") \/ Conclude("NOT_ATTEMPTED", "config")
      \/ /\ call' = [call EXCEPT !.step = "acquire", !.try = 1]
         /\ UNCHANGED <<bound, registry, counters, results>>
  BY DEF PreFlight
<1>3. registry' \subseteq Ids /\ counters' \in [Destinations -> [States -> Nat]]
      /\ call' \in Calls \union {None} /\ results' \in Seq(Results)
  <2>1. CASE Raise
    BY <1>1, <2>1, RaiseType
  <2>2. CASE Conclude("DELIVERED", "none")
    BY <1>1, <2>2, ConcludeType DEF States, Categories
  <2>3. CASE Conclude("NOT_ATTEMPTED", "config")
    BY <1>1, <2>3, ConcludeType DEF States, Categories
  <2>4. CASE call' = [call EXCEPT !.step = "acquire", !.try = 1]
             /\ UNCHANGED <<bound, registry, counters, results>>
    <3>1. call' \in Calls
      <4>1. call \in Calls /\ 1 \in 0 .. RetryMaxAttempts
        BY <1>1, CallType, Quantities
      <4> QED BY <2>4, <4>1 DEF Calls
    <3> QED BY <2>4, <3>1 DEF TypeOK
  <2> QED BY <1>2, <2>1, <2>2, <2>3, <2>4
<1> QED BY <1>1, <1>3 DEF TypeOK

\* _send_text looks at the bucket before each request.
LEMMA AcquireStepType == TypeOK /\ Acquire => TypeOK'
<1> SUFFICES ASSUME TypeOK, Acquire PROVE TypeOK'
  OBVIOUS
<1>1. UNCHANGED <<setup, clock, chartFailure, requests>> /\ call # None
  BY DEF Acquire
<1>2. PICK taken \in BOOLEAN :
         /\ TryAcquire(taken)
         /\ IF taken
            THEN /\ call' = [call EXCEPT !.step = IF call.try > 1 THEN "backoff" ELSE "request"]
                 /\ UNCHANGED <<bound, registry, counters, results>>
            ELSE Conclude("FAILED", "rate_limit")
  BY DEF Acquire
<1>3. tokens' \in 0 .. Capacity * Unit /\ last' = clock
  BY <1>2, AcquireType
<1>4. registry' \subseteq Ids /\ counters' \in [Destinations -> [States -> Nat]]
      /\ call' \in Calls \union {None} /\ results' \in Seq(Results)
  <2>1. CASE taken
    <3>1. call' \in Calls
      BY <1>1, <1>2, <2>1, CallType DEF Calls
    <3> QED BY <1>2, <2>1, <3>1 DEF TypeOK
  <2>2. CASE ~ taken
    BY <1>1, <1>2, <2>2, ConcludeType DEF States, Categories
  <2> QED BY <2>1, <2>2
<1> QED BY <1>1, <1>3, <1>4 DEF TypeOK

\* _send_text sleeps between two looks.
LEMMA SleepType == TypeOK /\ Sleep => TypeOK'
<1> SUFFICES ASSUME TypeOK, Sleep PROVE TypeOK'
  OBVIOUS
<1>1. call' \in Calls
  BY CallType DEF Sleep, Calls
<1>2. clock' \in Nat /\ last \in 0 .. clock'
  BY Quantities DEF Sleep, TypeOK
<1> QED BY <1>1, <1>2 DEF Sleep, bucket, TypeOK

\* What is made of an answer is a state of a receipt, a refusal that may pass, or an exception.
LEMMA MeaningType ==
    ASSUME NEW answer \in Answers
    PROVE  /\ Meaning(answer) \in {"raised", "busy", "UNKNOWN", "DELIVERED", "SENT", "FAILED"}
           /\ CategoryOf(answer) \in Categories
BY DEF Meaning, CategoryOf, Categorize, Categories

\* A request carries the id of the call in progress.
LEMMA RequestType ==
    ASSUME TypeOK, BoundInv, call # None, NEW kind \in {"text", "chart"}, NEW answer \in Answers
    PROVE  /\ Request(kind, answer) \in Requests
           /\ Append(requests, Request(kind, answer)) \in Seq(Requests)
           /\ Request(kind, answer).id = call.outcome.id
<1>1. bound.id = call.outcome.id /\ call.outcome.id \in Ids
  BY CallType DEF BoundInv, PayloadOf
<1>2. clock \in Nat /\ Len(results) + 1 \in Nat /\ requests \in Seq(Requests)
  BY DEF TypeOK
<1>3. Request(kind, answer) \in Requests /\ Request(kind, answer).id = call.outcome.id
  BY <1>1, <1>2 DEF Request, Requests
<1>4. \A r \in Requests : Append(requests, r) \in Seq(Requests)
  BY <1>2
<1> QED BY <1>3, <1>4

\* What becomes of the call when its text was answered.
AnsweredCall(answer) ==
    LET next == [call EXCEPT !.asked = Append(@, answer), !.category = CategoryOf(answer)]
    IN  \/ /\ Meaning(answer) = "raised"
           /\ call' = [next EXCEPT !.step = "raised"]
        \/ /\ Meaning(answer) = "busy" /\ call.try < RetryMaxAttempts
           /\ call' = [next EXCEPT !.step = "acquire", !.try = @ + 1]
        \/ /\ Meaning(answer) = "busy"
           /\ call' = [next EXCEPT !.step = "answered", !.state = "FAILED"]
        \/ /\ Meaning(answer) \in {"UNKNOWN", "DELIVERED", "SENT", "FAILED"}
           /\ call' = [next EXCEPT !.step = "answered", !.state = Meaning(answer)]

\* What _send_text does with an answer, one kind of answer at a time.
LEMMA SendTextSplits ==
    ASSUME TypeOK, NEW answer \in Answers, NEW duration, SendText(answer, duration)
    PROVE  AnsweredCall(answer)
<1> DEFINE next == [call EXCEPT !.asked = Append(@, answer), !.category = CategoryOf(answer)]
<1>1. call # None /\ call.try \in 0 .. RetryMaxAttempts /\ RetryMaxAttempts \in Nat
  BY CallType, Quantities DEF SendText
<1>2. next.try = call.try
  BY <1>1, CallType DEF Calls
<1>3. call' = CASE Meaning(answer) = "raised" -> [next EXCEPT !.step = "raised"]
                [] Meaning(answer) = "busy" /\ call.try < RetryMaxAttempts ->
                       [next EXCEPT !.step = "acquire", !.try = @ + 1]
                [] Meaning(answer) = "busy" /\ call.try = RetryMaxAttempts ->
                       [next EXCEPT !.step = "answered", !.state = "FAILED"]
                [] OTHER -> [next EXCEPT !.step = "answered", !.state = Meaning(answer)]
  BY DEF SendText
<1> HIDE DEF next
<1>4. \/ Meaning(answer) = "raised" \/ Meaning(answer) = "busy"
      \/ Meaning(answer) \in {"UNKNOWN", "DELIVERED", "SENT", "FAILED"}
  BY MeaningType
<1>5. CASE Meaning(answer) = "raised"
  <2>1. call' = [next EXCEPT !.step = "raised"]
    BY <1>3, <1>5
  <2> QED BY <2>1, <1>5 DEF AnsweredCall, next
<1>6. CASE Meaning(answer) = "busy"
  <2>1. call.try < RetryMaxAttempts \/ call.try = RetryMaxAttempts
    BY <1>1
  <2>2. CASE call.try < RetryMaxAttempts
    <3>1. call' = [next EXCEPT !.step = "acquire", !.try = @ + 1]
      BY <1>1, <1>3, <1>6, <2>2
    <3> QED BY <3>1, <1>6, <2>2 DEF AnsweredCall, next
  <2>3. CASE call.try = RetryMaxAttempts
    <3>1. call' = [next EXCEPT !.step = "answered", !.state = "FAILED"]
      BY <1>1, <1>3, <1>6, <2>3
    <3> QED BY <3>1, <1>6 DEF AnsweredCall, next
  <2> QED BY <2>1, <2>2, <2>3
<1>7. CASE Meaning(answer) \in {"UNKNOWN", "DELIVERED", "SENT", "FAILED"}
  <2>1. call' = [next EXCEPT !.step = "answered", !.state = Meaning(answer)]
    BY <1>3, <1>7
  <2> QED BY <2>1, <1>7 DEF AnsweredCall, next
<1> QED BY <1>4, <1>5, <1>6, <1>7

\* An answer keeps the message and the attempt of the call.
LEMMA AnsweredCallType ==
    ASSUME TypeOK, call # None, NEW answer \in Answers, AnsweredCall(answer)
    PROVE  /\ call' \in Calls /\ call'.outcome = call.outcome
           /\ call'.asked = Append(call.asked, answer)
<1> DEFINE next == [call EXCEPT !.asked = Append(@, answer), !.category = CategoryOf(answer)]
<1>1. call \in Calls /\ CategoryOf(answer) \in Categories /\ Append(call.asked, answer) \in Seq(Answers)
  BY CallType, MeaningType
<1>2. /\ next \in Calls /\ next.try = call.try /\ next.outcome = call.outcome
      /\ next.asked = Append(call.asked, answer)
  BY <1>1 DEF Calls
<1>3. call.try < RetryMaxAttempts => call.try + 1 \in 0 .. RetryMaxAttempts
  BY CallType, Quantities
<1>4. CASE call' = [next EXCEPT !.step = "raised"]
  <2> HIDE DEF next
  <2> QED BY <1>2, <1>4 DEF Calls
<1>5. CASE call.try < RetryMaxAttempts /\ call' = [next EXCEPT !.step = "acquire", !.try = @ + 1]
  <2> HIDE DEF next
  <2> QED BY <1>2, <1>3, <1>5 DEF Calls
<1>6. CASE \E state \in {"FAILED", "UNKNOWN", "DELIVERED", "SENT"} :
              call' = [next EXCEPT !.step = "answered", !.state = state]
  <2> HIDE DEF next
  <2> QED BY <1>2, <1>6 DEF Calls, States
<1> QED BY <1>4, <1>5, <1>6 DEF AnsweredCall

\* One text request.
LEMMA SendTextType ==
    ASSUME TypeOK, BoundInv, NEW answer \in Answers, NEW duration \in Durations,
           SendText(answer, duration)
    PROVE  TypeOK'
<1>1. call # None /\ UNCHANGED <<setup, tokens, last, registry, counters, chartFailure, results>>
  BY DEF SendText, bucket
<1>2. requests' \in Seq(Requests)
  BY <1>1, RequestType DEF SendText
<1>3. clock' \in Nat /\ last' \in 0 .. clock'
  <2>1. clock \in Nat /\ last \in 0 .. clock /\ duration \in Nat
    BY Quantities DEF TypeOK
  <2>2. clock' = clock + duration /\ last' = last
    BY <1>1 DEF SendText
  <2> QED BY <2>1, <2>2
<1>4. call' \in Calls
  BY <1>1, SendTextSplits, AnsweredCallType
<1> QED BY <1>1, <1>2, <1>3, <1>4 DEF TypeOK

\* The receipt of the text ends the attempt.
LEMMA SettleType == TypeOK /\ Settle => TypeOK'
<1> SUFFICES ASSUME TypeOK, Settle PROVE TypeOK'
  OBVIOUS
<1>1. UNCHANGED <<setup, clock, tokens, last, chartFailure, requests>> /\ call # None
  BY DEF Settle, bucket
<1>2. registry' \subseteq Ids /\ counters' \in [Destinations -> [States -> Nat]]
      /\ call' \in Calls \union {None} /\ results' \in Seq(Results)
  <2>1. CASE Conclude(call.state, call.category)
    BY <1>1, <2>1, CallType, ConcludeType
  <2>2. CASE call' = [call EXCEPT !.step = "chart"]
             /\ UNCHANGED <<bound, registry, counters, results>>
    <3>1. call' \in Calls
      BY <1>1, <2>2, CallType DEF Calls
    <3> QED BY <2>2, <3>1 DEF TypeOK
  <2> QED BY <2>1, <2>2 DEF Settle
<1> QED BY <1>1, <1>2 DEF TypeOK

\* The chart is left out.
LEMMA SkipChartType == TypeOK /\ SkipChart => TypeOK'
<1> SUFFICES ASSUME TypeOK, SkipChart PROVE TypeOK'
  OBVIOUS
<1>1. UNCHANGED <<setup, clock, requests>> /\ call # None /\ chartFailure' = "rate-limited"
  BY DEF SkipChart
<1>2. tokens' \in 0 .. Capacity * Unit /\ last' = clock
  BY AcquireType DEF SkipChart
<1>3. registry' \subseteq Ids /\ counters' \in [Destinations -> [States -> Nat]]
      /\ call' \in Calls \union {None} /\ results' \in Seq(Results)
  BY <1>1, ConcludeType DEF SkipChart, States, Categories
<1> QED BY <1>1, <1>2, <1>3 DEF TypeOK

\* One chart request, whatever its answer.
LEMMA SendChartType ==
    ASSUME TypeOK, BoundInv, NEW answer \in Answers, NEW duration \in Durations,
           SendChart(answer, duration)
    PROVE  TypeOK'
<1>1. UNCHANGED setup /\ call # None
  BY DEF SendChart
<1>2. tokens' \in 0 .. Capacity * Unit /\ last' = clock
  BY AcquireType DEF SendChart
<1>3. clock' \in Nat /\ last' \in 0 .. clock'
  <2>1. clock \in Nat /\ duration \in Nat
    BY Quantities DEF TypeOK
  <2>2. clock' = clock + duration
    BY DEF SendChart
  <2> QED BY <1>2, <2>1, <2>2
<1>4. requests' \in Seq(Requests)
  BY <1>1, RequestType DEF SendChart
<1>5. /\ registry' \subseteq Ids /\ counters' \in [Destinations -> [States -> Nat]]
      /\ call' \in Calls \union {None} /\ results' \in Seq(Results)
      /\ chartFailure' \in {None, "rate-limited", "http", "error"}
  <2>1. CASE answer.kind = "broken"
    <3>1. call' = [call EXCEPT !.step = "raised"]
          /\ UNCHANGED <<bound, registry, counters, results, chartFailure>>
      BY <2>1 DEF SendChart
    <3>2. call' \in Calls
      BY <1>1, <3>1, CallType DEF Calls
    <3> QED BY <3>1, <3>2 DEF TypeOK
  <2>2. CASE answer.kind # "broken"
    <3>1. chartFailure' = ChartOutcome(answer) /\ Conclude("DELIVERED", "none")
      BY <2>2 DEF SendChart
    <3> QED BY <1>1, <3>1, ConcludeType DEF ChartOutcome, States, Categories
  <2> QED BY <2>1, <2>2
<1> QED BY <1>1, <1>2, <1>3, <1>4, <1>5 DEF TypeOK

\* An exception ends the call.
LEMMA UnwindType == TypeOK /\ Unwind => TypeOK'
BY RaiseType DEF Unwind, bucket, TypeOK

\* Time passes.
LEMMA PassType ==
    ASSUME TypeOK, NEW pause \in Pauses, Pass(pause) PROVE TypeOK'
BY Quantities DEF Pass, bucket, TypeOK

\* Nothing changes.
LEMMA StutterType == TypeOK /\ UNCHANGED delivery => TypeOK'
BY DEF TypeOK, delivery

-----------------------------------------------------------------------------
(* The bridge.                                                             *)

\* However an attempt ends, the bridge holds the payload of the call or nothing.
LEMMA ConcludeBound ==
    ASSUME TypeOK, BoundInv, call # None, setup' = setup, NEW state, NEW category,
           Conclude(state, category)
    PROVE  BoundInv'
<1>1. CASE CallEnds(state, category)
  BY <1>1 DEF CallEnds, BoundInv
<1>2. CASE CallRetries
  <2>1. call'.outcome = call.outcome /\ call' \in Calls /\ bound' = bound
    BY <1>2, RetriesType DEF CallRetries
  <2>2. call' # None
    BY <2>1, NoneAssumption
  <2> QED BY <2>1, <2>2 DEF BoundInv
<1> QED BY <1>1, <1>2, ConcludeSplits

\* No step changes the message of a call in progress or the payload bound for it.
LEMMA BoundStep ==
    ASSUME TypeOK, TypeOK', BoundInv, [Next]_delivery
    PROVE  BoundInv'
<1>0. setup' = setup
  BY DEF Next, Begin, PreFlight, Acquire, Sleep, SendText, Settle, SkipChart, SendChart,
         Unwind, Pass, delivery
<1>1. ASSUME NEW f \in Frames, NEW d \in Destinations, NEW w \in Drawings, Begin(f, d, w)
      PROVE  BoundInv'
  <2> DEFINE outcome == Outcome(f, d, w, setup.show)
             new == [step |-> "attempt", outcome |-> outcome, attempt |-> 1, try |-> 0,
                     state |-> "FAILED", category |-> "none", asked |-> <<>>]
  <2>1. \/ UNCHANGED <<bound, call>>
        \/ bound' = PayloadOf(outcome) /\ call' = new
    BY <1>1 DEF Begin
  <2>2. new.outcome = outcome
    OBVIOUS
  <2>5. Projected(outcome, setup.show)
    BY <1>1 DEF Begin, Projected
  <2>3. outcome \in Projections
    BY <1>1 DEF Begin, Projections, TypeOK
  <2> HIDE DEF outcome
  <2>4. new # None
    <3>1. new \in Calls
      BY <2>3, Quantities DEF Calls, States, Categories
    <3> QED BY <3>1, NoneAssumption
  <2> HIDE DEF new
  <2> QED BY <1>0, <2>1, <2>2, <2>4, <2>5 DEF BoundInv
<1>2. ASSUME call # None, call'.outcome = call.outcome, bound' = bound, call' # None
      PROVE  BoundInv'
  BY <1>0, <1>2 DEF BoundInv
<1>3. ASSUME NEW c, c \in Calls PROVE c # None
  BY <1>3, NoneAssumption
<1>4. CASE PreFlight
  <2>1. call # None
    BY <1>4 DEF PreFlight
  <2>2. CASE Raise
    BY <2>2 DEF Raise, BoundInv
  <2>3. CASE Conclude("DELIVERED", "none") \/ Conclude("NOT_ATTEMPTED", "config")
    BY <1>0, <2>1, <2>3, ConcludeBound
  <2>4. CASE call' = [call EXCEPT !.step = "acquire", !.try = 1] /\ UNCHANGED bound
    <3>1. call'.outcome = call.outcome /\ call' \in Calls
      <4>1. call \in Calls /\ 1 \in 0 .. RetryMaxAttempts
        BY <2>1, CallType, Quantities
      <4> QED BY <4>1, <2>4 DEF Calls
    <3> QED BY <1>2, <1>3, <2>1, <2>4, <3>1
  <2> QED BY <1>4, <2>2, <2>3, <2>4 DEF PreFlight
<1>5. CASE Acquire
  <2>1. call # None
    BY <1>5 DEF Acquire
  <2>2. CASE Conclude("FAILED", "rate_limit")
    BY <1>0, <2>1, <2>2, ConcludeBound
  <2>3. CASE /\ call' = [call EXCEPT !.step = IF call.try > 1 THEN "backoff" ELSE "request"]
             /\ UNCHANGED bound
    <3>1. call'.outcome = call.outcome /\ call' \in Calls
      BY <2>1, <2>3, CallType DEF Calls
    <3> QED BY <1>2, <1>3, <2>1, <2>3, <3>1
  <2> QED BY <1>5, <2>2, <2>3 DEF Acquire
<1>6. CASE Sleep
  <2>1. call # None /\ call'.outcome = call.outcome /\ call' \in Calls /\ bound' = bound
    BY <1>6, CallType DEF Sleep, Calls
  <2> QED BY <1>2, <1>3, <2>1
<1>7. ASSUME NEW a \in Answers, NEW t \in Durations, SendText(a, t)
      PROVE  BoundInv'
  <2>1. call # None /\ bound' = bound
    BY <1>7 DEF SendText
  <2>2. call'.outcome = call.outcome /\ call' \in Calls
    BY <1>7, <2>1, SendTextSplits, AnsweredCallType
  <2> QED BY <1>2, <1>3, <2>1, <2>2
<1>8. CASE Settle
  <2>1. call # None
    BY <1>8 DEF Settle
  <2>2. CASE Conclude(call.state, call.category)
    BY <1>0, <2>1, <2>2, ConcludeBound
  <2>3. CASE call' = [call EXCEPT !.step = "chart"] /\ UNCHANGED bound
    <3>1. call'.outcome = call.outcome /\ call' \in Calls
      BY <2>1, <2>3, CallType DEF Calls
    <3> QED BY <1>2, <1>3, <2>1, <2>3, <3>1
  <2> QED BY <1>8, <2>2, <2>3 DEF Settle
<1>9. CASE SkipChart
  BY <1>0, <1>9, ConcludeBound DEF SkipChart
<1>10. ASSUME NEW a \in Answers, NEW t \in Durations, SendChart(a, t)
       PROVE  BoundInv'
  <2>1. call # None
    BY <1>10 DEF SendChart
  <2>2. CASE Conclude("DELIVERED", "none")
    BY <1>0, <2>1, <2>2, ConcludeBound
  <2>3. CASE call' = [call EXCEPT !.step = "raised"] /\ UNCHANGED bound
    <3>1. call'.outcome = call.outcome /\ call' \in Calls
      BY <2>1, <2>3, CallType DEF Calls
    <3> QED BY <1>2, <1>3, <2>1, <2>3, <3>1
  <2> QED BY <1>10, <2>2, <2>3 DEF SendChart
<1>11. CASE Unwind
  BY <1>11 DEF Unwind, Raise, BoundInv
<1>12. ASSUME NEW t \in Pauses, Pass(t) PROVE BoundInv'
  BY <1>0, <1>12 DEF Pass, BoundInv
<1>13. CASE UNCHANGED delivery
  BY <1>0, <1>13 DEF delivery, BoundInv
<1> QED BY <1>1, <1>4, <1>5, <1>6, <1>7, <1>8, <1>9, <1>10, <1>11, <1>12, <1>13 DEF Next

-----------------------------------------------------------------------------
(* The rate of requests.                                                   *)

\* Products are typed and distribute; the solvers do not know it unprompted.
LEMMA Products ==
    ASSUME NEW a \in Nat, NEW b \in Nat, NEW r \in Nat
    PROVE  a * r \in Nat /\ (a + b) * r = a * r + b * r
OBVIOUS

\* The quantities of the bucket are natural numbers.
LEMMA BucketType ==
    ASSUME TypeOK
    PROVE  /\ Unit \in Nat \ {0} /\ Rate \in Nat /\ Capacity * Unit \in Nat
           /\ tokens \in Nat /\ tokens <= Capacity * Unit
           /\ clock \in Nat /\ last \in Nat /\ last <= clock
           /\ Len(requests) \in Nat /\ Held \in {0, Unit}
           /\ \A i \in 1 .. Len(requests) : requests[i] \in Requests /\ requests[i].at \in Nat
<1>1. Unit \in Nat \ {0} /\ Rate \in Nat /\ Capacity * Unit \in Nat
  BY Quantities
<1>2. requests \in Seq(Requests)
  BY DEF TypeOK
<1>3. \A i \in 1 .. Len(requests) : requests[i] \in Requests
  BY <1>2
<1>4. \A i \in 1 .. Len(requests) : requests[i].at \in Nat
  BY <1>3 DEF Requests
<1> QED BY <1>1, <1>2, <1>3, <1>4 DEF TypeOK, Held

\* What was spent since a request and what is in the bucket after a look at it, together, are
\* covered by a full bucket and the refill up to now.
LEMMA LookCovers ==
    ASSUME TypeOK, BucketInv, Held = 0, NEW taken \in BOOLEAN, TryAcquire(taken),
           NEW i \in 1 .. Len(requests)
    PROVE  /\ requests[i].at <= clock
           /\ (Len(requests) - i) * Unit + (IF taken THEN Unit ELSE 0) + tokens'
                 <= Capacity * Unit + (clock - requests[i].at) * Rate
<1> DEFINE full == Capacity * Unit
           at == requests[i].at
           spent == (Len(requests) - i) * Unit
           price == IF taken THEN Unit ELSE 0
           gain == (clock - last) * Rate
           old == (last - at) * Rate
           level == Refilled
<1>1. /\ Unit \in Nat /\ Rate \in Nat /\ full \in Nat /\ tokens \in Nat /\ at \in Nat
      /\ clock \in Nat /\ last \in Nat /\ last <= clock /\ Len(requests) - i \in Nat
      /\ clock - last \in Nat
  BY BucketType
<1>2. spent \in Nat /\ gain \in Nat
  BY <1>1, Products
<1>3. /\ at <= clock
      /\ IF at <= last THEN spent + tokens <= full + old
         ELSE Len(requests) - i = 0
  BY <1>1, <1>2 DEF BucketInv
<1>4. tokens' + price = level /\ level \in 0 .. full /\ tokens' \in Nat /\ price \in Nat
  BY AcquireType, <1>1
<1>5. level <= tokens + gain
  <2>1. level = IF full <= tokens + gain THEN full ELSE tokens + gain
    BY DEF Refilled, Least
  <2> HIDE DEF level, full, gain
  <2> QED BY <2>1, <1>1, <1>2
<1>6. spent + level <= full + (clock - at) * Rate
  <2>1. CASE at <= last
    <3>1. last - at \in Nat /\ clock - at = (clock - last) + (last - at)
      <4> HIDE DEF full, at
      <4> QED BY <1>1, <2>1
    <3>2. old \in Nat /\ (clock - at) * Rate = gain + old
      <4>1. clock - last \in Nat /\ last - at \in Nat /\ Rate \in Nat
        BY <1>1, <3>1
      <4> HIDE DEF full, spent, price, level, at
      <4>2. old \in Nat /\ ((clock - last) + (last - at)) * Rate = gain + old
        BY <4>1, Products
      <4> QED BY <3>1, <4>2
    <3>3. spent + tokens <= full + old
      BY <1>3, <2>1
    <3> DEFINE later == (clock - at) * Rate
    <3> HIDE DEF full, spent, gain, old, level, at, later
    <3>4. later = gain + old
      BY <3>2 DEF later
    <3>5. spent + level <= full + later
      BY <1>1, <1>2, <1>4, <1>5, <3>2, <3>3, <3>4
    <3> QED BY <3>5 DEF later
  <2>2. CASE ~ (at <= last)
    <3>1. spent = 0
      <4>1. Len(requests) - i = 0
        BY <1>3, <2>2
      <4> QED BY <1>1, <4>1
    <3>2. clock - at \in Nat
      <4>1. at <= clock
        BY <1>3
      <4> HIDE DEF full, at
      <4> QED BY <1>1, <4>1
    <3>3. (clock - at) * Rate \in Nat
      BY <1>1, <3>2, Products
    <3> DEFINE later == (clock - at) * Rate
    <3> HIDE DEF full, spent, gain, old, level, at, later
    <3>4. spent + level <= full + later
      BY <1>1, <1>4, <3>1, <3>3 DEF later
    <3> QED BY <3>4 DEF later
  <2> QED BY <2>1, <2>2
<1>7. spent + price + tokens' = spent + level
  <2> HIDE DEF spent, price, level, full, at, gain, old
  <2>1. spent \in Nat /\ price \in Nat /\ tokens' \in Nat /\ tokens' + price = level
    BY <1>2, <1>4
  <2> QED BY <2>1
<1> HIDE DEF level
<1> QED BY <1>3, <1>6, <1>7

\* While nobody looks at the bucket and nothing is sent, time may pass.
LEMMA NoLook ==
    ASSUME TypeOK, BucketInv, RequestRateIsBounded, UNCHANGED <<tokens, last, requests>>,
           clock' \in Nat, clock <= clock', Held' = Held
    PROVE  BucketInv' /\ RequestRateIsBounded'
<1>1. RequestRateIsBounded'
  BY DEF RequestRateIsBounded
<1>2. SUFFICES ASSUME NEW i \in 1 .. Len(requests)
               PROVE  /\ requests[i].at <= clock'
                      /\ IF requests[i].at <= last
                         THEN (Len(requests) - i) * Unit + Held + tokens
                                  <= Capacity * Unit + (last - requests[i].at) * Rate
                         ELSE i = Len(requests) /\ Held = 0
  BY <1>1 DEF BucketInv
<1>3. requests[i].at \in Nat /\ clock \in Nat /\ requests[i].at <= clock
  BY BucketType DEF BucketInv
<1> QED BY <1>3 DEF BucketInv

\* A look at the bucket outside a request.
LEMMA Look ==
    ASSUME TypeOK, BucketInv, RequestRateIsBounded, Held = 0,
           NEW taken \in BOOLEAN, TryAcquire(taken), UNCHANGED <<clock, requests>>,
           Held' = IF taken THEN Unit ELSE 0
    PROVE  BucketInv' /\ RequestRateIsBounded'
<1>1. RequestRateIsBounded'
  BY DEF RequestRateIsBounded
<1>2. last' = clock
  BY DEF TryAcquire
<1>3. SUFFICES ASSUME NEW i \in 1 .. Len(requests)
               PROVE  /\ requests[i].at <= clock
                      /\ (Len(requests) - i) * Unit + Held' + tokens'
                             <= Capacity * Unit + (clock - requests[i].at) * Rate
  BY <1>1, <1>2 DEF BucketInv
<1> QED BY LookCovers

\* A request is issued with a token that covers it, whatever was issued since any earlier one.
LEMMA Spend ==
    ASSUME TypeOK, TypeOK', RequestRateIsBounded, NEW r \in Requests,
           requests' = Append(requests, r), r.at = clock, clock <= clock', Held' = 0,
           last' <= clock,
           \A i \in 1 .. Len(requests) :
               /\ requests[i].at <= last'
               /\ (Len(requests) - i) * Unit + Unit + tokens'
                      <= Capacity * Unit + (last' - requests[i].at) * Rate
    PROVE  BucketInv' /\ RequestRateIsBounded'
<1> DEFINE n == Len(requests)
<1>0. n \in Nat
  BY BucketType
<1>1. /\ Unit \in Nat /\ Rate \in Nat /\ Capacity * Unit \in Nat /\ n \in Nat
      /\ clock \in Nat
      /\ \A i \in 1 .. n : requests[i].at \in Nat
  BY BucketType
<1>2. tokens' \in Nat /\ tokens' <= Capacity * Unit /\ last' \in Nat /\ clock' \in Nat
  BY <1>1 DEF TypeOK
<1>3. /\ Len(requests') = n + 1 /\ requests'[n + 1] = r
      /\ \A i \in 1 .. n : requests'[i] = requests[i]
  BY DEF TypeOK
<1>4. ASSUME NEW i \in 1 .. n
      PROVE  /\ requests'[i].at <= last' /\ requests'[i].at <= clock'
             /\ (n + 1 - i) * Unit + tokens' <= Capacity * Unit + (last' - requests'[i].at) * Rate
  <2>1. /\ requests[i].at <= last'
        /\ (n - i) * Unit + Unit + tokens' <= Capacity * Unit + (last' - requests[i].at) * Rate
    OBVIOUS
  <2>2. (n + 1 - i) * Unit = (n - i) * Unit + Unit
    <3>1. n - i \in Nat /\ n + 1 - i = (n - i) + 1
      BY <1>0
    <3>2. ((n - i) + 1) * Unit = (n - i) * Unit + 1 * Unit
      BY <1>1, <3>1, Products
    <3> QED BY <1>1, <3>1, <3>2
  <2>3. requests'[i] = requests[i] /\ requests[i].at \in Nat
    BY <1>1, <1>3
  <2>4. requests[i].at <= clock'
    <3> DEFINE a == requests[i].at
               l == last'
               c == clock'
    <3>1. a \in Nat /\ l \in Nat /\ clock \in Nat /\ c \in Nat /\ a <= l /\ l <= clock /\ clock <= c
      BY <1>1, <1>2, <2>1, <2>3
    <3> HIDE DEF a, l, c, n
    <3>2. a <= c
      BY <3>1
    <3> QED BY <3>2 DEF a, c
  <2> QED BY <2>1, <2>2, <2>3, <2>4
<1>5. BucketInv'
  <2> SUFFICES ASSUME NEW i \in 1 .. n + 1
               PROVE  /\ requests'[i].at <= clock'
                      /\ IF requests'[i].at <= last'
                         THEN (n + 1 - i) * Unit + Held' + tokens'
                                  <= Capacity * Unit + (last' - requests'[i].at) * Rate
                         ELSE i = n + 1 /\ Held' = 0
    BY <1>3 DEF BucketInv
  <2>1. CASE i \in 1 .. n
    <3> DEFINE spent == (n + 1 - i) * Unit
               limit == Capacity * Unit + (last' - requests'[i].at) * Rate
    <3>1. spent \in Nat
      <4>1. n + 1 - i \in Nat
        BY <1>0, <2>1
      <4> QED BY <1>1, <4>1, Products
    <3>2. spent + tokens' <= limit
      BY <1>4, <2>1
    <3> HIDE DEF spent, limit
    <3>3. spent + Held' + tokens' <= limit
      BY <1>2, <3>1, <3>2
    <3> QED BY <1>4, <2>1, <3>3 DEF spent, limit
  <2>2. CASE i = n + 1
    <3>1. requests'[i].at = clock
      BY <1>3, <2>2
    <3>2. CASE clock <= last'
      <4>1. last' - requests'[i].at = 0 /\ n + 1 - i = 0
        <5>1. last' \in Nat /\ clock \in Nat /\ last' <= clock
          BY <1>1, <1>2
        <5>2. requests'[i].at = last' /\ n + 1 - i = 0
          <6> HIDE DEF n
          <6> QED BY <1>0, <2>2, <3>1, <3>2, <5>1
        <5> DEFINE p == last'
                   a == requests'[i].at
        <5>3. p \in Nat /\ a = p
          BY <5>1, <5>2
        <5> HIDE DEF p, a
        <5>4. p - a = 0
          BY <5>3
        <5> QED BY <5>2, <5>4 DEF p, a
      <4>2. (n + 1 - i) * Unit = 0 /\ (last' - requests'[i].at) * Rate = 0
        <5>1. \A u \in Nat : 0 * u = 0
          OBVIOUS
        <5> QED BY <1>1, <4>1, <5>1
      <4>3. requests'[i].at <= clock'
        BY <3>1
      <4> QED BY <1>1, <1>2, <4>2, <4>3
    <3>3. CASE ~ (clock <= last')
      BY <2>2, <3>1, <3>3
    <3> QED BY <3>2, <3>3
  <2>3. i \in 1 .. n \/ i = n + 1
    BY <1>0
  <2> QED BY <2>1, <2>2, <2>3
<1>6. RequestRateIsBounded'
  <2> SUFFICES ASSUME NEW i \in 1 .. n + 1, NEW j \in 1 .. n + 1, i < j
               PROVE  (j - i) * Unit <= Capacity * Unit
                                            + (requests'[j].at - requests'[i].at) * Rate
    BY <1>3 DEF RequestRateIsBounded
  <2>0. j \in 1 .. n \/ j = n + 1
    BY <1>0, SMTT(30)
  <2>1. CASE j \in 1 .. n
    <3>1. i \in 1 .. n
      BY <1>0, <2>1
    <3>2. requests'[i] = requests[i] /\ requests'[j] = requests[j]
      BY <1>3, <2>1, <3>1
    <3> QED BY <2>1, <3>1, <3>2 DEF RequestRateIsBounded
  <2>2. CASE j = n + 1
    <3>1. i \in 1 .. n
      BY <1>0, <2>2
    <3> DEFINE at == requests'[i].at
               spent == (n + 1 - i) * Unit
               old == (last' - at) * Rate
               new == (clock - last') * Rate
    <3>2. at \in Nat /\ last' - at \in Nat /\ clock - last' \in Nat
          /\ clock - at = (last' - at) + (clock - last')
      <4>1. at \in Nat /\ at <= last'
        BY <1>1, <1>3, <1>4, <3>1
      <4>2. last' \in Nat /\ clock \in Nat /\ last' <= clock
        BY <1>1, <1>2
      <4> HIDE DEF at
      <4> DEFINE p == last'
      <4> HIDE DEF p
      <4>3. p \in Nat /\ clock \in Nat /\ p <= clock /\ at \in Nat /\ at <= p
        BY <4>1, <4>2 DEF p
      <4>4. p - at \in Nat /\ clock - p \in Nat /\ clock - at = (p - at) + (clock - p)
        BY <4>3
      <4> QED BY <4>1, <4>4 DEF p
    <3>3. old \in Nat /\ new \in Nat /\ (clock - at) * Rate = old + new
      <4> HIDE DEF at, n
      <4>1. last' - at \in Nat /\ clock - last' \in Nat /\ Rate \in Nat
        BY <1>1, <3>2
      <4>2. old \in Nat /\ new \in Nat /\ ((last' - at) + (clock - last')) * Rate = old + new
        BY <4>1, Products
      <4> QED BY <3>2, <4>2
    <3>4. spent + tokens' <= Capacity * Unit + old
      BY <1>4, <3>1
    <3>5. spent \in Nat
      <4>1. n + 1 - i \in Nat
        BY <1>0, <3>1
      <4> QED BY <1>1, <4>1, Products
    <3>6. spent <= Capacity * Unit + (clock - at) * Rate
      <4> DEFINE full == Capacity * Unit
                 later == (clock - at) * Rate
      <4>1. full \in Nat /\ later = old + new /\ spent + tokens' <= full + old
        BY <1>1, <3>3, <3>4
      <4> HIDE DEF full, later, spent, old, new
      <4>2. spent <= full + later
        BY SMTT(30), <1>2, <3>3, <3>5, <4>1
      <4> QED BY <4>2 DEF full, later
    <3>7. requests'[j].at = clock
      BY <1>3, <2>2
    <3> QED BY <2>2, <3>6, <3>7
  <2> QED BY <2>0, <2>1, <2>2
<1> QED BY <1>5, <1>6

\* No token is held after the end of an attempt.
LEMMA ConcludeHolds ==
    ASSUME TypeOK, call # None, NEW state, NEW category, Conclude(state, category)
    PROVE  Held' = 0
<1>1. CASE CallEnds(state, category)
  BY <1>1 DEF CallEnds, Held
<1>2. CASE CallRetries
  BY <1>2, RetriesType DEF Held
<1> QED BY <1>1, <1>2, ConcludeSplits

\* A step of the call keeps what it does not name.
LEMMA StepType ==
    ASSUME TypeOK, call # None, NEW step, call' = [call EXCEPT !.step = step]
    PROVE  /\ call'.step = step /\ call'.outcome = call.outcome /\ call'.asked = call.asked
           /\ call'.state = call.state /\ call'.try = call.try
BY CallType DEF Calls

\* Every step keeps the account of the bucket, and the requests within it.
LEMMA BucketStep ==
    ASSUME TypeOK, TypeOK', BoundInv, BucketInv, RequestRateIsBounded, [Next]_delivery
    PROVE  BucketInv' /\ RequestRateIsBounded'
<1>0. clock \in Nat /\ clock' \in Nat
  BY DEF TypeOK
<1>1. ASSUME UNCHANGED <<clock, tokens, last, requests>>, Held' = Held
      PROVE  BucketInv' /\ RequestRateIsBounded'
  BY <1>0, <1>1, NoLook
<1>2. ASSUME NEW f \in Frames, NEW d \in Destinations, NEW w \in Drawings, Begin(f, d, w)
      PROVE  BucketInv' /\ RequestRateIsBounded'
  <2>1. call = None /\ UNCHANGED <<clock, tokens, last, requests>>
        /\ (call' = call \/ call'.step = "attempt")
    BY <1>2 DEF Begin, bucket
  <2> QED BY <1>1, <2>1 DEF Held
<1>3. CASE PreFlight
  <2>1. call # None /\ call.step = "attempt" /\ UNCHANGED <<clock, tokens, last, requests>>
    BY <1>3 DEF PreFlight, bucket
  <2>2. CASE Raise
    BY <1>1, <2>1, <2>2 DEF Raise, Held
  <2>3. CASE Conclude("DELIVERED", "none") \/ Conclude("NOT_ATTEMPTED", "config")
    BY <1>1, <2>1, <2>3, ConcludeHolds DEF Held
  <2>4. CASE call' = [call EXCEPT !.step = "acquire", !.try = 1]
    <3>1. call'.step = "acquire"
      BY <2>1, <2>4, CallType DEF Calls
    <3> QED BY <1>1, <2>1, <3>1 DEF Held
  <2> QED BY <1>3, <2>2, <2>3, <2>4 DEF PreFlight
<1>4. CASE Acquire
  <2>1. call # None /\ call.step = "acquire" /\ UNCHANGED <<clock, requests>>
    BY <1>4 DEF Acquire
  <2>2. PICK taken \in BOOLEAN :
            /\ TryAcquire(taken)
            /\ IF taken
               THEN call' = [call EXCEPT !.step = IF call.try > 1 THEN "backoff" ELSE "request"]
               ELSE Conclude("FAILED", "rate_limit")
    BY <1>4 DEF Acquire
  <2>3. Held = 0
    BY <2>1 DEF Held
  <2>4. Held' = IF taken THEN Unit ELSE 0
    <3>1. CASE taken
      <4>1. call'.step \in {"backoff", "request"} /\ call' # None
        BY <2>1, <2>2, <3>1, StepType, NoneAssumption, CallType DEF Calls
      <4> QED BY <3>1, <4>1 DEF Held
    <3>2. CASE ~ taken
      BY <2>1, <2>2, <3>2, ConcludeHolds
    <3> QED BY <3>1, <3>2
  <2> QED BY <2>1, <2>2, <2>3, <2>4, Look
<1>5. CASE Sleep
  <2>1. call # None /\ call.step = "backoff" /\ UNCHANGED <<tokens, last, requests>>
        /\ clock' = clock + Backoff /\ call' = [call EXCEPT !.step = "request"]
    BY <1>5 DEF Sleep, bucket
  <2>2. call'.step = "request" /\ call' # None
    BY <2>1, StepType, NoneAssumption, CallType DEF Calls
  <2>3. Held' = Held
    BY <2>1, <2>2 DEF Held
  <2>4. clock <= clock'
    BY <1>0, <2>1, Quantities
  <2> QED BY <1>0, <2>1, <2>3, <2>4, NoLook
<1>6. ASSUME NEW a \in Answers, NEW t \in Durations, SendText(a, t)
      PROVE  BucketInv' /\ RequestRateIsBounded'
  <2>1. /\ call # None /\ call.step = "request" /\ UNCHANGED <<tokens, last>>
        /\ clock' = clock + t /\ requests' = Append(requests, Request("text", a))
    BY <1>6 DEF SendText, bucket
  <2>2. Request("text", a) \in Requests /\ Request("text", a).at = clock
    BY <2>1, RequestType DEF Request
  <2>3. Held = Unit
    BY <2>1 DEF Held
  <2>4. Held' = 0
    <3>1. AnsweredCall(a)
      BY <1>6, SendTextSplits
    <3>2. CategoryOf(a) \in Categories /\ call \in Calls
      BY <2>1, CallType, MeaningType
    <3>3. call'.step \in {"raised", "acquire", "answered"}
      BY <3>1, <3>2 DEF AnsweredCall, Calls
    <3> QED BY <3>3 DEF Held
  <2>5. ASSUME NEW i \in 1 .. Len(requests)
        PROVE  /\ requests[i].at <= last'
               /\ (Len(requests) - i) * Unit + Unit + tokens'
                      <= Capacity * Unit + (last' - requests[i].at) * Rate
    BY <2>1, <2>3, BucketType DEF BucketInv
  <2>6. clock <= clock' /\ last' <= clock
    BY <1>0, <2>1, BucketType, Quantities
  <2> QED BY <2>1, <2>2, <2>4, <2>5, <2>6, Spend
<1>7. CASE Settle
  <2>1. call # None /\ call.step = "answered" /\ UNCHANGED <<clock, tokens, last, requests>>
    BY <1>7 DEF Settle, bucket
  <2>2. Held' = 0
    BY <1>7, <2>1, ConcludeHolds, StepType DEF Settle, Held
  <2> QED BY <1>1, <2>1, <2>2 DEF Held
<1>8. CASE SkipChart
  <2>1. call # None /\ call.step = "chart" /\ UNCHANGED <<clock, requests>>
        /\ TryAcquire(FALSE) /\ Conclude("DELIVERED", "none")
    BY <1>8 DEF SkipChart
  <2>2. Held = 0 /\ Held' = 0
    BY <2>1, ConcludeHolds DEF Held
  <2> QED BY <2>1, <2>2, Look
<1>9. ASSUME NEW a \in Answers, NEW t \in Durations, SendChart(a, t)
      PROVE  BucketInv' /\ RequestRateIsBounded'
  <2>1. /\ call # None /\ call.step = "chart" /\ TryAcquire(TRUE)
        /\ clock' = clock + t /\ requests' = Append(requests, Request("chart", a))
    BY <1>9 DEF SendChart
  <2>2. Request("chart", a) \in Requests /\ Request("chart", a).at = clock
    BY <2>1, RequestType DEF Request
  <2>3. Held = 0
    BY <2>1 DEF Held
  <2>4. Held' = 0
    <3>1. CASE Conclude("DELIVERED", "none")
      BY <2>1, <3>1, ConcludeHolds
    <3>2. CASE call' = [call EXCEPT !.step = "raised"]
      BY <2>1, <3>2, StepType DEF Held
    <3> QED BY <1>9, <3>1, <3>2 DEF SendChart
  <2>5. last' = clock
    BY <2>1 DEF TryAcquire
  <2>6. ASSUME NEW i \in 1 .. Len(requests)
        PROVE  /\ requests[i].at <= last'
               /\ (Len(requests) - i) * Unit + Unit + tokens'
                      <= Capacity * Unit + (last' - requests[i].at) * Rate
    BY <2>1, <2>3, <2>5, LookCovers
  <2>7. clock <= clock' /\ last' <= clock
    BY <1>0, <2>1, <2>5, Quantities
  <2> QED BY <2>1, <2>2, <2>4, <2>6, <2>7, Spend
<1>10. CASE Unwind
  <2>1. call # None /\ call.step = "raised" /\ UNCHANGED <<clock, tokens, last, requests>>
        /\ call' = None
    BY <1>10 DEF Unwind, Raise, bucket
  <2> QED BY <1>1, <2>1 DEF Held
<1>11. ASSUME NEW t \in Pauses, Pass(t) PROVE BucketInv' /\ RequestRateIsBounded'
  <2>1. call = None /\ call' = call /\ UNCHANGED <<tokens, last, requests>> /\ clock' = clock + t
    BY <1>11 DEF Pass, bucket
  <2>2. clock <= clock' /\ Held' = Held
    BY <1>0, <2>1, Quantities DEF Held
  <2> QED BY <1>0, <2>1, <2>2, NoLook
<1>12. CASE UNCHANGED delivery
  BY <1>1, <1>12 DEF delivery, Held
<1> QED BY <1>2, <1>3, <1>4, <1>5, <1>6, <1>7, <1>8, <1>9, <1>10, <1>11, <1>12 DEF Next

-----------------------------------------------------------------------------
(* Receipts.                                                               *)

\* What a receipt must be able to say for itself, when known says whether an earlier call
\* reported the same delivery.
TruthOf(state, asked, known) ==
    LET final == asked[Len(asked)]
    IN  CASE state = "DELIVERED" -> setup.dryRun \/ (asked # <<>> /\ Confirms(final))
          [] state = "SENT" -> asked # <<>> /\ Accepts(final) /\ ~ Confirms(final)
          [] state = "UNKNOWN" -> asked # <<>> /\ final = Timeout
          [] state = "FAILED" -> \A i \in 1 .. Len(asked) :
                                     ~ Accepts(asked[i]) /\ asked[i] # Timeout
          [] state = "NOT_ATTEMPTED" -> asked = <<>>
          [] state = "SKIPPED_DUPLICATE" -> asked = <<>> /\ known
          [] state = "raised" -> TRUE

\* Receipts are true one by one.
LEMMA TruthSplits ==
    ReceiptTellsTheTruth <=>
        \A k \in 1 .. Len(results) :
            TruthOf(results[k].state, results[k].asked, Reported(results[k].id, k - 1))
BY DEF ReceiptTellsTheTruth, TruthOf, Reported

\* A step that reports nothing keeps every receipt true.
LEMMA TruthKept ==
    ASSUME results' = results, setup' = setup, ReceiptTellsTheTruth
    PROVE  ReceiptTellsTheTruth'
BY ZenonT(60) DEF ReceiptTellsTheTruth

\* The history only grows.
LEMMA HistoryGrows ==
    ASSUME TypeOK, NEW r, results' = Append(results, r)
    PROVE  /\ Len(results) \in Nat /\ Len(results') = Len(results) + 1
           /\ results'[Len(results) + 1] = r
           /\ \A k \in 1 .. Len(results) : results'[k] = results[k]
BY DEF TypeOK

\* A true receipt is added, and the registry knows what it reports.
LEMMA ReceiptsGrow ==
    ASSUME TypeOK, RegistryInv, ReceiptTellsTheTruth, UNCHANGED setup,
           NEW r, results' = Append(results, r),
           TruthOf(r.state, r.asked, Reported(r.id, Len(results))),
           \A id \in registry' : id \in registry \/ (id = r.id /\ r.state \in {"DELIVERED", "SENT"})
    PROVE  ReceiptTellsTheTruth' /\ RegistryInv'
<1> DEFINE n == Len(results)
<1>1. /\ n \in Nat /\ Len(results') = n + 1 /\ results'[n + 1] = r
      /\ \A k \in 1 .. n : results'[k] = results[k]
  BY HistoryGrows
<1>2. ASSUME NEW k \in 1 .. n + 1
      PROVE  TruthOf(results[k].state, results[k].asked, Reported(results[k].id, k - 1))'
  <2>1. \A j \in 1 .. k - 1 : results'[j] = results[j]
    BY <1>1
  <2>2. ASSUME NEW id
        PROVE  (\E j \in 1 .. k - 1 : results'[j].id = id
                                       /\ results'[j].state \in {"DELIVERED", "SENT"})
               <=> Reported(id, k - 1)
    BY <2>1 DEF Reported
  <2> DEFINE new == results'[k]
             known == Reported(new.id, k - 1)
  <2>3. TruthOf(new.state, new.asked, known)
    <3>1. CASE k \in 1 .. n
      BY <1>1, <3>1, TruthSplits
    <3>2. CASE k = n + 1
      <4>1. k - 1 = n
        BY <1>1, <3>2
      <4> QED BY <1>1, <3>2, <4>1
    <3> QED BY <1>1, <3>1, <3>2
  <2>4. (\E j \in 1 .. k - 1 : results'[j].id = new.id
                               /\ results'[j].state \in {"DELIVERED", "SENT"}) <=> known
    BY <2>2
  <2> HIDE DEF known
  <2> QED BY <2>3, <2>4 DEF TruthOf, Reported
<1>4. RegistryInv'
  <2> SUFFICES ASSUME NEW id \in registry' PROVE Reported(id, Len(results))'
    BY DEF RegistryInv
  <2>1. CASE id \in registry
    BY <1>1, <2>1 DEF RegistryInv, Reported
  <2>2. CASE id = r.id /\ r.state \in {"DELIVERED", "SENT"}
    BY <1>1, <2>2 DEF Reported
  <2> QED BY <2>1, <2>2
<1>5. ReceiptTellsTheTruth'
  <2>1. \A k \in 1 .. Len(results') :
            TruthOf(results[k].state, results[k].asked, Reported(results[k].id, k - 1))'
    BY <1>1, <1>2
  <2> QED BY <2>1 DEF ReceiptTellsTheTruth, TruthOf, Reported
<1> QED BY <1>4, <1>5

\* What the sink makes of an answer is what the answer says.
LEMMA MeaningTells ==
    ASSUME NEW answer \in Answers
    PROVE  /\ Meaning(answer) \in {"busy", "FAILED"} => MayRepeat(answer)
           /\ Meaning(answer) = "DELIVERED" => Confirms(answer)
           /\ Meaning(answer) = "SENT" => Accepts(answer) /\ ~ Confirms(answer)
           /\ Meaning(answer) = "UNKNOWN" => answer = Timeout
           /\ Accepts(answer) => Meaning(answer) \in {"DELIVERED", "SENT"}
           /\ MayRepeat(answer) => ~ Accepts(answer) /\ answer # Timeout
<1>1. CASE answer \in {Timeout, ApiError, Broken}
  <2>1. answer.kind \in {"timeout", "api", "broken"} /\ ~ Accepts(answer) /\ ~ Confirms(answer)
        /\ answer.code = 0 /\ (answer.kind = "timeout" <=> answer = Timeout)
    BY <1>1 DEF Accepts, Confirms, Timeout, ApiError, Broken
  <2> QED BY <2>1 DEF Meaning, MayRepeat, Retryable
<1>2. CASE answer = Status(answer.code, answer.ok)
  <2>1. answer.kind = "status" /\ answer # Timeout
        /\ (Confirms(answer) => Accepts(answer))
        /\ (Accepts(answer) => ~ Retryable(answer.code))
    BY <1>2 DEF Accepts, Confirms, Retryable, Timeout, Status
  <2> QED BY <2>1 DEF Meaning, MayRepeat
<1> QED BY <1>1, <1>2, AnswersAssumption

\* The answers of a call that may all be repeated contain neither acceptance nor timeout.
LEMMA MayRepeatTells ==
    ASSUME TypeOK, call # None, AllMayRepeat(call.asked)
    PROVE  \A i \in 1 .. Len(call.asked) :
               ~ Accepts(call.asked[i]) /\ call.asked[i] # Timeout
<1>1. \A i \in 1 .. Len(call.asked) : call.asked[i] \in Answers
  BY CallType
<1> QED BY <1>1, MeaningTells DEF AllMayRepeat

\* One answer more.
LEMMA AskedGrows ==
    ASSUME TypeOK, call # None, NEW answer \in Answers
    PROVE  LET asked == Append(call.asked, answer)
           IN  /\ asked # <<>> /\ asked[Len(asked)] = answer
               /\ AllMayRepeat(call.asked) /\ MayRepeat(answer) => AllMayRepeat(asked)
<1>1. call.asked \in Seq(Answers)
  BY CallType
<1>2. LET asked == Append(call.asked, answer)
      IN  /\ Len(asked) = Len(call.asked) + 1 /\ asked[Len(asked)] = answer
          /\ \A k \in 1 .. Len(call.asked) : asked[k] = call.asked[k]
          /\ Len(call.asked) \in Nat
  BY <1>1
<1> QED BY <1>1, <1>2 DEF AllMayRepeat

\* An attempt that ends truthfully keeps the receipts true.
LEMMA ConcludeTells ==
    ASSUME TypeOK, RegistryInv, ReceiptTellsTheTruth, call # None, UNCHANGED setup,
           NEW state, NEW category, Conclude(state, category),
           \/ state = "DELIVERED" /\ (setup.dryRun \/ SettledAs("DELIVERED", call.asked))
           \/ state = "NOT_ATTEMPTED" /\ call.asked = <<>>
           \/ state \in {"SENT", "UNKNOWN"} /\ SettledAs(state, call.asked)
           \/ /\ state = "FAILED" /\ AllMayRepeat(call.asked)
              /\ call.asked # <<>> => Sendable(call.outcome)
    PROVE  ReceiptTellsTheTruth' /\ RegistryInv' /\ AskedInv'
<1>1. CASE CallEnds(state, category)
  <2> DEFINE r == Ended(state, category, TRUE)
  <2>1. results' = Append(results, r) /\ call' = None /\ registry' = Registered(state)
    BY <1>1 DEF CallEnds
  <2>2. r.state = state /\ r.asked = call.asked /\ r.id = call.outcome.id
    BY DEF Ended
  <2> HIDE DEF r
  <2>3. TruthOf(r.state, r.asked, Reported(r.id, Len(results)))
    BY <2>2, MayRepeatTells DEF TruthOf, SettledAs
  <2>4. \A id \in registry' : id \in registry \/ (id = r.id /\ r.state \in {"DELIVERED", "SENT"})
    BY <2>1, <2>2 DEF Registered
  <2>5. AskedInv'
    BY <2>1 DEF AskedInv
  <2> QED BY <2>1, <2>3, <2>4, <2>5, ReceiptsGrow
<1>2. CASE state = "FAILED" /\ CallRetries
  <2>1. results' = results /\ registry' = registry /\ setup' = setup
    BY <1>2 DEF CallRetries
  <2>2. call' \in Calls /\ call'.outcome = call.outcome /\ call'.asked = call.asked
        /\ call'.step = "attempt"
    BY <1>2, RetriesType
  <2>3. AskedInv'
    BY <1>2, <2>2 DEF AskedInv, Sendable, AllMayRepeat
  <2>4. RegistryInv'
    BY <2>1 DEF RegistryInv, Reported
  <2>5. ReceiptTellsTheTruth'
    BY <2>1, TruthKept
  <2> QED BY <2>3, <2>4, <2>5
<1> QED BY <1>1, <1>2, ConcludeSplits

\* A step that ends no call keeps every receipt.
LEMMA NothingReported ==
    ASSUME UNCHANGED <<setup, results, registry>>, RegistryInv, ReceiptTellsTheTruth
    PROVE  ReceiptTellsTheTruth' /\ RegistryInv'
<1>1. RegistryInv'
  BY DEF RegistryInv, Reported
<1>2. ReceiptTellsTheTruth'
  BY TruthKept
<1> QED BY <1>1, <1>2

\* Every receipt says what the answers to its call said, at every step.
LEMMA ReceiptStep ==
    ASSUME TypeOK, TypeOK', BoundInv, AskedInv, RegistryInv, ReceiptTellsTheTruth,
           [Next]_delivery
    PROVE  ReceiptTellsTheTruth' /\ RegistryInv' /\ AskedInv'
<1>1. ASSUME NEW f \in Frames, NEW d \in Destinations, NEW w \in Drawings, Begin(f, d, w)
      PROVE  ReceiptTellsTheTruth' /\ RegistryInv' /\ AskedInv'
  <2> DEFINE outcome == Outcome(f, d, w, setup.show)
             r(state, category) ==
                 [id |-> outcome.id, state |-> state, category |-> category,
                  attempt |-> 1, payload |-> FALSE, asked |-> <<>>]
             new == [step |-> "attempt", outcome |-> outcome, attempt |-> 1, try |-> 0,
                     state |-> "FAILED", category |-> "none", asked |-> <<>>]
  <2>1. call = None /\ setup' = setup /\ registry' = registry
        /\ (\/ results' = Append(results, r("NOT_ATTEMPTED", "config")) /\ call' = call
            \/ /\ results' = Append(results, r("SKIPPED_DUPLICATE", "none")) /\ call' = call
               /\ outcome.id \in registry
            \/ call' = new /\ results' = results)
    BY <1>1 DEF Begin
  <2> HIDE DEF outcome
  <2>2. CASE results' = Append(results, r("NOT_ATTEMPTED", "config")) /\ call' = call
    <3>1. TruthOf("NOT_ATTEMPTED", <<>>, Reported(outcome.id, Len(results)))
      BY DEF TruthOf
    <3>2. AskedInv'
      BY <2>1, <2>2 DEF AskedInv
    <3> DEFINE new1 == r("NOT_ATTEMPTED", "config")
    <3>3. new1.state = "NOT_ATTEMPTED" /\ new1.asked = <<>> /\ new1.id = outcome.id
      OBVIOUS
    <3> HIDE DEF new1
    <3>4. results' = Append(results, new1)
      BY <2>2 DEF new1
    <3> QED BY <2>1, <3>1, <3>2, <3>3, <3>4, ReceiptsGrow
  <2>3. CASE /\ results' = Append(results, r("SKIPPED_DUPLICATE", "none")) /\ call' = call
             /\ outcome.id \in registry
    <3>1. TruthOf("SKIPPED_DUPLICATE", <<>>, Reported(outcome.id, Len(results)))
      BY <2>3 DEF TruthOf, RegistryInv
    <3>2. AskedInv'
      BY <2>1, <2>3 DEF AskedInv
    <3> DEFINE new1 == r("SKIPPED_DUPLICATE", "none")
    <3>3. new1.state = "SKIPPED_DUPLICATE" /\ new1.asked = <<>> /\ new1.id = outcome.id
      OBVIOUS
    <3> HIDE DEF new1
    <3>4. results' = Append(results, new1)
      BY <2>3 DEF new1
    <3> QED BY <2>1, <3>1, <3>2, <3>3, <3>4, ReceiptsGrow
  <2>4. CASE call' = new /\ results' = results
    <3>1. call'.step = "attempt" /\ call'.asked = <<>>
      BY <2>4
    <3>2. AskedInv'
      BY <3>1 DEF AskedInv, Quiet, AllMayRepeat
    <3> QED BY <2>1, <2>4, <3>2, NothingReported
  <2> QED BY <2>1, <2>2, <2>3, <2>4
<1>2. CASE PreFlight
  <2>1. call # None /\ call.step = "attempt" /\ setup' = setup /\ call.outcome \in Projections
        /\ bound = PayloadOf(call.outcome)
    BY <1>2, CallType DEF PreFlight, BoundInv
  <2>2. BridgeAccepts(bound, Attempt(call.outcome, call.attempt))
    BY <2>1, BridgeForwards
  <2>3. bound.rendered = call.outcome.rendered
    BY <2>1 DEF PayloadOf
  <2>4. AllMayRepeat(call.asked) /\ (call.asked # <<>> => Sendable(call.outcome))
    BY <2>1 DEF AskedInv, Quiet
  <2>5. \/ setup.dryRun /\ Conclude("DELIVERED", "none")
        \/ ~ Sendable(call.outcome) /\ Conclude("NOT_ATTEMPTED", "config")
        \/ /\ Sendable(call.outcome) /\ call' = [call EXCEPT !.step = "acquire", !.try = 1]
           /\ UNCHANGED <<registry, results>>
    BY <1>2, <2>2, <2>3 DEF PreFlight, Sendable
  <2>6. CASE setup.dryRun /\ Conclude("DELIVERED", "none")
    BY <2>1, <2>6, ConcludeTells
  <2>7. CASE ~ Sendable(call.outcome) /\ Conclude("NOT_ATTEMPTED", "config")
    BY <2>1, <2>4, <2>7, ConcludeTells
  <2>8. CASE /\ Sendable(call.outcome) /\ call' = [call EXCEPT !.step = "acquire", !.try = 1]
             /\ UNCHANGED <<registry, results>>
    <3>1. call'.step = "acquire" /\ call'.outcome = call.outcome /\ call'.asked = call.asked
      BY <2>1, <2>8, CallType DEF Calls
    <3>2. AskedInv'
      BY <2>1, <2>4, <2>8, <3>1 DEF AskedInv, Sendable, AllMayRepeat
    <3> QED BY <2>1, <2>8, <3>2, NothingReported
  <2> QED BY <2>5, <2>6, <2>7, <2>8
<1>3. CASE Acquire
  <2>1. call # None /\ call.step = "acquire" /\ setup' = setup
    BY <1>3 DEF Acquire
  <2>2. AllMayRepeat(call.asked) /\ Sendable(call.outcome)
    BY <2>1 DEF AskedInv, Quiet
  <2>3. CASE Conclude("FAILED", "rate_limit")
    BY <2>1, <2>2, <2>3, ConcludeTells
  <2>4. CASE /\ call' = [call EXCEPT !.step = IF call.try > 1 THEN "backoff" ELSE "request"]
             /\ UNCHANGED <<registry, results>>
    <3>1. call'.step \in {"backoff", "request"} /\ call'.outcome = call.outcome
          /\ call'.asked = call.asked
      BY <2>1, <2>4, StepType
    <3>2. AskedInv'
      BY <2>1, <2>2, <3>1 DEF AskedInv, Sendable, AllMayRepeat
    <3> QED BY <2>1, <2>4, <3>2, NothingReported
  <2> QED BY <1>3, <2>3, <2>4 DEF Acquire
<1>4. CASE Sleep
  <2>1. call # None /\ call.step = "backoff" /\ UNCHANGED <<setup, registry, results>>
        /\ call' = [call EXCEPT !.step = "request"]
    BY <1>4 DEF Sleep
  <2>2. call'.step = "request" /\ call'.outcome = call.outcome /\ call'.asked = call.asked
    BY <2>1, StepType
  <2>3. AskedInv'
    BY <2>1, <2>2 DEF AskedInv, Quiet, Sendable, AllMayRepeat
  <2> QED BY <2>1, <2>3, NothingReported
<1>5. ASSUME NEW a \in Answers, NEW t \in Durations, SendText(a, t)
      PROVE  ReceiptTellsTheTruth' /\ RegistryInv' /\ AskedInv'
  <2>1. call # None /\ call.step = "request" /\ UNCHANGED <<setup, registry, results>>
    BY <1>5 DEF SendText
  <2>2. AllMayRepeat(call.asked) /\ Sendable(call.outcome)
    BY <2>1 DEF AskedInv, Quiet
  <2>3. AnsweredCall(a)
    BY <1>5, SendTextSplits
  <2>4. call'.outcome = call.outcome /\ call'.asked = Append(call.asked, a)
    BY <2>1, <2>3, AnsweredCallType
  <2>5. Sendable(call.outcome)'
    BY <2>1, <2>2, <2>4 DEF Sendable
  <2>6. call'.asked # <<>> /\ call'.asked[Len(call'.asked)] = a
        /\ (MayRepeat(a) => AllMayRepeat(call'.asked))
    BY <2>1, <2>2, <2>4, AskedGrows
  <2>7. \/ call'.step = "raised"
        \/ call'.step = "acquire" /\ Meaning(a) = "busy"
        \/ call'.step = "answered" /\ Meaning(a) = "busy" /\ call'.state = "FAILED"
        \/ /\ call'.step = "answered" /\ call'.state = Meaning(a)
           /\ Meaning(a) \in {"UNKNOWN", "DELIVERED", "SENT", "FAILED"}
    <3>1. call \in Calls /\ CategoryOf(a) \in Categories
      BY <2>1, CallType, MeaningType
    <3> QED BY <2>3, <3>1 DEF AnsweredCall, Calls
  <2>8. AskedInv'
    <3>1. CASE call'.step = "raised"
      BY <2>5, <3>1 DEF AskedInv, Quiet
    <3>2. CASE call'.step = "acquire" /\ Meaning(a) = "busy"
      BY <2>5, <2>6, <3>2, MeaningTells DEF AskedInv, AllMayRepeat
    <3>3. CASE /\ call'.step = "answered"
               /\ \/ Meaning(a) = "busy" /\ call'.state = "FAILED"
                  \/ /\ call'.state = Meaning(a)
                     /\ Meaning(a) \in {"UNKNOWN", "DELIVERED", "SENT", "FAILED"}
      <4>1. SettledAs(call'.state, call'.asked)
        BY <2>6, <3>3, MeaningTells DEF SettledAs
      <4> QED BY <2>5, <3>3, <4>1 DEF AskedInv, Quiet, SettledAs, AllMayRepeat
    <3> QED BY <2>7, <3>1, <3>2, <3>3
  <2> QED BY <2>1, <2>8, NothingReported
<1>6. CASE Settle
  <2>1. call # None /\ call.step = "answered" /\ setup' = setup
    BY <1>6 DEF Settle
  <2>2. SettledAs(call.state, call.asked) /\ Sendable(call.outcome)
    BY <2>1 DEF AskedInv
  <2>3. CASE Conclude(call.state, call.category)
    <3>1. call.state \in {"DELIVERED", "SENT", "UNKNOWN", "FAILED"}
      BY <2>2, CallType DEF SettledAs
    <3>2. call.state = "FAILED" => AllMayRepeat(call.asked)
      BY <2>2 DEF SettledAs
    <3> QED BY <2>1, <2>2, <2>3, <3>1, <3>2, ConcludeTells
  <2>4. CASE /\ call.state = "DELIVERED" /\ call' = [call EXCEPT !.step = "chart"]
             /\ UNCHANGED <<registry, results>>
    <3>1. call'.step = "chart" /\ call'.outcome = call.outcome /\ call'.asked = call.asked
      BY <2>1, <2>4, StepType
    <3>2. AskedInv'
      BY <2>1, <2>2, <2>4, <3>1 DEF AskedInv, Quiet, Sendable, SettledAs, AllMayRepeat
    <3> QED BY <2>1, <2>4, <3>2, NothingReported
  <2> QED BY <1>6, <2>3, <2>4 DEF Settle
<1>7. CASE SkipChart
  <2>1. call # None /\ call.step = "chart" /\ setup' = setup /\ Conclude("DELIVERED", "none")
    BY <1>7 DEF SkipChart
  <2>2. SettledAs("DELIVERED", call.asked)
    BY <2>1 DEF AskedInv
  <2> QED BY <2>1, <2>2, ConcludeTells
<1>8. ASSUME NEW a \in Answers, NEW t \in Durations, SendChart(a, t)
      PROVE  ReceiptTellsTheTruth' /\ RegistryInv' /\ AskedInv'
  <2>1. call # None /\ call.step = "chart" /\ setup' = setup
    BY <1>8 DEF SendChart
  <2>2. SettledAs("DELIVERED", call.asked) /\ Sendable(call.outcome)
    BY <2>1 DEF AskedInv
  <2>3. CASE Conclude("DELIVERED", "none")
    BY <2>1, <2>2, <2>3, ConcludeTells
  <2>4. CASE call' = [call EXCEPT !.step = "raised"] /\ UNCHANGED <<registry, results>>
    <3>1. call'.step = "raised" /\ call'.outcome = call.outcome
      BY <2>1, <2>4, StepType
    <3>2. AskedInv'
      BY <2>1, <2>2, <3>1 DEF AskedInv, Quiet, Sendable
    <3> QED BY <2>1, <2>4, <3>2, NothingReported
  <2> QED BY <1>8, <2>3, <2>4 DEF SendChart
<1>9. CASE Unwind
  <2>1. call # None /\ setup' = setup /\ call' = None
        /\ results' = Append(results, Ended("raised", "none", TRUE)) /\ registry' = registry
    BY <1>9 DEF Unwind, Raise
  <2> DEFINE r == Ended("raised", "none", TRUE)
  <2>2. r.state = "raised"
    BY DEF Ended
  <2> HIDE DEF r
  <2>3. TruthOf(r.state, r.asked, Reported(r.id, Len(results)))
    BY <2>2 DEF TruthOf
  <2>4. AskedInv'
    BY <2>1 DEF AskedInv
  <2>5. results' = Append(results, r)
    BY <2>1 DEF r
  <2> QED BY <2>1, <2>3, <2>4, <2>5, ReceiptsGrow
<1>10. CASE (\E t \in Pauses : Pass(t)) \/ UNCHANGED delivery
  <2>1. UNCHANGED <<setup, registry, results, call>>
    BY <1>10 DEF Pass, delivery
  <2>2. AskedInv'
    BY <2>1 DEF AskedInv, Sendable, SettledAs, AllMayRepeat
  <2> QED BY <2>1, <2>2, NothingReported
<1> QED BY <1>1, <1>2, <1>3, <1>4, <1>5, <1>6, <1>7, <1>8, <1>9, <1>10 DEF Next

-----------------------------------------------------------------------------
(* A message is settled once.                                              *)

\* No text was sent; a chart may have been, by the call in progress.
SameTexts ==
    \/ requests' = requests
    \/ \E r \in Requests :
          /\ requests' = Append(requests, r)
          /\ call # None /\ r.kind = "chart" /\ r.call = Now /\ r.id = call.outcome.id

\* The call in progress knows that its text was accepted, or left by an exception.
Settled ==
    \/ call.step = "answered" /\ call.state \in {"DELIVERED", "SENT"}
    \/ call.step \in {"chart", "raised"}

\* The types of the history of requests.
LEMMA OwnerType ==
    ASSUME TypeOK
    PROVE  /\ Len(requests) \in Nat /\ Len(results) \in Nat /\ Now \in Nat
           /\ \A i \in 1 .. Len(requests) :
                 /\ requests[i] \in Requests /\ requests[i].call \in Nat
                 /\ requests[i].answer \in Answers
<1>1. requests \in Seq(Requests) /\ results \in Seq(Results)
  BY DEF TypeOK
<1>2. \A i \in 1 .. Len(requests) : requests[i] \in Requests
  BY <1>1
<1> QED BY <1>1, <1>2 DEF Requests, Now

\* After such a step the texts are the ones there were, at their places.
LEMMA TextsKept ==
    ASSUME TypeOK, SameTexts
    PROVE  /\ Len(requests') \in Nat /\ Len(requests) \in Nat
           /\ Len(requests') \in {Len(requests), Len(requests) + 1}
           /\ \A i \in 1 .. Len(requests) : requests'[i] = requests[i]
           /\ \A i \in 1 .. Len(requests') :
                 \/ i \in 1 .. Len(requests)
                 \/ /\ i = Len(requests) + 1 /\ call # None
                    /\ requests'[i].kind = "chart" /\ requests'[i].call = Now
                    /\ requests'[i].id = call.outcome.id
<1>1. requests \in Seq(Requests)
  BY DEF TypeOK
<1>2. CASE requests' = requests
  BY <1>1, <1>2
<1>3. ASSUME NEW r \in Requests, requests' = Append(requests, r),
             call # None, r.kind = "chart", r.call = Now, r.id = call.outcome.id
      PROVE  /\ Len(requests') = Len(requests) + 1 /\ Len(requests) \in Nat
             /\ \A i \in 1 .. Len(requests) : requests'[i] = requests[i]
             /\ requests'[Len(requests) + 1] = r
  BY <1>1, <1>3
<1>4. CASE \E r \in Requests :
              /\ requests' = Append(requests, r)
              /\ call # None /\ r.kind = "chart" /\ r.call = Now /\ r.id = call.outcome.id
  <2>1. PICK r \in Requests :
              /\ requests' = Append(requests, r)
              /\ call # None /\ r.kind = "chart" /\ r.call = Now /\ r.id = call.outcome.id
    BY <1>4
  <2>2. /\ Len(requests') = Len(requests) + 1 /\ Len(requests) \in Nat
        /\ \A i \in 1 .. Len(requests) : requests'[i] = requests[i]
        /\ requests'[Len(requests) + 1] = r
    BY <1>3, <2>1
  <2> QED BY <2>1, <2>2
<1> QED BY <1>2, <1>4 DEF SameTexts

\* Requests stay with their calls while nothing but a chart is sent.
LEMMA OwnerKept ==
    ASSUME TypeOK, OwnerInv, SameTexts
    PROVE  \A i \in 1 .. Len(requests') :
              /\ requests'[i].call \in 1 .. Now
              /\ \A j \in i .. Len(requests') : requests'[i].call <= requests'[j].call
              /\ requests'[i].call = Now => call # None /\ requests'[i].id = call.outcome.id
<1>1. Now \in Nat /\ Now >= 1
  BY OwnerType DEF Now
<1>2. SUFFICES ASSUME NEW i \in 1 .. Len(requests')
               PROVE  /\ requests'[i].call \in 1 .. Now
                      /\ \A j \in i .. Len(requests') : requests'[i].call <= requests'[j].call
                      /\ requests'[i].call = Now
                             => call # None /\ requests'[i].id = call.outcome.id
  OBVIOUS
<1>3. CASE i \in 1 .. Len(requests)
  <2>1. requests'[i] = requests[i]
    BY <1>3, TextsKept
  <2>2. ASSUME NEW j \in i .. Len(requests') PROVE requests[i].call <= requests'[j].call
    <3>1. j \in 1 .. Len(requests')
      BY <1>3, TextsKept
    <3>2. CASE j \in 1 .. Len(requests)
      <4>1. j \in i .. Len(requests) /\ requests'[j] = requests[j]
        BY <3>2, TextsKept
      <4> QED BY <1>3, <4>1 DEF OwnerInv
    <3>3. CASE requests'[j].call = Now
      BY <1>1, <1>3, <3>3 DEF OwnerInv
    <3> QED BY <3>1, <3>2, <3>3, TextsKept
  <2> QED BY <1>3, <2>1, <2>2 DEF OwnerInv
<1>4. CASE i = Len(requests) + 1
  <2>1. call # None /\ requests'[i].call = Now /\ requests'[i].id = call.outcome.id
    BY <1>4, TextsKept
  <2>2. \A j \in i .. Len(requests') : j = i
    BY <1>4, TextsKept
  <2> QED BY <1>1, <2>1, <2>2
<1> QED BY <1>3, <1>4, TextsKept

\* While nothing but a chart is sent, no silent retry appears.
LEMMA NoNewRetry ==
    ASSUME TypeOK, NoSilentRetry, SameTexts
    PROVE  NoSilentRetry'
<1> SUFFICES ASSUME NEW i \in 1 .. Len(requests'), NEW j \in 1 .. Len(requests'), i < j,
                    requests'[i].call = requests'[j].call,
                    requests'[i].kind = "text", requests'[j].kind = "text"
             PROVE  /\ ~ Accepts(requests'[i].answer)
                    /\ requests'[i].answer.kind \notin {"timeout", "broken"}
  BY DEF NoSilentRetry, IsText
<1>1. i \in 1 .. Len(requests) /\ j \in 1 .. Len(requests)
  BY TextsKept
<1>2. requests'[i] = requests[i] /\ requests'[j] = requests[j]
  BY <1>1, TextsKept
<1> QED BY <1>1, <1>2 DEF NoSilentRetry, IsText

\* Once a text was accepted within a call, no text follows in that call: the accepted one with
\* a later one of the same message belongs to a call that ended.
LEMMA AcceptedEarlier ==
    ASSUME TypeOK, OwnerInv, NoSilentRetry,
           NEW i \in 1 .. Len(requests), NEW j \in 1 .. Len(requests), i < j,
           requests[i].kind = "text", requests[j].kind = "text", Accepts(requests[i].answer)
    PROVE  requests[i].call \in 1 .. Len(results)
<1>1. /\ requests[i].call \in 1 .. Now /\ requests[j].call \in 1 .. Now
      /\ requests[i].call <= requests[j].call
  <2>1. j \in i .. Len(requests)
    BY OwnerType
  <2> QED BY <2>1 DEF OwnerInv
<1>2. requests[i].call # requests[j].call
  BY DEF NoSilentRetry, IsText
<1> QED BY <1>1, <1>2, OwnerType DEF Now

\* A step within a call keeps the history, when it neither sends a text nor forgets that the
\* text was settled.
LEMMA WithinCall ==
    ASSUME TypeOK, OwnerInv, QuietInv, TakenInv, SettledOnce,
           call # None, call' # None, call'.outcome = call.outcome,
           UNCHANGED <<setup, registry, results>>, SameTexts,
           MaySendAgain' => MaySendAgain, Settled => Settled'
    PROVE  OwnerInv' /\ QuietInv' /\ TakenInv' /\ SettledOnce'
<1>1. Now' = Now
  BY DEF Now
<1>2. OwnerInv'
  BY <1>1, OwnerKept DEF OwnerInv
<1>3. ASSUME NEW i \in 1 .. Len(requests'), requests'[i].kind = "text"
      PROVE  i \in 1 .. Len(requests) /\ requests'[i] = requests[i]
  BY <1>3, TextsKept
<1>4. QuietInv'
  BY <1>1, <1>3 DEF QuietInv
<1>5. TakenInv'
  <2> SUFFICES ASSUME setup.deduplicate PROVE TakenInv'
    BY DEF TakenInv
  <2>1. call.outcome.id \notin registry
    BY DEF TakenInv
  <2>2. ASSUME NEW i \in 1 .. Len(requests'),
               requests'[i].kind = "text", Accepts(requests'[i].answer)
        PROVE  IF requests'[i].call = Now THEN Settled'
               ELSE results[requests'[i].call].state = "raised" \/ requests'[i].id \in registry
    <3>1. i \in 1 .. Len(requests) /\ requests'[i] = requests[i]
      BY <1>3, <2>2
    <3> QED BY <2>2, <3>1 DEF TakenInv, Settled
  <2> QED BY <1>1, <2>1, <2>2 DEF TakenInv, Settled
<1>6. NoSilentRetry'
  BY NoNewRetry DEF SettledOnce
<1>7. AcceptedIsFinal'
  <2> SUFFICES ASSUME setup.deduplicate, NEW i \in 1 .. Len(requests'),
                      NEW j \in 1 .. Len(requests'), i < j,
                      requests'[i].kind = "text", requests'[j].kind = "text",
                      requests'[j].id = requests'[i].id, Accepts(requests'[i].answer)
               PROVE  results[requests'[i].call].state = "raised"
    BY DEF AcceptedIsFinal, IsText
  <2>1. i \in 1 .. Len(requests) /\ j \in 1 .. Len(requests)
        /\ requests'[i] = requests[i] /\ requests'[j] = requests[j]
    BY <1>3
  <2> QED BY <2>1 DEF SettledOnce, AcceptedIsFinal, IsText
<1> QED BY <1>2, <1>4, <1>5, <1>6, <1>7 DEF SettledOnce

\* A call that ends leaves the knowledge of an accepted text to the registry, or is left by an
\* exception.
LEMMA AfterCall ==
    ASSUME TypeOK, OwnerInv, QuietInv, TakenInv, SettledOnce,
           call' = None, NEW r, results' = Append(results, r), UNCHANGED setup, SameTexts,
           registry \subseteq registry',
           setup.deduplicate /\ call # None /\ Settled
               => r.state = "raised" \/ call.outcome.id \in registry'
    PROVE  OwnerInv' /\ QuietInv' /\ TakenInv' /\ SettledOnce'
<1>1. /\ Now \in Nat /\ Now' = Now + 1 /\ Len(results) \in Nat /\ Now = Len(results) + 1
      /\ results'[Now] = r /\ \A k \in 1 .. Len(results) : results'[k] = results[k]
  BY HistoryGrows, OwnerType DEF Now
<1>2. OwnerInv'
  <2>1. \A i \in 1 .. Len(requests') : requests'[i].call \in 1 .. Now' /\ requests'[i].call # Now'
    BY <1>1, OwnerKept
  <2> QED BY <2>1, OwnerKept DEF OwnerInv
<1>3. ASSUME NEW i \in 1 .. Len(requests'), requests'[i].kind = "text"
      PROVE  i \in 1 .. Len(requests) /\ requests'[i] = requests[i]
  BY <1>3, TextsKept
<1>4. QuietInv'
  BY DEF QuietInv, MaySendAgain
<1>5. TakenInv'
  <2> SUFFICES ASSUME setup.deduplicate, NEW i \in 1 .. Len(requests'),
                      requests'[i].kind = "text", Accepts(requests'[i].answer)
               PROVE  /\ requests'[i].call # Now'
                      /\ \/ results'[requests'[i].call].state = "raised"
                         \/ requests'[i].id \in registry'
    BY DEF TakenInv
  <2>1. i \in 1 .. Len(requests) /\ requests'[i] = requests[i]
    BY <1>3
  <2>2. requests[i].call \in 1 .. Now
    BY <2>1 DEF OwnerInv
  <2>3. CASE requests[i].call = Now
    <3>1. call # None /\ requests[i].id = call.outcome.id
      BY <2>1, <2>3 DEF OwnerInv
    <3>2. Settled
      BY <2>1, <2>3 DEF TakenInv, Settled
    <3> QED BY <1>1, <2>1, <2>3, <3>1, <3>2
  <2>4. CASE requests[i].call \in 1 .. Len(results)
    <3>1. results[requests[i].call].state = "raised" \/ requests[i].id \in registry
      BY <1>1, <2>1, <2>4 DEF TakenInv
    <3> QED BY <1>1, <2>1, <2>4, <3>1
  <2>5. requests[i].call = Now \/ requests[i].call \in 1 .. Len(results)
    BY <1>1, <2>2
  <2> QED BY <2>3, <2>4, <2>5
<1>6. NoSilentRetry'
  BY NoNewRetry DEF SettledOnce
<1>7. AcceptedIsFinal'
  <2> SUFFICES ASSUME setup.deduplicate, NEW i \in 1 .. Len(requests'),
                      NEW j \in 1 .. Len(requests'), i < j,
                      requests'[i].kind = "text", requests'[j].kind = "text",
                      requests'[j].id = requests'[i].id, Accepts(requests'[i].answer)
               PROVE  results'[requests'[i].call].state = "raised"
    BY DEF AcceptedIsFinal, IsText
  <2>1. i \in 1 .. Len(requests) /\ j \in 1 .. Len(requests)
        /\ requests'[i] = requests[i] /\ requests'[j] = requests[j]
    BY <1>3
  <2>2. requests[i].call \in 1 .. Len(results)
    BY <2>1, AcceptedEarlier DEF SettledOnce
  <2>3. results[requests[i].call].state = "raised"
    BY <2>1 DEF SettledOnce, AcceptedIsFinal, IsText
  <2> QED BY <1>1, <2>1, <2>2, <2>3
<1> QED BY <1>2, <1>4, <1>5, <1>6, <1>7 DEF SettledOnce

\* The end of an attempt: a text that was settled is reported, and only what failed is retried.
LEMMA ConcludeSettles ==
    ASSUME TypeOK, OwnerInv, QuietInv, TakenInv, SettledOnce, call # None, UNCHANGED setup,
           SameTexts, NEW state, NEW category, Conclude(state, category),
           Settled => state \in {"DELIVERED", "SENT"},
           state = "FAILED" => MaySendAgain
    PROVE  OwnerInv' /\ QuietInv' /\ TakenInv' /\ SettledOnce'
<1>1. CASE CallEnds(state, category)
  <2> DEFINE r == Ended(state, category, TRUE)
  <2>1. results' = Append(results, r) /\ call' = None /\ registry' = Registered(state)
    BY <1>1 DEF CallEnds
  <2>2. registry \subseteq registry'
    BY <2>1 DEF Registered
  <2>3. setup.deduplicate /\ call # None /\ Settled => call.outcome.id \in registry'
    BY <2>1 DEF Registered
  <2> HIDE DEF r
  <2> QED BY <2>1, <2>2, <2>3, AfterCall
<1>2. CASE state = "FAILED" /\ CallRetries
  <2>1. UNCHANGED <<registry, results>>
    BY <1>2 DEF CallRetries
  <2>2. call' \in Calls /\ call' # None /\ call'.outcome = call.outcome
    BY <1>2, RetriesType, NoneAssumption
  <2>3. MaySendAgain /\ ~ Settled
    BY <1>2
  <2> QED BY <2>1, <2>2, <2>3, WithinCall
<1> QED BY <1>1, <1>2, ConcludeSplits

\* A text is sent only while no earlier one of its message was accepted, unless the call of
\* that one was left by an exception.
LEMMA TextSettles ==
    ASSUME TypeOK, BoundInv, OwnerInv, QuietInv, TakenInv, SettledOnce,
           NEW a \in Answers, NEW t \in Durations, SendText(a, t)
    PROVE  OwnerInv' /\ QuietInv' /\ TakenInv' /\ SettledOnce'
<1> DEFINE n == Len(requests)
           r == Request("text", a)
<1>1. /\ call # None /\ call.step = "request" /\ setup' = setup /\ registry' = registry
      /\ results' = results /\ requests' = Append(requests, r)
  BY DEF SendText
<1>2. /\ r \in Requests /\ r.kind = "text" /\ r.answer = a /\ r.id = call.outcome.id
      /\ r.call = Now
  BY <1>1, RequestType DEF Request, Now
<1> HIDE DEF r
<1>3. n \in Nat /\ Len(requests') = n + 1 /\ requests'[n + 1] = r
      /\ \A i \in 1 .. n : requests'[i] = requests[i]
  BY <1>1 DEF TypeOK
<1>4. Now' = Now /\ Now \in Nat /\ Now >= 1 /\ Len(results) \in Nat
  BY <1>1, OwnerType DEF Now
<1>5. \A i \in 1 .. n + 1 : i \in 1 .. n \/ i = n + 1
  BY <1>3
<1>6. \A i \in 1 .. n :
          requests[i].call = Now /\ requests[i].kind = "text" => MayRepeat(requests[i].answer)
  BY <1>1 DEF QuietInv, MaySendAgain, Quiet
<1>7. call'.outcome = call.outcome /\ call' # None
      /\ \/ call'.step = "raised"
         \/ call'.step = "acquire" /\ Meaning(a) = "busy"
         \/ call'.step = "answered" /\ Meaning(a) = "busy" /\ call'.state = "FAILED"
         \/ /\ call'.step = "answered" /\ call'.state = Meaning(a)
            /\ Meaning(a) \in {"UNKNOWN", "DELIVERED", "SENT", "FAILED"}
  <2>1. AnsweredCall(a)
    BY SendTextSplits
  <2>2. call' \in Calls /\ call'.outcome = call.outcome
    BY <1>1, <2>1, AnsweredCallType
  <2>3. call \in Calls /\ CategoryOf(a) \in Categories
    BY <1>1, CallType, MeaningType
  <2> QED BY <2>1, <2>2, <2>3, NoneAssumption DEF AnsweredCall, Calls
<1>8. OwnerInv'
  <2> SUFFICES ASSUME NEW i \in 1 .. n + 1
               PROVE  /\ requests'[i].call \in 1 .. Now
                      /\ \A j \in i .. n + 1 : requests'[i].call <= requests'[j].call
                      /\ requests'[i].call = Now => requests'[i].id = call.outcome.id
    BY <1>3, <1>4, <1>7 DEF OwnerInv
  <2>1. CASE i \in 1 .. n
    <3>1. /\ requests[i].call \in 1 .. Now
          /\ requests[i].call = Now => requests[i].id = call.outcome.id
      BY <2>1 DEF OwnerInv
    <3>2. ASSUME NEW j \in i .. n + 1 PROVE requests[i].call <= requests'[j].call
      <4>1. CASE j \in i .. n
        <5>1. requests'[j] = requests[j]
          BY <1>3, <2>1, <4>1
        <5> QED BY <2>1, <4>1, <5>1 DEF OwnerInv
      <4>2. CASE j = n + 1
        BY <1>2, <1>3, <1>4, <3>1, <4>2
      <4>3. j \in i .. n \/ j = n + 1
        BY <1>3, <2>1
      <4> QED BY <4>1, <4>2, <4>3
    <3> QED BY <1>3, <2>1, <3>1, <3>2
  <2>2. CASE i = n + 1
    <3>1. \A j \in i .. n + 1 : j = i
      BY <1>3, <2>2
    <3> QED BY <1>2, <1>3, <1>4, <2>2, <3>1
  <2> QED BY <1>5, <2>1, <2>2
<1>9. QuietInv'
  <2> SUFFICES ASSUME MaySendAgain', NEW i \in 1 .. n + 1,
                      requests'[i].call = Now, requests'[i].kind = "text"
               PROVE  MayRepeat(requests'[i].answer)
    BY <1>3, <1>4 DEF QuietInv
  <2>1. CASE i = n + 1
    <3>1. Meaning(a) \in {"busy", "FAILED"}
      BY <1>7 DEF MaySendAgain, Quiet
    <3> QED BY <1>2, <1>3, <2>1, <3>1, MeaningTells
  <2> QED BY <1>3, <1>5, <1>6, <2>1
<1>10. TakenInv'
  <2> SUFFICES ASSUME setup.deduplicate PROVE TakenInv'
    BY <1>1 DEF TakenInv
  <2>1. call.outcome.id \notin registry
    BY <1>1 DEF TakenInv
  <2>2. ASSUME NEW i \in 1 .. n + 1, requests'[i].kind = "text", Accepts(requests'[i].answer)
        PROVE  IF requests'[i].call = Now THEN Settled'
               ELSE results[requests'[i].call].state = "raised" \/ requests'[i].id \in registry
    <3>1. CASE i = n + 1
      <4>1. Meaning(a) \in {"DELIVERED", "SENT"}
        BY <1>2, <1>3, <2>2, <3>1, MeaningTells
      <4>2. requests'[i].call = Now
        BY <1>2, <1>3, <3>1
      <4> QED BY <1>7, <4>1, <4>2 DEF Settled
    <3>2. CASE i \in 1 .. n
      <4>1. requests'[i] = requests[i]
        BY <1>3, <3>2
      <4>2. requests[i].call # Now
        BY <1>6, <2>2, <3>2, <4>1 DEF MayRepeat
      <4> QED BY <2>2, <3>2, <4>1, <4>2 DEF TakenInv
    <3> QED BY <1>5, <3>1, <3>2
  <2> QED BY <1>1, <1>3, <1>4, <1>7, <2>1, <2>2 DEF TakenInv, Settled
<1>11. ASSUME NEW i \in 1 .. n + 1, NEW j \in 1 .. n + 1, i < j
       PROVE  i \in 1 .. n /\ requests'[i] = requests[i]
              /\ (j = n + 1 \/ (j \in 1 .. n /\ requests'[j] = requests[j]))
  BY <1>3, <1>11
<1>12. NoSilentRetry'
  <2> SUFFICES ASSUME NEW i \in 1 .. n + 1, NEW j \in 1 .. n + 1, i < j,
                      requests'[i].call = requests'[j].call,
                      requests'[i].kind = "text", requests'[j].kind = "text"
               PROVE  /\ ~ Accepts(requests'[i].answer)
                      /\ requests'[i].answer.kind \notin {"timeout", "broken"}
    BY <1>3 DEF NoSilentRetry, IsText
  <2>1. CASE j = n + 1
    <3>1. requests[i].call = Now /\ requests[i].kind = "text"
      BY <1>2, <1>3, <1>11, <2>1
    <3> QED BY <1>6, <1>11, <3>1 DEF MayRepeat
  <2>2. CASE j \in 1 .. n /\ requests'[j] = requests[j]
    BY <1>11, <2>2 DEF SettledOnce, NoSilentRetry, IsText
  <2> QED BY <1>11, <2>1, <2>2
<1>13. AcceptedIsFinal'
  <2> SUFFICES ASSUME setup.deduplicate, NEW i \in 1 .. n + 1, NEW j \in 1 .. n + 1, i < j,
                      requests'[i].kind = "text", requests'[j].kind = "text",
                      requests'[j].id = requests'[i].id, Accepts(requests'[i].answer)
               PROVE  results[requests'[i].call].state = "raised"
    BY <1>1, <1>3 DEF AcceptedIsFinal, IsText
  <2>1. CASE j = n + 1
    <3>1. requests[i].id = call.outcome.id
      BY <1>2, <1>3, <1>11, <2>1
    <3>2. requests[i].call # Now
      BY <1>6, <1>11 DEF MayRepeat
    <3> QED BY <1>1, <1>11, <3>1, <3>2 DEF TakenInv
  <2>2. CASE j \in 1 .. n /\ requests'[j] = requests[j]
    BY <1>11, <2>2 DEF SettledOnce, AcceptedIsFinal, IsText
  <2> QED BY <1>11, <2>1, <2>2
<1> QED BY <1>8, <1>9, <1>10, <1>12, <1>13 DEF SettledOnce

\* Every step settles a message at most once.
LEMMA SettledStep ==
    ASSUME TypeOK, TypeOK', BoundInv, OwnerInv, QuietInv, TakenInv, SettledOnce, [Next]_delivery
    PROVE  OwnerInv' /\ QuietInv' /\ TakenInv' /\ SettledOnce'
<1> DEFINE Goal == OwnerInv' /\ QuietInv' /\ TakenInv' /\ SettledOnce'
<1>1. ASSUME UNCHANGED <<setup, registry, results, requests, call>> PROVE Goal
  <2>1. OwnerInv' /\ QuietInv'
    BY <1>1 DEF OwnerInv, QuietInv, MaySendAgain, Now
  <2>2. TakenInv'
    BY <1>1 DEF TakenInv, Now
  <2>3. SettledOnce'
    BY <1>1 DEF SettledOnce, AcceptedIsFinal, NoSilentRetry, IsText
  <2> QED BY <2>1, <2>2, <2>3
<1>2. ASSUME call # None, NEW step \in {"backoff", "request", "chart", "raised"},
             call' = [call EXCEPT !.step = step], UNCHANGED <<setup, registry, results>>,
             SameTexts, MaySendAgain' => MaySendAgain, Settled => Settled'
      PROVE  Goal
  <2>1. call'.outcome = call.outcome /\ call' \in Calls
    BY <1>2, CallType DEF Calls
  <2> QED BY <1>2, <2>1, NoneAssumption, WithinCall
<1>3. ASSUME NEW f \in Frames, NEW d \in Destinations, NEW w \in Drawings, Begin(f, d, w)
      PROVE  Goal
  <2> DEFINE outcome == Outcome(f, d, w, setup.show)
             r(state, category) ==
                 [id |-> outcome.id, state |-> state, category |-> category,
                  attempt |-> 1, payload |-> FALSE, asked |-> <<>>]
             new == [step |-> "attempt", outcome |-> outcome, attempt |-> 1, try |-> 0,
                     state |-> "FAILED", category |-> "none", asked |-> <<>>]
  <2>1. /\ call = None /\ UNCHANGED <<setup, registry, requests>>
        /\ \/ results' = Append(results, r("NOT_ATTEMPTED", "config")) /\ call' = None
           \/ results' = Append(results, r("SKIPPED_DUPLICATE", "none")) /\ call' = None
           \/ /\ call' = new /\ results' = results
              /\ setup.deduplicate => outcome.id \notin registry
    BY <1>3 DEF Begin
  <2>2. outcome \in Projections
    BY <1>3 DEF Begin, Projections, TypeOK
  <2> HIDE DEF outcome
  <2>3. SameTexts
    BY <2>1 DEF SameTexts
  <2>4. CASE call' = None
    <3>1. PICK q : results' = Append(results, q)
      <4>1. new # None
        <5>1. new \in Calls
          BY <2>2, Quantities DEF Calls, States, Categories
        <5> QED BY <5>1, NoneAssumption
      <4> QED BY <2>1, <2>4, <4>1
    <3> QED BY <2>1, <2>3, <2>4, <3>1, AfterCall
  <2>5. CASE call' = new /\ results' = results /\ (setup.deduplicate => outcome.id \notin registry)
    <3>1. call'.step = "attempt" /\ call'.outcome = outcome /\ Now' = Now
      BY <2>5 DEF Now
    <3>2. \A i \in 1 .. Len(requests) : requests[i].call # Now
      BY <2>1 DEF OwnerInv
    <3>3. OwnerInv' /\ QuietInv'
      BY <2>1, <3>1, <3>2 DEF OwnerInv, QuietInv
    <3>4. TakenInv'
      BY <2>1, <2>5, <3>1, <3>2 DEF TakenInv
    <3>5. SettledOnce'
      BY <2>1, <2>5 DEF SettledOnce, AcceptedIsFinal, NoSilentRetry, IsText
    <3> QED BY <3>3, <3>4, <3>5
  <2> QED BY <2>1, <2>4, <2>5
<1>4. CASE PreFlight
  <2>1. call # None /\ call.step = "attempt" /\ UNCHANGED <<setup, requests>>
        /\ call.outcome \in Projections /\ bound = PayloadOf(call.outcome)
    BY <1>4, CallType DEF PreFlight, BoundInv
  <2>2. BridgeAccepts(bound, Attempt(call.outcome, call.attempt))
    BY <2>1, BridgeForwards
  <2>3. SameTexts /\ MaySendAgain /\ ~ Settled
    BY <2>1 DEF SameTexts, MaySendAgain, Quiet, Settled
  <2>4. CASE Conclude("DELIVERED", "none") \/ Conclude("NOT_ATTEMPTED", "config")
    BY <2>1, <2>3, <2>4, ConcludeSettles
  <2>5. CASE /\ call' = [call EXCEPT !.step = "acquire", !.try = 1]
             /\ UNCHANGED <<registry, results>>
    <3>1. call \in Calls /\ 1 \in 0 .. RetryMaxAttempts
      BY <2>1, CallType, Quantities
    <3>2. call' \in Calls /\ call'.outcome = call.outcome
      BY <2>5, <3>1 DEF Calls
    <3> QED BY <2>1, <2>3, <2>5, <3>2, NoneAssumption, WithinCall
  <2> QED BY <1>4, <2>2, <2>4, <2>5 DEF PreFlight
<1>5. CASE Acquire
  <2>1. call # None /\ call.step = "acquire" /\ UNCHANGED <<setup, requests>>
    BY <1>5 DEF Acquire
  <2>2. SameTexts /\ MaySendAgain /\ ~ Settled
    BY <2>1 DEF SameTexts, MaySendAgain, Quiet, Settled
  <2>3. CASE Conclude("FAILED", "rate_limit")
    BY <2>1, <2>2, <2>3, ConcludeSettles
  <2>4. CASE /\ call' = [call EXCEPT !.step = IF call.try > 1 THEN "backoff" ELSE "request"]
             /\ UNCHANGED <<registry, results>>
    <3>1. PICK step \in {"backoff", "request"} : call' = [call EXCEPT !.step = step]
      BY <2>4
    <3> QED BY <1>2, <2>1, <2>2, <2>4, <3>1
  <2> QED BY <1>5, <2>3, <2>4 DEF Acquire
<1>6. CASE Sleep
  <2>1. call # None /\ call.step = "backoff" /\ UNCHANGED <<setup, registry, results, requests>>
        /\ call' = [call EXCEPT !.step = "request"]
    BY <1>6 DEF Sleep
  <2>2. SameTexts /\ MaySendAgain /\ ~ Settled
    BY <2>1 DEF SameTexts, MaySendAgain, Quiet, Settled
  <2> QED BY <1>2, <2>1, <2>2
<1>7. CASE Settle
  <2>1. call # None /\ call.step = "answered" /\ UNCHANGED <<setup, requests>>
    BY <1>7 DEF Settle
  <2>2. SameTexts
    BY <2>1 DEF SameTexts
  <2>3. CASE Conclude(call.state, call.category)
    <3>1. /\ Settled => call.state \in {"DELIVERED", "SENT"}
          /\ call.state = "FAILED" => MaySendAgain
      BY <2>1 DEF Settled, MaySendAgain
    <3> QED BY <2>1, <2>2, <2>3, <3>1, ConcludeSettles
  <2>4. CASE /\ call' = [call EXCEPT !.step = "chart"] /\ UNCHANGED <<registry, results>>
    <3>1. call'.step = "chart"
      BY <2>1, <2>4, StepType
    <3>2. ~ MaySendAgain' /\ Settled'
      BY <3>1 DEF MaySendAgain, Quiet, Settled
    <3> QED BY <1>2, <2>1, <2>2, <2>4, <3>2
  <2> QED BY <1>7, <2>3, <2>4 DEF Settle
<1>8. CASE SkipChart
  <2>1. call # None /\ UNCHANGED <<setup, requests>> /\ Conclude("DELIVERED", "none")
    BY <1>8 DEF SkipChart
  <2>2. SameTexts
    BY <2>1 DEF SameTexts
  <2> QED BY <2>1, <2>2, ConcludeSettles
<1>9. ASSUME NEW a \in Answers, NEW t \in Durations, SendChart(a, t) PROVE Goal
  <2>1. /\ call # None /\ call.step = "chart" /\ setup' = setup
        /\ requests' = Append(requests, Request("chart", a))
    BY <1>9 DEF SendChart
  <2>2. SameTexts
    <3> DEFINE r == Request("chart", a)
    <3>1. r \in Requests /\ r.kind = "chart" /\ r.call = Now /\ r.id = call.outcome.id
      BY <2>1, RequestType DEF Request, Now
    <3> HIDE DEF r
    <3>2. requests' = Append(requests, r)
      BY <2>1 DEF r
    <3> QED BY <2>1, <3>1, <3>2 DEF SameTexts
  <2>3. CASE Conclude("DELIVERED", "none")
    BY <2>1, <2>2, <2>3, ConcludeSettles
  <2>4. CASE call' = [call EXCEPT !.step = "raised"] /\ UNCHANGED <<registry, results>>
    <3>1. call'.step = "raised"
      BY <2>1, <2>4, StepType
    <3>2. ~ MaySendAgain' /\ Settled'
      BY <3>1 DEF MaySendAgain, Quiet, Settled
    <3> QED BY <1>2, <2>1, <2>2, <2>4, <3>2
  <2> QED BY <1>9, <2>3, <2>4 DEF SendChart
<1>10. CASE Unwind
  <2>1. UNCHANGED <<setup, requests, registry>> /\ call' = None
        /\ results' = Append(results, Ended("raised", "none", TRUE))
    BY <1>10 DEF Unwind, Raise
  <2> DEFINE r == Ended("raised", "none", TRUE)
  <2>2. r.state = "raised"
    BY DEF Ended
  <2> HIDE DEF r
  <2>3. SameTexts /\ results' = Append(results, r)
    BY <2>1 DEF SameTexts, r
  <2> QED BY <2>1, <2>2, <2>3, AfterCall
<1>11. ASSUME NEW a \in Answers, NEW t \in Durations, SendText(a, t) PROVE Goal
  BY <1>11, TextSettles
<1>12. CASE (\E t \in Pauses : Pass(t)) \/ UNCHANGED delivery
  BY <1>1, <1>12 DEF Pass, delivery
<1> QED BY <1>3, <1>4, <1>5, <1>6, <1>7, <1>8, <1>9, <1>10, <1>11, <1>12 DEF Next

-----------------------------------------------------------------------------
(* The message.                                                            *)

\* A projection is valid and its parts carry its caption.
LEMMA ProjectionCarries ==
    ASSUME NEW o, NEW show, Projected(o, show)
    PROVE  /\ RenderedIsValid(o.rendered)
           /\ Reads(o.rendered.parts, Len(o.rendered.lines), o.rendered.lines)
           /\ show.split => \A k \in 1 .. Len(o.rendered.parts) : Sound(o.rendered.parts[k])
<1>1. PICK f \in Frames, d \in Destinations, w \in Drawings : o = Outcome(f, d, w, show)
  BY DEF Projected
<1> DEFINE message == FromSignal(f)
           chart == AttachChart(message, w)
           lines == RenderMessage(message, show, chart # None)
           parts == IF show.split THEN SplitCaption(lines, MaxCaptionLength) ELSE OnePart(lines)
           rendered == Assemble(message, chart, show)
<1>2. rendered = [signal |-> message.signal, message |-> MessageId(message.signal),
                  lines |-> lines, parts |-> parts, chart |-> chart]
  BY DEF Assemble
<1>3. lines \in Seq(Lines) /\ lines # <<>>
  <2>1. HasEvidence(message)
    BY FramesAssumption DEF FromSignal, HasEvidence
  <2> HIDE DEF message, chart
  <2> QED BY <2>1, CaptionType
<1>4. chart # None => chart.signal = message.signal
  <2> HIDE DEF message
  <2> QED BY DEF AttachChart
<1> HIDE DEF message, chart, lines
<1>5. /\ Reads(parts, Len(lines), lines)
      /\ \A k \in 1 .. Len(parts) : parts[k] # <<>>
      /\ show.split => \A k \in 1 .. Len(parts) : Sound(parts[k])
  <2>1. CASE show.split
    <3>1. parts = SplitCaption(lines, MaxCaptionLength)
      BY <2>1
    <3> HIDE DEF parts
    <3>2. Reads(parts, Len(lines), lines) /\ \A k \in 1 .. Len(parts) : Sound(parts[k])
      BY <3>1, <1>3, SplitReads
    <3> QED BY <3>2 DEF Sound
  <2>2. CASE ~ show.split
    <3>1. parts = OnePart(lines)
      BY <2>2
    <3> HIDE DEF parts
    <3>2. /\ Reads(parts, Len(lines), lines) /\ Len(parts) = 1 /\ parts[1] # <<>>
      BY <3>1, <1>3, OneRead
    <3> QED BY <2>2, <3>2
  <2> QED BY <2>1, <2>2
<1> HIDE DEF parts, rendered
<1>6. RenderedIsValid(rendered)
  <2>1. parts # <<>>
    BY <1>5 DEF Reads
  <2> QED BY <1>2, <1>3, <1>4, <1>5, <2>1 DEF RenderedIsValid
<1>7. o.rendered = rendered
  BY <1>1 DEF Outcome, rendered, chart, message
<1> QED BY <1>2, <1>5, <1>6, <1>7

\* What a process is about to send is the message of its call.
LEMMA CallCarries == TypeOK /\ BoundInv => CallCarriesItsMessage
<1> SUFFICES ASSUME TypeOK, BoundInv PROVE CallCarriesItsMessage
  OBVIOUS
<1>1. CASE call = None
  BY <1>1 DEF BoundInv, CallCarriesItsMessage, BoundToItsCall, PartsCarryTheCaption
<1>2. CASE call # None
  <2> DEFINE o == call.outcome
  <2>1. /\ o \in Projections /\ bound = PayloadOf(o) /\ Projected(o, setup.show)
    BY <1>2, CallType DEF BoundInv
  <2> HIDE DEF o
  <2>2. /\ RenderedIsValid(o.rendered)
        /\ Reads(o.rendered.parts, Len(o.rendered.lines), o.rendered.lines)
        /\ setup.show.split =>
              \A k \in 1 .. Len(o.rendered.parts) : Sound(o.rendered.parts[k])
    BY <2>1, ProjectionCarries
  <2>3. OutcomeIsValid(o)
    BY <2>1, <2>2, ProjectionType DEF OutcomeIsValid, States
  <2>4. PayloadIsValid(bound)
    BY <2>1, ProjectionType DEF PayloadIsValid, PayloadOf
  <2>5. BridgeAccepts(bound, Attempt(o, call.attempt))
    BY <2>1, BridgeForwards
  <2>6. BoundToItsCall
    BY <1>2, <2>3, <2>4, <2>5 DEF BoundToItsCall, o
  <2>7. PartsCarryTheCaption
    BY <2>2 DEF PartsCarryTheCaption, Reads, Sound, o
  <2> QED BY <2>6, <2>7 DEF CallCarriesItsMessage
<1> QED BY <1>1, <1>2

-----------------------------------------------------------------------------
(* The theorems.                                                           *)

\* A process starts with nothing sent and nothing reported.
LEMMA InitInv == Init => IInv
<1> SUFFICES ASSUME Init PROVE IInv
  OBVIOUS
<1>1. TypeOK
  BY InitType
<1>2. BoundInv /\ AskedInv /\ RegistryInv /\ QuietInv
  BY DEF Init, BoundInv, AskedInv, RegistryInv, QuietInv, MaySendAgain
<1>3. Len(requests) = 0 /\ Len(results) = 0
  BY DEF Init
<1>4. \A i \in 1 .. Len(requests) : FALSE
  BY <1>3
<1>5. BucketInv /\ RequestRateIsBounded /\ OwnerInv /\ SettledOnce
  BY <1>4 DEF BucketInv, RequestRateIsBounded, OwnerInv, SettledOnce, AcceptedIsFinal,
              NoSilentRetry
<1>6. TakenInv
  BY <1>4 DEF Init, TakenInv
<1>7. ReceiptTellsTheTruth
  BY <1>3 DEF ReceiptTellsTheTruth
<1> QED BY <1>1, <1>2, <1>5, <1>6, <1>7 DEF IInv

\* Every step keeps the types of the variables.
LEMMA TypeStep == TypeOK /\ BoundInv /\ [Next]_delivery => TypeOK'
BY BeginType, PreFlightType, AcquireStepType, SleepType, SendTextType, SettleType,
   SkipChartType, SendChartType, UnwindType, PassType, StutterType DEF Next

\* The inductive invariant of the delivery stack.
LEMMA StepInv == IInv /\ [Next]_delivery => IInv'
<1> SUFFICES ASSUME IInv, [Next]_delivery PROVE IInv'
  OBVIOUS
<1>1. TypeOK'
  BY TypeStep DEF IInv
<1>2. BoundInv'
  BY <1>1, BoundStep DEF IInv
<1>3. BucketInv' /\ RequestRateIsBounded'
  BY <1>1, BucketStep DEF IInv
<1>4. ReceiptTellsTheTruth' /\ RegistryInv' /\ AskedInv'
  BY <1>1, ReceiptStep DEF IInv
<1>5. OwnerInv' /\ QuietInv' /\ TakenInv' /\ SettledOnce'
  BY <1>1, SettledStep DEF IInv
<1> QED BY <1>1, <1>2, <1>3, <1>4, <1>5 DEF IInv

\* Every reachable state of the driver satisfies the inductive invariant.
THEOREM DeliveryInvariant == Spec => []IInv
BY InitInv, StepInv, PTL DEF Spec

\* Every variable keeps its type (the records of DeliveryCoordinator, TelegramRateLimiter,
\* DeliveryRegistry and TelegramDeliveryCounters).
THEOREM DeliveryTypes == Spec => []TypeOK
<1>1. IInv => TypeOK
  BY DEF IInv
<1> QED BY <1>1, DeliveryInvariant, PTL

\* A receipt never claims more, or less, than the answers of the network said
\* (TelegramSink.deliver_payload, deliver_message, DeliveryRegistry).
THEOREM ReceiptsTellTheTruth == Spec => []ReceiptTellsTheTruth
<1>1. IInv => ReceiptTellsTheTruth
  BY DEF IInv
<1> QED BY <1>1, DeliveryInvariant, PTL

\* An accepted text is final for the process, and an ambiguous one for its call
\* (DeliveryRegistry, deliver_message, TelegramSink._send_text).
THEOREM MessagesSettleOnce == Spec => []SettledOnce
<1>1. IInv => SettledOnce
  BY DEF IInv
<1> QED BY <1>1, DeliveryInvariant, PTL

\* Whatever the retries, attempts and charts, requests stay within a full bucket and its
\* refill (TelegramRateLimiter.try_acquire).
THEOREM RequestsAreRationed == Spec => []RequestRateIsBounded
<1>1. IInv => RequestRateIsBounded
  BY DEF IInv
<1> QED BY <1>1, DeliveryInvariant, PTL

\* A payload is bound exactly while its call runs, every constructor on the way accepts it,
\* and the parts of its caption obey the presentation limit and lose, tear or reorder nothing
\* (TelegramPayloadBridge, DeliveryOutcome, TransportPayload, split_caption).
THEOREM MessagesAreCarriedWhole == Spec => []CallCarriesItsMessage
<1>1. IInv => CallCarriesItsMessage
  BY CallCarries DEF IInv
<1> QED BY <1>1, DeliveryInvariant, PTL

=============================================================================
