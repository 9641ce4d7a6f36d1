----------------------------- MODULE BencodeFile -----------------------------
(***************************************************************************)
(* The torrent file a download answers with: parsed and encoded again with *)
(* its dictionaries' keys sorted, whatever the tracker sent.  A file is a  *)
(* sequence of tokens, each a head or a tail of a bencoded value:          *)
(*                                                                         *)
(*   Opening(k)   the "l" or "d" that opens a list or a dictionary;        *)
(*   Ending       the "e" that closes it;                                  *)
(*   Integer(..)  a whole "i...e", its digits as written;                  *)
(*   Text(..)     a whole string, with the zeros before its length;        *)
(*   Cut          a string or an integer longer than what is left;         *)
(*   Junk         a byte that starts no value.                             *)
(***************************************************************************)
EXTENDS Integers, Sequences, SequencesExt, FiniteSetsExt

CONSTANTS
  Bodies,            \* the token sequences a tracker may answer with
  MaxDepth,          \* maxBencodeDepth
  MaxIntegerDigits,  \* maxBencodeIntegerDigits
  MaxInteger,        \* the largest int64
  MaxLengthDigits    \* maxBencodeLengthDigits

ASSUME BencodeAssumption ==
  /\ MaxDepth \in Nat /\ MaxIntegerDigits \in Nat /\ MaxInteger \in Nat
  /\ MaxLengthDigits \in Nat

VARIABLES body, torrent, isRefused, times

bencodeVars == <<body, torrent, isRefused, times>>

Opening(kind) == [token |-> kind]
Ending        == [token |-> "e"]
Cut           == [token |-> "cut"]
Junk          == [token |-> "junk"]
Integer(isNegative, digits) ==
  [token |-> "integer", isNegative |-> isNegative, digits |-> digits]
Text(bytes, zeros) == [token |-> "text", bytes |-> bytes, zeros |-> zeros]

IsText(token)    == token.token = "text"
IsOpening(token) == token.token \in {"l", "d"}

BencodeInit == body = <<>> /\ torrent = <<>> /\ isRefused = FALSE /\ times = 0

-----------------------------------------------------------------------------
(***************************************************************************)
(* Scanning.                                                               *)
(***************************************************************************)

Refusal == 0

\* readBencodeString, of a length of one digit and the zeros before it.
ReadsText(token) == IsText(token) /\ token.zeros < MaxLengthDigits

NumberOf(digits) == FoldLeft(LAMBDA n, digit : 10 * n + digit, 0, digits)

\* checkBencodeInteger
ReadsInteger(token) ==
  LET digits == token.digits
  IN /\ digits # <<>> /\ Len(digits) <= MaxIntegerDigits
     /\ ~(digits[1] = 0 /\ Len(digits) > 1)
     /\ ~(digits[1] = 0 /\ token.isNegative)
     /\ NumberOf(digits) <= MaxInteger + (IF token.isNegative THEN 1 ELSE 0)

RECURSIVE ScanValue(_, _, _), ScanContainer(_, _, _, _)

\* scanBencode: where the value at pos ends, or Refusal.
ScanValue(data, pos, depth) ==
  IF pos > Len(data) THEN Refusal
  ELSE LET token == data[pos]
       IN CASE token.token = "integer" -> IF ReadsInteger(token) THEN pos + 1 ELSE Refusal
            [] token.token = "text"    -> IF ReadsText(token) THEN pos + 1 ELSE Refusal
            [] IsOpening(token)        ->
                 IF depth >= MaxDepth THEN Refusal
                 ELSE ScanContainer(data, pos + 1, depth,
                                    [isDictionary |-> token.token = "d", keys |-> {}, isTwice |-> FALSE])
            [] OTHER                   -> Refusal

\* scanBencodeContainer, of the entries from pos on; "seen" holds the keys before.
ScanContainer(data, pos, depth, seen) ==
  IF pos > Len(data) THEN Refusal
  ELSE IF data[pos] = Ending THEN IF seen.isTwice THEN Refusal ELSE pos + 1
  ELSE IF seen.isDictionary /\ ~ReadsText(data[pos]) THEN Refusal
  ELSE LET value == IF seen.isDictionary THEN pos + 1 ELSE pos
           end   == ScanValue(data, value, depth + 1)
           now   == IF ~seen.isDictionary THEN seen
                    ELSE [seen EXCEPT !.keys = @ \union {data[pos].bytes},
                                      !.isTwice = @ \/ data[pos].bytes \in seen.keys]
       IN IF end = Refusal THEN Refusal ELSE ScanContainer(data, end, depth, now)

-----------------------------------------------------------------------------
(***************************************************************************)
(* Encoding again.                                                         *)
(***************************************************************************)

RECURSIVE Encoded(_, _), EncodedItems(_, _), EntriesFrom(_, _)

\* appendBencodeString
Plain(token) == Text(token.bytes, 0)

\* EntriesFrom of the dictionary whose next key is at pos: each key's and value's place.
EntriesFrom(data, pos) ==
  IF data[pos] = Ending THEN {}
  ELSE {[key |-> pos, value |-> pos + 1]} \union EntriesFrom(data, ScanValue(data, pos + 1, 0))

\* Variant: the entries in the order the file has them.
AsFound(data, entries) == SetToSortSeq(entries, LAMBDA a, b : a.key < b.key)

Sorted(data, entries) ==
  SetToSortSeq(entries, LAMBDA a, b : data[a.key].bytes < data[b.key].bytes)

EncodedItems(data, pos) ==
  IF data[pos] = Ending THEN <<Ending>>
  ELSE Encoded(data, pos) \o EncodedItems(data, ScanValue(data, pos, 0))

\* appendBencode
Encoded(data, pos) ==
  CASE data[pos].token = "integer" -> <<data[pos]>>
    [] data[pos].token = "text"    -> <<Plain(data[pos])>>
    [] data[pos].token = "l"       -> <<Opening("l")>> \o EncodedItems(data, pos + 1)
    [] data[pos].token = "d"       ->
         FoldLeft(LAMBDA out, entry : out \o <<Plain(data[entry.key])>> \o Encoded(data, entry.value),
                  <<Opening("d")>>, Sorted(data, EntriesFrom(data, pos + 1)))
           \o <<Ending>>

\* canonicalTorrent refuses.
IsNoTorrent(data) ==
  data = <<>> \/ data[1] # Opening("d") \/ ScanValue(data, 1, 0) = Refusal

-----------------------------------------------------------------------------
(***************************************************************************)
(* A tracker's answer, and what is served of it; the next Jacklet or       *)
(* manager that reads the answer may encode it again.                      *)
(***************************************************************************)

Canonical(data) ==
  /\ times' = times + 1
  /\ IF IsNoTorrent(data) THEN isRefused' = TRUE /\ torrent' = <<>>
     ELSE isRefused' = FALSE /\ torrent' = Encoded(data, 1)

Receive == times = 0 /\ \E data \in Bodies : body' = data /\ Canonical(data)

ReadAgain == times = 1 /\ ~isRefused /\ UNCHANGED body /\ Canonical(torrent)

BencodeNext == Receive \/ ReadAgain

-----------------------------------------------------------------------------
(***************************************************************************)
(* What a file says, read from left to right with a stack of the open      *)
(* lists and dictionaries, and the properties.                             *)
(***************************************************************************)

\* An open container: the key waiting for its value, or how many items it has.
Frame(kind, path) == [kind |-> kind, path |-> path, keys |-> <<>>, isWaiting |-> FALSE, items |-> 0]

Unread == [stack |-> <<>>, said |-> {}, isOrdered |-> TRUE, isOver |-> FALSE, isWrong |-> FALSE]

\* Where the next value belongs: below the last key, or as the next item.
Below(frame) ==
  Append(frame.path, IF frame.kind = "d" THEN Last(frame.keys) ELSE frame.items)

Placed(frame) == [frame EXCEPT !.isWaiting = FALSE, !.items = @ + 1]

TakeToken(so, token) ==
  LET top   == Last(so.stack)
      under == Front(so.stack)
      wrong == [so EXCEPT !.isWrong = TRUE]
      takesKey == so.stack # <<>> /\ top.kind = "d" /\ ~top.isWaiting
  IN CASE so.isOver \/ so.isWrong -> so
       [] ~so.isOver /\ ~so.isWrong /\ so.stack = <<>> ->
            IF token = Opening("d") /\ MaxDepth > 0
            THEN [so EXCEPT !.stack = <<Frame("d", <<>>)>>] ELSE wrong
       [] ~so.isOver /\ ~so.isWrong /\ so.stack # <<>> ->
            CASE token = Ending ->
                   IF top.isWaiting \/ \E i, j \in DOMAIN top.keys : i # j /\ top.keys[i] = top.keys[j]
                   THEN wrong
                   ELSE [so EXCEPT !.stack = under, !.isOver = under = <<>>]
              [] token # Ending /\ takesKey ->
                   IF ~ReadsText(token) THEN wrong
                   ELSE [so EXCEPT !.stack = Append(under, [top EXCEPT !.keys = Append(@, token.bytes),
                                                                       !.isWaiting = TRUE]),
                                   !.isOrdered = @ /\ token.zeros = 0
                                                   /\ \A i \in DOMAIN top.keys : top.keys[i] < token.bytes]
              [] token # Ending /\ ~takesKey /\ IsOpening(token) ->
                   IF Len(so.stack) >= MaxDepth THEN wrong
                   ELSE [so EXCEPT !.stack = under \o <<Placed(top), Frame(token.token, Below(top))>>,
                                   !.said = @ \union {<<Below(top), token>>}]
              [] token # Ending /\ ~takesKey /\ token.token = "integer" ->
                   IF ~ReadsInteger(token) THEN wrong
                   ELSE [so EXCEPT !.stack = Append(under, Placed(top)),
                                   !.said = @ \union {<<Below(top), token>>}]
              [] token # Ending /\ ~takesKey /\ token.token = "text" ->
                   IF ~ReadsText(token) THEN wrong
                   ELSE [so EXCEPT !.stack = Append(under, Placed(top)),
                                   !.isOrdered = @ /\ token.zeros = 0,
                                   !.said = @ \union {<<Below(top), Plain(token)>>}]
              [] OTHER -> wrong

Reading(data) == FoldLeft(TakeToken, Unread, data)

\* A download is refused exactly when the answer does not begin with a whole,
\* well-formed file; what is served says all the tracker's file says and no more,
\* at any nesting, its keys in order and none twice, and encoding it again
\* changes nothing.
SaysTheSame ==
  times > 0 =>
    LET sent   == Reading(body)
        served == Reading(torrent)
    IN /\ isRefused <=> sent.isWrong \/ ~sent.isOver
       /\ ~isRefused => /\ served.isOver /\ ~served.isWrong /\ served.isOrdered
                        /\ served.said = sent.said
       /\ ~isRefused /\ times = 2 => torrent = Encoded(torrent, 1)

=============================================================================
