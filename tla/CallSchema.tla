----------------------------- MODULE CallSchema -----------------------------
(***************************************************************************)
(* How ExecutionWindow::start_new_run builds a tool's command line from    *)
(* the request's call schema: ParMap splits the schema at commas           *)
(* (bbb::split_by), reads each piece as a kind letter and an index         *)
(* (bbb::s2u), and bbb::zip_schema appends, for table entry 0, 1, ...,     *)
(* element <<vector, index>> of <<inputs, outputNames, parameters>> until   *)
(* ParMap::mapping runs out. The report's outputNames has one name per     *)
(* 'o' character of the schema (verify passes std::count(schema, 'o')).   *)
(*                                                                         *)
(* Strings are sequences of one-character strings. The command is the     *)
(* sequence of elements appended, each named <<kind, index>>; the spaces   *)
(* between them and the trimming are left out. An index past the end of   *)
(* its vector is undefined behaviour (std::vector::operator[]), and the    *)
(* whole command is then UB.                                               *)
(*                                                                         *)
(* Each state is one request: a schema and the sizes of the input and      *)
(* parameter vectors. The properties compare the code's command with the   *)
(* expansion spec.md describes.                                            *)
(***************************************************************************)
EXTENDS Naturals, Sequences, SequencesExt

CONSTANTS
  Schemas,     \* call schemas a verify request may carry
  InputSizes,  \* possible numbers of input files
  ParamSizes,  \* possible numbers of parameters
  ULongBits    \* width of unsigned long (scaled down for TLC)

VARIABLES schema, nIn, nPar

vars == <<schema, nIn, nPar>>

UB == "UB"
NoNat == -1          \* an empty bbb::Maybe<Nat>
Digits == "0" :> 0 @@ "1" :> 1 @@ "2" :> 2

(* The switch on s[0] in ParMap::ParMap: inputs, outputs, parameters.    *)
Kind == "i" :> 0 @@ "o" :> 1 @@ "p" :> 2

-----------------------------------------------------------------------------
(* bbb::split_by(in, out, ","): every piece before a separator, empty      *)
(* pieces included, then the rest if it is not empty.                     *)
RECURSIVE SplitBy(_, _)
SplitBy(s, c) ==
  LET i == SelectInSeq(s, LAMBDA x : x = c)
  IN IF i > 0 THEN <<SubSeq(s, 1, i - 1)>> \o SplitBy(SubSeq(s, i + 1, Len(s)), c)
     ELSE IF s = <<>> THEN <<>> ELSE <<s>>

(* std::strtoul(s, &c, 10) over the leading decimal digits, saturating at *)
(* ULONG_MAX; no digits gives 0.                                          *)
RECURSIVE StrToUL(_, _)
StrToUL(s, acc) ==
  IF s = <<>> \/ Head(s) \notin DOMAIN Digits THEN acc
  ELSE StrToUL(Tail(s), IF 10 * acc + Digits[Head(s)] >= 2^ULongBits
                          THEN 2^ULongBits - 1
                          ELSE 10 * acc + Digits[Head(s)])

(* Mutant: s2u without its special case for the string "0".             *)
S2UNoZero(s) ==
  CASE Len(s) = 0                      -> NoNat
    [] StrToUL(s, 0) = 0               -> NoNat
    [] OTHER                           -> StrToUL(s, 0)

(* bbb::s2u: empty is nothing; "0" is 0; otherwise strtoul, where a       *)
(* result of 0 counts as failure.                                          *)
S2U(s) ==
  CASE Len(s) = 0                      -> NoNat
    [] Len(s) = 1 /\ s[1] = "0"        -> 0
    [] StrToUL(s, 0) = 0               -> NoNat
    [] OTHER                           -> StrToUL(s, 0)

(* ParMap::ParMap: pieces of length <= 1 and pieces whose index s2u       *)
(* rejects are skipped, as are kinds other than i, o and p.               *)
ParMap(s) ==
  LET pieces == SplitBy(s, ",")
      ok(q)  == Len(q) > 1 /\ S2U(Tail(q)) # NoNat /\ q[1] \in DOMAIN Kind
  IN [j \in 1..Len(SelectSeq(pieces, ok)) |->
        LET q == SelectSeq(pieces, ok)[j] IN <<Kind[q[1]], S2U(Tail(q))>>]

(* ParMap::mapping(index): table[index] while index < table.size().      *)
Mapping(table, i) == IF Len(table) > i THEN table[i + 1] ELSE NoNat

(* verify: Archive::checkin_report(..., std::count(schema, 'o')).         *)
OutputCount(s) == Len(SelectSeq(s, LAMBDA c : c = "o"))

(* bbb::zip_schema over <<iFiles, outputNames, parameters>>: append       *)
(* in[first][second] for index 0, 1, ... until mapping gives nothing.     *)
ZipSchema(table, sizes) ==
  IF \E i \in 0..Len(table) - 1 :
       Mapping(table, i)[2] >= sizes[Mapping(table, i)[1] + 1]
    THEN UB
    ELSE [i \in 1..Len(table) |-> Mapping(table, i - 1)]

(* The command start_new_run builds for this request.                     *)
Command == ZipSchema(ParMap(schema), <<nIn, OutputCount(schema), nPar>>)

-----------------------------------------------------------------------------
(* spec.md 4.4, "Call schema": a comma-separated list of tokens iN, oN,   *)
(* pN with N a zero-based index; each token appends the N-th element of   *)
(* its vector, and a token whose index is out of range is skipped.        *)
RefKind == [c \in {"i", "o", "p"} |-> IF c = "i" THEN 0 ELSE IF c = "o" THEN 1 ELSE 2]
RefDigit == [c \in {"0", "1", "2"} |-> IF c = "0" THEN 0 ELSE IF c = "1" THEN 1 ELSE 2]
IsNumeral(q) == q # <<>> /\ \A i \in 1..Len(q) : q[i] \in DOMAIN RefDigit
Numeral(q) == FoldLeft(LAMBDA acc, c : 10 * acc + RefDigit[c], 0, q)
IsToken(q) == Len(q) > 1 /\ q[1] \in DOMAIN RefKind /\ IsNumeral(Tail(q))

RefExpansion(s, sizes) ==
  LET toks == SelectSeq(SplitBy(s, ","), IsToken)
      elem(q) == <<RefKind[q[1]], Numeral(Tail(q))>>
      inRange(q) == Numeral(Tail(q)) < sizes[RefKind[q[1]] + 1]
  IN [j \in 1..Len(SelectSeq(toks, inRange)) |-> elem(SelectSeq(toks, inRange)[j])]

(* A schema as clients are told to write it: tokens only, each index a    *)
(* numeral without leading zeros.                                         *)
WellFormed(s) ==
  \A q \in ToSet(SplitBy(s, ",")) :
    IsToken(q) /\ (Len(q) > 2 => q[2] # "0")

-----------------------------------------------------------------------------
Init == /\ schema \in Schemas
        /\ nIn \in InputSizes
        /\ nPar \in ParamSizes

Next == UNCHANGED vars

Spec == Init /\ [][Next]_vars

(* For a well-formed schema whose every token names an existing element,  *)
(* the command start_new_run builds (ParMap, s2u, zip_schema and the      *)
(* output count taken from the schema) is the expansion the spec          *)
(* describes, in the schema's order.                                      *)
WellFormedExpansionMatches ==
  LET sizes == <<nIn, OutputCount(schema), nPar>>
  IN WellFormed(schema) /\ Len(RefExpansion(schema, sizes))
                            = Len(SelectSeq(SplitBy(schema, ","), IsToken))
       => Command = RefExpansion(schema, sizes)

(* spec.md 4.4: an out-of-range index in the schema fails silently. The  *)
(* command start_new_run builds is defined for every schema a verify      *)
(* request may carry (its TODO: "otherwise risking segfault").            *)
ExpansionDefined == Command # UB

=============================================================================
