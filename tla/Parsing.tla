------------------------------- MODULE Parsing --------------------------------
(***************************************************************************)
(* The daemon's parsers of text, as operators over the input they read,    *)
(* each beside a reference definition of what that input means:            *)
(*                                                                         *)
(*   sizes      config.ParseSize and HumanSize.UnmarshalYAML               *)
(*   lists      config.splitCSV                                            *)
(*   domstats   libvirtx.parseDomstatsBlocks and its insertion sort        *)
(*   reports    lvm.parseVGsJSON, parseLVsJSON and parseUintField          *)
(*                                                                         *)
(* The only behaviour is an input of one kind growing symbol by symbol, so *)
(* the invariants hold of every input up to the bound.  Sizes and lists    *)
(* are sequences of characters.  A line of domstats and a row of a report  *)
(* are records: their lexing is strings.Split and encoding/json.           *)
(***************************************************************************)
EXTENDS Integers, Sequences, SequencesExt

CONSTANTS
    Symbols,    \* Symbols[k]: what an input of kind k is made of
    Bound,      \* Bound[k]: the longest input of kind k
    UnitBits,   \* a KiB is 2^UnitBits bytes; 10 in the code
    Mantissa,   \* bits of a float's mantissa; 53 in the code
    WordBits    \* bits of an unsigned integer; 64 in the code

ASSUME ParsingAssumption ==
    /\ DOMAIN Bound = DOMAIN Symbols
    /\ UnitBits \in Nat \ {0} /\ Mantissa \in Nat \ {0} /\ WordBits \in Nat \ {0}

VARIABLES kind, input

Init == kind \in DOMAIN Symbols /\ input = <<>>

Grow ==
    /\ Len(input) < Bound[kind]
    /\ \E s \in Symbols[kind] : input' = Append(input, s)
    /\ UNCHANGED kind

Spec == Init /\ [][Grow]_<<kind, input>>

Refused == [ok |-> FALSE]
Read(v) == [ok |-> TRUE, value |-> v]

\* strings.TrimSpace
TrimSpace(s) ==
    LET ink == {i \in DOMAIN s : s[i] # " "}
    IN  IF ink = {} THEN <<>> ELSE SubSeq(s, Min(ink), Max(ink))

-----------------------------------------------------------------------------
(* Sizes.                                                                   *)

Digit == [c \in {"0", "1", "9"} |->
            CASE c = "0" -> 0 [] c = "1" -> 1 [] c = "9" -> 9]

\* the number written by the digits of s
Decimal(s) == FoldLeft(LAMBDA n, c : IF c = "." THEN n ELSE 10 * n + Digit[c], 0, s)

\* enough for the numbers the bound on the input allows
MaxExponent == 12

\* The float nearest to n / d, as a fraction k * 2^e with k of Mantissa bits;
\* ties go to the even k.
Float(n, d) ==
    LET Scaled(e) == IF e < 0 THEN <<n * 2^(-e), d>> ELSE <<n, d * 2^e>>
        Quotient(e) == Scaled(e)[1] \div Scaled(e)[2]
        \* the first exponent, from above, that gives all the bits
        e == MaxExponent - (CHOOSE x \in 0..(2 * MaxExponent) :
                 /\ Quotient(MaxExponent - x) >= 2^(Mantissa - 1)
                 /\ Quotient(MaxExponent - x) < 2^Mantissa)
        rest == 2 * (Scaled(e)[1] % Scaled(e)[2]) - Scaled(e)[2]
        up == rest > 0 \/ (rest = 0 /\ Quotient(e) % 2 = 1)
    IN  IF n = 0 THEN [k |-> 0, e |-> 0]
        ELSE [k |-> IF up THEN Quotient(e) + 1 ELSE Quotient(e), e |-> e]

\* strconv.ParseFloat on digits and dots
ParseFloat(s) ==
    LET dots == {i \in DOMAIN s : s[i] = "."}
    IN  IF Cardinality(dots) > 1 \/ Len(s) = Cardinality(dots) THEN Refused
        ELSE Read(Float(Decimal(s), IF dots = {} THEN 1 ELSE 10^(Len(s) - Max(dots))))

\* what the code multiplies by, as a power of two; the unit in upper case
UnitTable ==
    [u \in {<<>>, <<"B">>} |-> 0]
    @@ [u \in {<<"K">>, <<"K", "B">>, <<"K", "I", "B">>} |-> UnitBits]
    @@ [u \in {<<"M">>, <<"M", "B">>, <<"M", "I", "B">>} |-> 2 * UnitBits]
    @@ [u \in {<<"G">>, <<"G", "B">>, <<"G", "I", "B">>} |-> 3 * UnitBits]
    @@ [u \in {<<"T">>, <<"T", "B">>, <<"T", "I", "B">>} |-> 4 * UnitBits]

ToUpper(s) ==
    [i \in DOMAIN s |-> CASE s[i] = "i" -> "I" [] s[i] = "b" -> "B" [] OTHER -> s[i]]

\* uint64(k * 2^e): truncated.  A float of 2^WordBits or more converts to
\* what the machine gives: half the range on amd64, its end on arm64.
ToUint64(k, e) ==
    LET f == IF e >= 0 THEN k * 2^e ELSE k \div 2^(-e)
    IN  IF f < 2^WordBits THEN {f} ELSE {2^(WordBits - 1), 2^WordBits - 1}

\* MUTANT of ParseSize: the unit is not trimmed.
ParseSizeTight(in) ==
    LET s == TrimSpace(in)
        stop == Min({i \in 1..Len(s) : s[i] \notin DOMAIN Digit \cup {"."}}
                    \cup {Len(s) + 1})
        num == ParseFloat(SubSeq(s, 1, stop - 1))
        unit == ToUpper(SubSeq(s, stop, Len(s)))
    IN  IF s = <<>> \/ stop = 1 \/ ~num.ok \/ unit \notin DOMAIN UnitTable
        THEN Refused
        ELSE Read(ToUint64(num.value.k, num.value.e + UnitTable[unit]))

\* ParseSize: the number is everything up to the first character that is
\* neither digit nor dot.  The value is the set of what it may return.
ParseSize(in) ==
    LET s == TrimSpace(in)
        stop == Min({i \in 1..Len(s) : s[i] \notin DOMAIN Digit \cup {"."}}
                    \cup {Len(s) + 1})
        num == ParseFloat(SubSeq(s, 1, stop - 1))
        unit == ToUpper(TrimSpace(SubSeq(s, stop, Len(s))))
    IN  IF s = <<>> \/ stop = 1 \/ ~num.ok \/ unit \notin DOMAIN UnitTable
        THEN Refused
        ELSE Read(ToUint64(num.value.k, num.value.e + UnitTable[unit]))

\* HumanSize.UnmarshalYAML: an integer node is read as plain digits, a string
\* node as a size, any other is refused.
UnmarshalYAML(tag, text) ==
    CASE tag = "!!str" -> ParseSize(text)
      [] tag = "!!int" /\ text # <<>> /\ ToSet(text) \subseteq DOMAIN Digit
                       /\ Decimal(text) < 2^WordBits -> Read({Decimal(text)})
      [] OTHER -> Refused

\* Reference: the ways to read s as a number with an optional fraction, and
\* a unit, with spaces before, between and after.
Readings(s) ==
    {r \in [from : 1..Len(s), to : 1..Len(s)] :
        /\ r.from <= r.to
        /\ \A i \in r.from..r.to : s[i] \in DOMAIN Digit \cup {"."}
        /\ \E i \in r.from..r.to : s[i] # "."
        /\ \A i, j \in r.from..r.to : s[i] = "." /\ s[j] = "." => i = j
        /\ \A i \in 1..(r.from - 1) : s[i] = " "
        /\ TrimSpace(ToUpper(SubSeq(s, r.to + 1, Len(s)))) \in DOMAIN UnitTable}

\* "10GiB", "512MiB", "10G", "1024": a size is accepted if and only if it can
\* be read so.  What comes out is never more than the size meant, within the
\* precision of a float, and not less either unless the size does not fit a
\* word; it is exact if the number fits the mantissa.  A YAML integer comes
\* out as the same digits in a string do.
SizeMeant ==
    kind = "size" =>
        LET got == ParseSize(input) IN
        /\ got.ok <=> Readings(input) # {}
        /\ \A r \in Readings(input) :
             LET num == SubSeq(input, r.from, r.to)
                 dot == SelectInSeq(num, LAMBDA c : c = ".")
                 d == IF dot = 0 THEN 1 ELSE 10^(Len(num) - dot)
                 m == 2^UnitTable[TrimSpace(ToUpper(SubSeq(input, r.to + 1, Len(input))))]
                 n == Decimal(num) * m    \* the size is n / d bytes
             IN  \A v \in got.value :
                   /\ (v * d - n) * 2^Mantissa <= n
                   /\ n < d * 2^WordBits =>
                        /\ (n - v * d - d) * 2^Mantissa <= n
                        /\ Decimal(num) < 2^Mantissa /\ d = 1 => v = n
        /\ LET int == UnmarshalYAML("!!int", input) IN
           int.ok /\ Decimal(input) < 2^Mantissa => int = got

-----------------------------------------------------------------------------
(* Lists.                                                                   *)

\* strings.Split at the commas
Split(s) ==
    FoldLeft(LAMBDA parts, c :
               IF c = "," THEN Append(parts, <<>>)
               ELSE [parts EXCEPT ![Len(parts)] = Append(@, c)],
             <<<<>>>>, s)

\* MUTANT of splitCSV: blank parts are kept.
splitCSVBlanks(s) ==
    LET parts == Split(s) IN [i \in DOMAIN parts |-> TrimSpace(parts[i])]

splitCSV(s) ==
    LET parts == Split(s)
    IN  SelectSeq([i \in DOMAIN parts |-> TrimSpace(parts[i])],
                  LAMBDA p : p # <<>>)

\* Reference: a member of the list is a longest stretch of the input that
\* holds no comma and begins and ends with ink.
Stretches(s) ==
    {r \in (DOMAIN s) \X (DOMAIN s) :
        /\ r[1] <= r[2]
        /\ \A i \in r[1]..r[2] : s[i] # ","
        /\ s[r[1]] # " " /\ s[r[2]] # " "
        /\ \A i \in 1..(r[1] - 1) : s[i] # " " =>
              \E j \in i..(r[1] - 1) : s[j] = ","
        /\ \A i \in (r[2] + 1)..Len(s) : s[i] # " " =>
              \E j \in (r[2] + 1)..i : s[j] = ","}

\* A list of endpoints holds the non-blank parts in order, none of them
\* empty, whatever commas and blanks surround them.
ListMeant ==
    kind = "list" =>
        LET want == SetToSortSeq(Stretches(input), LAMBDA r, q : r[1] < q[1])
        IN  splitCSV(input) = [i \in DOMAIN want |->
                                 SubSeq(input, want[i][1], want[i][2])]

-----------------------------------------------------------------------------
(* virsh domstats.                                                          *)

\* the texts that are numbers
Number == [v \in {"5", "7"} |-> IF v = "5" THEN 5 ELSE 7]

\* a value that is no number counts as 0
parseUint(v) == IF v \in DOMAIN Number THEN Number[v] ELSE 0

\* a line that is not of the form block.<idx>.<key>=<val>
Ignored(line) == line.key = "none"

EmptyBlock(i) == [idx |-> i, name |-> "", allocation |-> 0, physical |-> 0]

\* MUTANT of ScanLine: every line starts the block anew.
ScanLineFresh(byIndex, line) ==
    IF Ignored(line) THEN byIndex
    ELSE LET old == EmptyBlock(line.idx)
             new == CASE line.key = "name" -> [old EXCEPT !.name = line.val]
                      [] line.key = "allocation" ->
                            [old EXCEPT !.allocation = parseUint(line.val)]
                      [] line.key = "physical" ->
                            [old EXCEPT !.physical = parseUint(line.val)]
                      [] OTHER -> old
         IN  (line.idx :> new) @@ byIndex

\* one line of the scanner's loop, on the blocks found so far
ScanLine(byIndex, line) ==
    IF Ignored(line) THEN byIndex
    ELSE LET old == IF line.idx \in DOMAIN byIndex THEN byIndex[line.idx]
                    ELSE EmptyBlock(line.idx)
             new == CASE line.key = "name" -> [old EXCEPT !.name = line.val]
                      [] line.key = "allocation" ->
                            [old EXCEPT !.allocation = parseUint(line.val)]
                      [] line.key = "physical" ->
                            [old EXCEPT !.physical = parseUint(line.val)]
                      [] OTHER -> old
         IN  (line.idx :> new) @@ byIndex

\* sortInts: each number moves left past the larger ones.
sortInts(a) ==
    FoldLeft(LAMBDA done, x :
               LET at == 1 + Cardinality({i \in DOMAIN done : done[i] <= x})
               IN  InsertAt(done, at, x), <<>>, a)

\* parseDomstatsBlocks: in order of index if they are 0, 1, 2...; otherwise
\* the indices, walked in the order the map happens to yield them, are
\* sorted.
parseDomstatsBlocks(lines, walk) ==
    LET byIndex == FoldLeft(ScanLine, <<>>, lines)
        dense == SelectSeq([i \in 1..Cardinality(DOMAIN byIndex) |-> i - 1],
                           LAMBDA i : i \in DOMAIN byIndex)
        idxs == IF Len(dense) = Cardinality(DOMAIN byIndex) THEN dense
                ELSE sortInts(walk)
    IN  [i \in DOMAIN idxs |-> byIndex[idxs[i]]]

\* Reference: what the last line with a key says of a block
Says(lines, i, key, default) ==
    LET about == {p \in DOMAIN lines : lines[p].idx = i /\ lines[p].key = key}
    IN  IF about = {} THEN default ELSE lines[Max(about)].val

\* Every block a line names is reported once, in numeric order, with what the
\* last line about each field says, for any order the map is walked in.
DomstatsMeant ==
    kind = "domstats" =>
        LET named == {input[p].idx : p \in {q \in DOMAIN input : ~Ignored(input[q])}}
            want == SetToSortSeq(named, <)
        IN  \A walk \in SetToSeqs(named) :
              parseDomstatsBlocks(input, walk) =
                [i \in DOMAIN want |->
                   [idx |-> want[i],
                    name |-> Says(input, want[i], "name", ""),
                    allocation |-> parseUint(Says(input, want[i], "allocation", "")),
                    physical |-> parseUint(Says(input, want[i], "physical", ""))]]

-----------------------------------------------------------------------------
(* LVM reports.                                                             *)

\* A field of a row is absent, a string, a JSON number or of another type.
parseUintField(f) ==
    CASE f.type = "absent" -> Read(0)
      [] f.type = "string" /\ f.text = "" -> Read(0)
      [] f.type = "string" /\ f.text \in DOMAIN Number -> Read(Number[f.text])
      [] f.type = "number" -> Read(Number[f.text])
      [] OTHER -> Refused

\* MUTANT of parseReport: a row that cannot be read is skipped.
parseReportSkips(out, fields) ==
    LET Row(acc, row) ==
          IF ~row.json THEN acc
          ELSE LET got == [f \in fields |-> parseUintField(row[f])]
               IN  IF \E f \in fields : ~got[f].ok THEN acc
                   ELSE Read(Append(acc.value,
                             [name |-> row.name] @@ [f \in fields |-> got[f].value]))
    IN  FoldLeft(Row, Read(<<>>), out)

\* parseVGsJSON (fields vg_size and vg_free) and parseLVsJSON (lv_size): the
\* rows in order, or the error of the first one that cannot be read.  The
\* output is the command's stdout and stderr together: a line that is not
\* JSON spoils it.
parseReport(out, fields) ==
    LET Row(acc, row) ==
          IF ~acc.ok THEN acc
          ELSE LET got == [f \in fields |-> parseUintField(row[f])]
               IN  IF \E f \in fields : ~got[f].ok THEN Refused
                   ELSE Read(Append(acc.value,
                             [name |-> row.name] @@ [f \in fields |-> got[f].value]))
    IN  IF \E i \in DOMAIN out : ~out[i].json THEN Refused
        ELSE FoldLeft(Row, Read(<<>>), out)

ListVGs(out) == parseReport(out, {"size", "free"})
ListLVs(out) == parseReport(out, {"size"})

\* A report is taken whole or not at all: what is returned has one entry per
\* row, in order, with the numbers of the row, and a logical volume's report
\* is never refused for a field only volume groups have.
ReportMeant ==
    kind = "report" =>
        LET vgs == ListVGs(input)
            lvs == ListLVs(input)
            Bad(f) == f.type = "other" \/ f.text \notin DOMAIN Number \cup {""}
        IN  /\ vgs.ok <=> \A i \in DOMAIN input :
                             /\ input[i].json
                             /\ ~Bad(input[i].size) /\ ~Bad(input[i].free)
            /\ vgs.ok => /\ lvs.ok
                         /\ vgs.value = [i \in DOMAIN input |->
                              [name |-> input[i].name, size |-> parseUint(input[i].size.text),
                               free |-> parseUint(input[i].free.text)]]
            /\ lvs.ok => Len(lvs.value) = Len(input)
=============================================================================
