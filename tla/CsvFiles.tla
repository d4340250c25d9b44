------------------------------- MODULE CsvFiles -------------------------------
(***************************************************************************)
(* What a bank exports as CSV and what the import reads.  A behaviour      *)
(* writes one file, row by row, in one format; the file is what the format *)
(* makes of the rows, a sequence of characters, and the operators read it  *)
(* back the way parseCsv, suggestMapping and reviewImport do.              *)
(*                                                                         *)
(* A character is a tuple, as is a run of digits, <<"#", value, length>>,  *)
(* a date with its two short parts and its year, <<"/", 3, 4, 2026>>, and  *)
(* an ISO date, <<"-", 2026, 4, 3>>.  The name of a column is one word.    *)
(***************************************************************************)
EXTENDS Integers, Sequences, FiniteSets, SequencesExt, FiniteSetsExt

CONSTANTS
    Formats,   \* ways a bank writes a file
    Entries,   \* rows it may write: [date, amount, text]
    Sample,    \* rows the suggestion looks at
    MaxRows    \* bound: rows of a file

ASSUME CsvFilesAssumption == Sample \in Nat /\ MaxRows \in Nat

VARIABLES format, written

csvFilesVars == <<format, written>>

Comma == <<",">>
Semicolon == <<";">>
TabStop == <<"tab">>
Bar == <<"|">>
Quote == <<"quote">>
Return == <<"cr">>
Feed == <<"lf">>
Space == <<" ">>
Dot == <<".">>
Minus == <<"minus">>
Plus == <<"+">>
Opening == <<"(">>
Closing == <<")">>
Delimiters == <<Comma, Semicolon, TabStop, Bar>>
White == {Space, TabStop, Return, Feed}
Nothing == <<>>

Trim(field) ==
    LET solid == {i \in DOMAIN field : field[i] \notin White} IN
    IF solid = {} THEN Nothing ELSE SubSeq(field, Min(solid), Max(solid))
IsBlank(field) == Trim(field) = Nothing

-----------------------------------------------------------------------------
(* Reading the characters *)

\* A quote opens and closes, two of them inside quotes are one; the delimiter separates outside them.
SplitLine(line, delimiter) ==
    LET pair(s, i) == s.quoted /\ i < Len(line) /\ line[i + 1] = Quote
        step(s, i) ==
          IF s.skip THEN [s EXCEPT !.skip = FALSE]
          ELSE IF line[i] = Quote /\ pair(s, i) THEN [s EXCEPT !.field = Append(@, Quote), !.skip = TRUE]
          ELSE IF line[i] = Quote THEN [s EXCEPT !.quoted = ~@]
          ELSE IF line[i] = delimiter /\ ~s.quoted
               THEN [s EXCEPT !.fields = Append(@, s.field), !.field = Nothing]
               ELSE [s EXCEPT !.field = Append(@, line[i])]
        end == FoldLeftDomain(step, [fields |-> <<>>, field |-> Nothing, quoted |-> FALSE, skip |-> FALSE],
                              line)
    IN Append(end.fields, end.field)

\* A line feed or a return outside quotes ends a record, the two together end one.
ToRecords(text) ==
    LET step(s, i) ==
          IF s.skip THEN [s EXCEPT !.skip = FALSE]
          ELSE IF text[i] = Quote THEN [s EXCEPT !.quoted = ~@, !.record = Append(@, Quote)]
          ELSE IF text[i] \in {Feed, Return} /\ ~s.quoted
               THEN [s EXCEPT !.records = Append(@, s.record), !.record = Nothing,
                              !.skip = text[i] = Return /\ i < Len(text) /\ text[i + 1] = Feed]
               ELSE [s EXCEPT !.record = Append(@, text[i])]
        end == FoldLeftDomain(step, [records |-> <<>>, record |-> Nothing, quoted |-> FALSE,
                                     skip |-> FALSE], text)
    IN IF end.record = Nothing THEN end.records ELSE Append(end.records, end.record)

\* The first ten lines that are not blank, quotes or not.
Lines(text) ==
    LET step(s, i) == IF text[i] = Feed THEN Append(s, Nothing)
                      ELSE [s EXCEPT ![Len(s)] = Append(@, text[i])]
        all == SelectSeq(FoldLeftDomain(step, <<Nothing>>, text), LAMBDA l : ~IsBlank(l))
    IN SubSeq(all, 1, Min({10, Len(all)}))

\* The delimiter with which most lines have as many columns as the first, and then the most columns.
Score(lines, delimiter) ==
    LET columns == Len(SplitLine(lines[1], delimiter)) IN
    IF columns < 2 THEN -1
    ELSE 100 * Cardinality({i \in DOMAIN lines : Len(SplitLine(lines[i], delimiter)) = columns}) + columns
DetectDelimiter(text) ==
    LET lines == Lines(text)
        score == [d \in DOMAIN Delimiters |-> Score(lines, Delimiters[d])]
        best == Max({score[d] : d \in DOMAIN score})
    IN IF lines = <<>> \/ best = -1 THEN Comma
       ELSE Delimiters[Min({d \in DOMAIN score : score[d] = best})]

\* The rows, with the number of the ragged ones; nothing of a file without columns.
TableOf(fields) ==
    IF fields = <<>> \/ Len(fields[1]) < 2 THEN [headers |-> <<>>, rows |-> <<>>, ragged |-> {}]
    ELSE [headers |-> fields[1], rows |-> Tail(fields),
          ragged |-> {i \in 2..Len(fields) : Len(fields[i]) # Len(fields[1])}]
TrimAll(fields) == [j \in DOMAIN fields |-> Trim(fields[j])]
SplitAll(records, delimiter) == [i \in DOMAIN records |-> TrimAll(SplitLine(records[i], delimiter))]
ParseCsv(text) ==
    LET records == SelectSeq(ToRecords(text), LAMBDA r : ~IsBlank(r)) IN
    CHOOSE csv \in {TableOf(fields) : fields \in {SplitAll(records, d) : d \in {DetectDelimiter(text)}}} :
        TRUE

-----------------------------------------------------------------------------
(* Columns, dates and amounts *)

DateHeaders == <<"date", "transaction date", "posting date", "value date">>
DescriptionHeaders == <<"description", "details", "merchant", "transaction">>
AmountHeaders == <<"amount", "value">>
DebitHeaders == <<"debit", "paid out">>
CreditHeaders == <<"credit", "paid in">>

\* What a name contains besides itself, of the names that are looked for.
Includes(name, candidate) ==
    \/ name = candidate
    \/ <<name, candidate>> \in
          {<<"transaction date", "date">>, <<"posting date", "date">>, <<"value date", "date">>,
           <<"value date", "value">>, <<"transaction date", "transaction">>}

\* The column of the first candidate that is its name, or else that its name contains; 0 if there is none.
FindHeader(headers, candidates) ==
    LET named(h, c) == headers[h] = <<<<candidates[c]>>>>
        like(h, c) == Includes(headers[h][1][1], candidates[c])
        exact == {c \in DOMAIN candidates : \E h \in DOMAIN headers : named(h, c)}
        partial == {c \in DOMAIN candidates : \E h \in DOMAIN headers : like(h, c)}
    IN IF exact # {} THEN Min({h \in DOMAIN headers : named(h, Min(exact))})
       ELSE IF partial # {} THEN Min({h \in DOMAIN headers : like(h, Min(partial))})
       ELSE 0

\* A day above twelve shows where the day is; dates that show nothing, or both, are ambiguous.
\* Mutant: without a proof the day comes first.
GuessDateOrder(values) ==
    LET dates == {values[i][1] : i \in {j \in DOMAIN values : values[j] # Nothing}}
        short == {v \in dates : v[1] = "/"}
        second == \E v \in short : v[3] > 12
    IN IF dates # {} /\ short = {} THEN [order |-> "YMD", ambiguous |-> FALSE]
       ELSE [order |-> IF second THEN "MDY" ELSE "DMY", ambiguous |-> FALSE]

DetectDateOrder(values) ==
    LET dates == {values[i][1] : i \in {j \in DOMAIN values : values[j] # Nothing}}
        iso == {v \in dates : v[1] = "-"}
        short == {v \in dates : v[1] = "/"}
        first == \E v \in short : v[2] > 12
        second == \E v \in short : v[3] > 12
    IN IF iso # {} /\ short = {} THEN [order |-> "YMD", ambiguous |-> FALSE]
       ELSE [order |-> IF second /\ ~first THEN "MDY" ELSE "DMY", ambiguous |-> first = second]

NoMapping == [date |-> 0]

\* null rather than a part of a mapping; a pair of columns before a signed one.
SuggestMapping(headers, rows) ==
    LET date == FindHeader(headers, DateHeaders)
        text == FindHeader(headers, DescriptionHeaders)
        amount == FindHeader(headers, AmountHeaders)
        debit == FindHeader(headers, DebitHeaders)
        credit == FindHeader(headers, CreditHeaders)
        sample == [i \in 1..Min({Sample, Len(rows)}) |-> rows[i][date]]
    IN IF date = 0 \/ text = 0 \/ (amount = 0 /\ (debit = 0 \/ credit = 0)) THEN NoMapping
       ELSE [date |-> date, text |-> text, amount |-> amount, debit |-> debit, credit |-> credit,
             direction |-> 0,
             convention |-> IF debit # 0 /\ credit # 0 THEN "pair" ELSE "signed"] @@ DetectDateOrder(sample)

Leap(y) == y % 4 = 0 /\ (y % 100 # 0 \/ y % 400 = 0)
DaysIn(y, m) == CASE m = 2 -> IF Leap(y) THEN 29 ELSE 28 [] m \in {4, 6, 9, 11} -> 30 [] OTHER -> 31
Build(y, m, d) == IF m \in 1..12 /\ d >= 1 /\ d <= DaysIn(y, m) THEN <<y, m, d>> ELSE Nothing

\* A year of two digits is of this century up to 79.
Century(y) == IF y >= 100 THEN y ELSE IF y <= 79 THEN y + 2000 ELSE y + 1900
ParseDate(field, order) ==
    IF field = Nothing \/ field[1][1] \notin {"-", "/"} THEN Nothing
    ELSE LET v == field[1] IN
         IF v[1] = "-" THEN Build(v[2], v[3], v[4])
         ELSE IF order = "MDY" THEN Build(Century(v[4]), v[2], v[3]) ELSE Build(Century(v[4]), v[3], v[2])

Power10(n) == CASE n = 0 -> 1 [] n = 1 -> 10 [] n = 2 -> 100 [] n = 3 -> 1000
IsDigits(ch) == ch[1] = "#"
Digits(text) == FoldLeft(LAMBDA n, ch : n * Power10(ch[3]) + ch[2], 0, text)
Length(text) == FoldLeft(LAMBDA n, ch : n + (IF IsDigits(ch) THEN ch[3] ELSE 1), 0, text)
WithoutChar(text, ch) == SelectSeq(text, LAMBDA x : x # ch)
LastOf(text, ch) == LET at == {i \in DOMAIN text : text[i] = ch} IN IF at = {} THEN 0 ELSE Max(at)

\* Number(text) in hundredths, rounded: digits with at most one point among them.
ToMinor(text) ==
    LET point == LastOf(text, Dot)
        whole == IF point = 0 THEN text ELSE SubSeq(text, 1, point - 1)
        rest == IF point = 0 THEN Nothing ELSE SubSeq(text, point + 1, Len(text))
    IN IF text = Nothing \/ text = <<Dot>> \/ \E ch \in ToSet(whole) \cup ToSet(rest) : ~IsDigits(ch)
        THEN Nothing
       ELSE <<100 * Digits(whole) + (CASE Length(rest) = 0 -> 0
                                     [] Length(rest) = 1 -> 10 * Digits(rest)
                                     [] Length(rest) = 2 -> Digits(rest)
                                     [] Length(rest) = 3 -> (Digits(rest) + 5) \div 10)>>

\* The last of comma and point is the decimal one; a comma alone before three digits is not.
Decimal(text) ==
    LET comma == LastOf(text, Comma)
        point == LastOf(text, Dot)
        pointed(t) == [i \in DOMAIN t |-> IF t[i] = Comma THEN Dot ELSE t[i]]
    IN IF comma > 0 /\ (point > comma \/ (point = 0 /\ Length(SubSeq(text, comma + 1, Len(text))) = 3))
       THEN WithoutChar(text, Comma)
       ELSE IF comma > 0 THEN pointed(WithoutChar(text, Dot)) ELSE text

\* Parentheses and a minus sign each negate; what is no digit, sign or separator is passed over.
ParseAmount(field) ==
    LET inner == IF Len(field) > 1 /\ field[1] = Opening /\ Last(field) = Closing
                 THEN SubSeq(field, 2, Len(field) - 1) ELSE field
        text == SelectSeq(inner, LAMBDA ch : IsDigits(ch) \/ ch \in {Comma, Dot, Minus, Plus})
        unsigned == IF text # Nothing /\ text[1] \in {Minus, Plus} THEN Tail(text) ELSE text
        minor == ToMinor(Decimal(unsigned))
        negative == (inner # field) # (text # Nothing /\ text[1] = Minus)
    IN IF unsigned = Nothing \/ minor = Nothing THEN Nothing ELSE IF negative THEN <<-minor[1]>> ELSE minor

\* Exactly one of two columns, or the amount with the sign of its direction, or the amount.
Magnitude(n) == IF n < 0 THEN -n ELSE n
Outflow(amount) == [i \in DOMAIN amount |-> -Magnitude(amount[i])]
Inflow(amount) == [i \in DOMAIN amount |-> Magnitude(amount[i])]
ReadAmount(row, mapping) ==
    LET given(c) == c # 0 /\ ParseAmount(row[c]) \notin {Nothing, <<0>>} IN
    CASE mapping.convention = "pair" ->
            (IF given(mapping.debit) = given(mapping.credit) THEN Nothing
             ELSE IF given(mapping.debit) THEN Outflow(ParseAmount(row[mapping.debit]))
             ELSE Inflow(ParseAmount(row[mapping.credit])))
      [] mapping.convention = "signed" -> ParseAmount(row[mapping.amount])
      [] mapping.convention = "direction" ->
            LET amount == ParseAmount(row[mapping.amount]) IN
            CASE row[mapping.direction] = <<<<"debit">>>> -> Outflow(amount)
              [] row[mapping.direction] = <<<<"credit">>>> -> Inflow(amount)
              [] OTHER -> Nothing

\* What the review makes of a row: what it says, or invalid.
ReadRow(csv, i, mapping) ==
    IF i + 1 \in csv.ragged THEN Nothing
    ELSE LET date == ParseDate(csv.rows[i][mapping.date], mapping.order)
             amount == ReadAmount(csv.rows[i], mapping)
             text == csv.rows[i][mapping.text]
         IN IF Nothing \in {date, amount, text} \/ amount = <<0>> THEN Nothing
            ELSE <<[date |-> date, amount |-> amount[1], text |-> text]>>

-----------------------------------------------------------------------------
(* What a bank writes *)

\* Quotes around a field that needs them, and two for each inside.
Quoted(field, delimiter) ==
    IF \E ch \in ToSet(field) : ch \in {Quote, Feed, Return, delimiter}
    THEN <<Quote>> \o FlattenSeq([i \in DOMAIN field |-> IF field[i] = Quote
                                  THEN <<Quote, Quote>> ELSE <<field[i]>>])
         \o <<Quote>>
    ELSE field

Dated(date) ==
    CASE format.order = "YMD" -> <<<<"-", date[1], date[2], date[3]>>>>
      [] format.order = "DMY" -> <<<<"/", date[3], date[2], date[1] % 100>>>>
      [] format.order = "MDY" -> <<<<"/", date[2], date[3], date[1]>>>>

\* Thousands apart, two decimals: 1,234.56 or 1.234,56.
Figure(n) ==
    LET thousands == n \div 100000
        units == (n \div 100) % 1000
        sep == IF format.european THEN Dot ELSE Comma
        point == IF format.european THEN Comma ELSE Dot
    IN (IF thousands = 0 THEN <<<<"#", units, IF units < 10 THEN 1 ELSE 2>>>>
        ELSE <<<<"#", thousands, 1>>, sep, <<"#", units, 3>>>>) \o <<point, <<"#", n % 100, 2>>>>
Signed(n) ==
    IF n >= 0 THEN Figure(n)
    ELSE IF format.european THEN <<Minus>> \o Figure(-n)
        ELSE <<Opening, <<"$">>>> \o Figure(-n) \o <<Closing>>

Fields(row) ==
    CASE format.convention = "signed" -> <<Dated(row.date), row.text, Signed(row.amount)>>
      [] format.convention = "pair" ->
            <<Dated(row.date), row.text, IF row.amount < 0 THEN Figure(-row.amount) ELSE Nothing,
              IF row.amount > 0 THEN Figure(row.amount) ELSE Nothing>>
      [] format.convention = "direction" ->
            <<Dated(row.date), row.text, Figure(Magnitude(row.amount)),
              <<<<IF row.amount < 0 THEN "debit" ELSE "credit">>>>>>
Names ==
    CASE format.convention = "signed" -> <<"posting date", "transaction", "amount">>
      [] format.convention = "pair" -> <<"value date", "description", "paid out", "paid in">>
      [] format.convention = "direction" -> <<"date", "details", "value", "kind">>

Record(fields) ==
    LET separator(j) == IF j = 1 THEN Nothing ELSE <<format.delimiter>> IN
    FlattenSeq([j \in DOMAIN fields |-> separator(j) \o Quoted(fields[j], format.delimiter)])
    \o (IF format.european THEN <<Feed>> ELSE <<Return, Feed>>)

File == Record([j \in DOMAIN Names |-> <<<<Names[j]>>>>])
        \o FlattenSeq([i \in DOMAIN written |-> Record(Fields(written[i]))])

CsvFilesInit == format \in Formats /\ written = <<>>
WriteRow(row) == Len(written) < MaxRows /\ written' = Append(written, row) /\ UNCHANGED format
CsvFilesNext == \E row \in Entries : WriteRow(row)
CsvFilesSpec == CsvFilesInit /\ [][CsvFilesNext]_csvFilesVars

-----------------------------------------------------------------------------
(* Properties *)

\* The suggestion, completed by the user: he knows the order of an ambiguous date, and the column of a
\* direction.
Confirmed(suggested) ==
    [suggested EXCEPT !.order = IF suggested.ambiguous THEN format.order ELSE @,
                      !.direction = IF format.convention = "direction" THEN 4 ELSE @,
                      !.convention = IF format.convention = "direction" THEN "direction" ELSE @]

\* Whatever format a bank writes in, and whatever delimiters, quotes and line breaks a description has:
\* the columns are found, and every row is read as the bank wrote it, with its date, its amount and its
\* description, unless the suggestion says that it cannot tell the days from the months, and then it is
\* with the order the user names.  No guess moves a transaction to another month.
ReadAsWritten ==
    written # <<>> =>
       \E csv \in {ParseCsv(File)} : \E mapping \in {SuggestMapping(csv.headers, csv.rows)} :
          /\ mapping.date # 0
          /\ Len(csv.rows) = Len(written)
          /\ \A i \in DOMAIN written : ReadRow(csv, i, Confirmed(mapping)) = <<written[i]>>
=============================================================================
