------------------------------ MODULE SampleUploads ------------------------------
(***************************************************************************)
(* A settlement report under a preamble, with an empty row, a total under  *)
(* a column nobody maps, amounts with no mark, one mark and two marks of   *)
(* sign, days that are and are not, as CSV and as a workbook with gaps; a  *)
(* delivery report with a net and without; a report with a card number,    *)
(* whole, in groups, or masked, in every part of it; and two overlapping   *)
(* bank statements, as CSV with money in and out apart and as OFX.         *)
(***************************************************************************)
EXTENDS FileReading

Text(x)   == [is |-> "text", text |-> x]
Day(a, b) == [is |-> "date", first |-> a, second |-> b, year |-> 2026, told |-> FALSE]
Told(year, month, day) ==
  [is |-> "date", first |-> month, second |-> day, year |-> year, told |-> TRUE]
Digits(g) == [is |-> "digits", groups |-> g]
Amounts(n, brackets, before, after, side) ==
  [is |-> "money", n |-> n, brackets |-> brackets, before |-> before, after |-> after, side |-> side]
Plain(n) == Amounts(n, FALSE, FALSE, FALSE, "")

Marked == {Plain(3), Amounts(3, TRUE, FALSE, FALSE, ""), Amounts(3, FALSE, TRUE, FALSE, ""),
           Amounts(3, FALSE, FALSE, TRUE, ""), Amounts(3, FALSE, FALSE, FALSE, "DR"),
           Amounts(3, FALSE, FALSE, FALSE, "CR"), Amounts(3, TRUE, FALSE, FALSE, "DR"),
           Amounts(3, FALSE, TRUE, FALSE, "DR"), Amounts(3, FALSE, FALSE, TRUE, "DR"),
           Amounts(3, TRUE, TRUE, FALSE, ""), Amounts(3, FALSE, TRUE, TRUE, ""),
           Amounts(3, FALSE, TRUE, FALSE, "CR")}

Map(kind, columns, header_row) ==
  [kind |-> kind, columns |-> columns, header_row |-> header_row, currency |-> "USD",
   day_first |-> FALSE, negate |-> {}, skip |-> TRUE]
Send(what, file, mapping) == [what |-> what, file |-> file, mapping |-> mapping]
Csv(grid) == [format |-> "csv", grid |-> grid]

-----------------------------------------------------------------------------
\* The same grid as a workbook: empty rows and cells are left out.
Workbook(grid) ==
  LET CellsOf(r) == SelectSeq([j \in DOMAIN grid[r] |-> [p |-> j, cell |-> grid[r][j]]],
                              LAMBDA c : c.cell # Blank)
  IN  [format |-> "xlsx",
       rows |-> SelectSeq([r \in DOMAIN grid |-> [p |-> r, cells |-> CellsOf(r)]],
                          LAMBDA r : r.cells # <<>>)]

Report(date, gross, fees, adjustment) ==
  <<<<Text("Acme"), Blank>>,
    <<Text("Batch"), Text("Date"), Text("Gross"), Text("Fees"), Text("Adj"), Text("Count"), Blank>>,
    <<Text("b1"), date, gross, fees, adjustment>>,
    <<>>,
    <<Text("b2"), Day(3, 4), Plain(9), Blank, Blank, Blank, Text("x")>>,
    <<Blank, Blank, Blank, Blank, Blank, Text("2")>>,
    <<Text("b3"), Day(3, 5), fees, Plain(1), Blank, Blank, Blank, Blank>>,
    <<Blank>>>>

BatchMap == Map("settlement_batches",
  [batch_id |-> "Batch", closed_on |-> "Date", gross |-> "Gross", fees |-> "Fees",
   adjustments |-> "Adj"], 2)

Grids ==
  {Report(Day(3, 4), gross, fees, adjustment) :
     gross \in Marked \cup {Blank}, fees \in Marked \cup {Blank, Text("n/a")},
     adjustment \in {Blank, Plain(2), Amounts(2, FALSE, TRUE, FALSE, ""), Plain(50)}}
  \cup {Report(date, Plain(3), Plain(1), Blank) :
     date \in {Day(13, 2), Day(2, 13), Day(2, 30), Told(2026, 2, 13), Told(2024, 2, 29),
               Told(2026, 2, 29), Text("soon"), Blank}}

Mappings ==
  {BatchMap, [BatchMap EXCEPT !.skip = FALSE], [BatchMap EXCEPT !.negate = {"adjustments", "fees"}],
   [BatchMap EXCEPT !.day_first = TRUE], [BatchMap EXCEPT !.header_row = 1],
   [BatchMap EXCEPT !.header_row = 9], [BatchMap EXCEPT !.negate = {"batch_id"}],
   [BatchMap EXCEPT !.currency = None]}

Reports == {<<Send("upload", file, m)>> :
  file \in {Csv(g) : g \in Grids} \cup {Workbook(g) : g \in Grids}, m \in Mappings}

-----------------------------------------------------------------------------
Delivered(subtotal, commission, credit) ==
  Csv(<<<<Text("Date"), Text("Items"), Text("Commission"), Text("Credit"), Text("Net")>>,
        <<Day(3, 4), subtotal, commission, credit>>,
        <<Day(3, 4), Plain(20), Plain(3), Blank, Plain(17)>>>>)
LineColumns == [ordered_on |-> "Date", subtotal |-> "Items", commission |-> "Commission",
                adjustments |-> "Credit"]
Deliveries ==
  {<<Send("upload", Delivered(subtotal, commission, credit), Map("delivery_lines", columns, 1))>> :
     subtotal \in {Blank, Plain(9)}, commission \in Marked \cup {Blank}, credit \in {Blank, Plain(2)},
     columns \in {LineColumns, [net |-> "Net"] @@ LineColumns}}

-----------------------------------------------------------------------------
Pan == <<"4111", "1111", "1111", "1111">>
CardsDef == {Pan, <<"4111111111111111">>}
CardNamesDef == {"Card Number", "PAN"}
CardCells == {Blank, Digits(Pan), Digits(<<"0042">> \o Pan), Digits(<<"4111111111111111", "07">>),
              Digits(<<"4111", "1111", "1111">>), Digits(<<"1111">>)}

Charged(pre, card, memo, beyond) ==
  Csv(<<<<Text("Acme"), pre>>,
        <<Text("Txn"), Text("Day"), Text("Amount"), Text("Card Number"), Text("Memo")>>,
        <<Text("t1"), Day(3, 4), Plain(5), card, memo, beyond>>>>)
ChargeMap(columns) ==
  Map("settlement_transactions",
      columns @@ [transaction_id |-> "Txn", transacted_on |-> "Day", amount |-> "Amount"], 2)
Charged4 ==
  {<<Send(what, Charged(cells[1], cells[2], cells[3], cells[4]), ChargeMap(columns))>> :
     what \in {"upload", "preview"},
     cells \in {c \in [1..4 -> CardCells] : c[1] = Blank \/ c[4] = Blank},
     columns \in {[card_last4 |-> "Card Number", order_ref |-> "Memo"],
                 [order_ref |-> "Card Number"], [card_last4 |-> "Memo"]}}

-----------------------------------------------------------------------------
BankLine(day, n, text, id) == [day |-> day, n |-> n, text |-> text, id |-> id]
Ledger == <<BankLine(1, 3, "coffee", None), BankLine(1, 3, "coffee", None),
            BankLine(2, 3, "coffee", None), BankLine(2, -5, "rent", "f1"),
            BankLine(3, 3, "coffee", None), BankLine(3, 3, "coffee", None)>>
\* What the bank prints of some days of it, oldest or newest first.
Statements == {SelectSeq(s, LAMBDA l : l.day \in days) :
                 s \in {Ledger, Reverse(Ledger)}, days \in {{1}, {1, 2}, {2, 3}, {1, 2, 3}}}

BankCsv(lines) ==
  Csv(<<<<Text("Posted"), Text("In"), Text("Out"), Text("Text"), Text("Id")>>>> \o
      [k \in DOMAIN lines |->
        LET l == lines[k]
        IN  <<Day(3, l.day), IF l.n > 0 THEN Plain(l.n) ELSE Blank,
              IF l.n < 0 THEN Plain(-l.n) ELSE Blank, Text(l.text),
              IF l.id = None THEN Blank ELSE Text(l.id)>>])
BankMap == Map("bank_deposits", [posted_on |-> "Posted", credit |-> "In", debit |-> "Out",
                                 description |-> "Text", fitid |-> "Id"], 1)

Tag(tag, cell) == [tag |-> tag, close |-> FALSE, cell |-> cell]
BankOfx(lines, memo) ==
  LET Tags(l) == <<Tag("STMTTRN", Blank), Tag("DTPOSTED", Day(3, l.day)),
                   Tag("TRNAMT", IF l.n > 0 THEN Plain(l.n) ELSE Amounts(-l.n, FALSE, TRUE, FALSE, "")),
                   Tag("NAME", Text(l.text)), Tag("MEMO", memo), Tag("ACCTID", Digits(<<"2222">>)),
                   Tag("CURRENCY", Blank)>>
                 \o (IF l.id = None THEN <<>> ELSE <<Tag("FITID", Text(l.id)), Tag("CURSYM", Text("USD"))>>)
                 \o <<[tag |-> "STMTTRN", close |-> TRUE, cell |-> Blank]>>
  IN  [format |-> "ofx",
       tags |-> <<Tag("CURDEF", Text("EUR")), Tag("ACCTID", Digits(Pan))>>
                \o FlattenSeq([k \in DOMAIN lines |-> Tags(lines[k])])]
OfxMap == Map("bank_deposits", [type |-> "TRNTYPE", posted_on |-> "DTPOSTED", amount |-> "TRNAMT",
  fitid |-> "FITID", description |-> "NAME", currency |-> "CURRENCY", account_last4 |-> "ACCTID_LAST4"], 1)

Banks ==
  {<<Send("upload", BankCsv(s), BankMap), Send("upload", BankCsv(t), BankMap)>> :
     s, t \in Statements}
  \cup {<<Send("upload", BankOfx(s, memo), OfxMap), Send("upload", BankOfx(t, Blank), OfxMap)>> :
     s, t \in Statements, memo \in {Text("thanks"), Digits(Pan)}}

UploadsDef == Reports \cup Deliveries \cup Charged4 \cup Banks
=================================================================================
