------------------------------- MODULE FileReading -------------------------------
(***************************************************************************)
(* An uploaded file becomes rows (packages/connectors/files/okwan_files:   *)
(* parse.py, guard.py, mapping.py, schemas.py): `prepare` reads CSV, XLSX  *)
(* or OFX into a grid, refuses it whole if any cell holds a card number,   *)
(* takes the grid apart into a header and rows, and fills a kind's fields  *)
(* from the columns a mapping names, row by row.  The preview route reads  *)
(* a file the same way and stores nothing.  What becomes of the rows is    *)
(* Imports'.                                                               *)
(*                                                                         *)
(* A cell is what a reader tells apart: [is |-> "blank"], a "text", a      *)
(* "date" of a year and two numbers, the first one told to be the month or *)
(* not, a "money" amount with its marks of sign (DR or CR behind, brackets *)
(* around the rest, a dash before or after what the brackets hold), a      *)
(* "count", or "digits" in groups that a space or a dash parts.            *)
(***************************************************************************)
EXTENDS Absent, Integers, Sequences, FiniteSets, SequencesExt

CONSTANTS
  Bad,        \* what cannot be read as its field
  Uploads,    \* what may be sent, in order: sequences of [what, file, mapping]
  CardNames,  \* headers that name a card number: is_card_column
  Cards,      \* sequences of digit groups that make a card number
  Codes,      \* ISO 4217 codes
  MaxRows,    \* MAX_ROWS
  MaxColumns, \* MAX_COLUMNS
  MaxMinor    \* MAX_MINOR

ASSUME ReadingAssumption ==
  /\ MaxRows \in Nat \ {0} /\ MaxColumns \in Nat \ {0} /\ MaxMinor \in Nat
  /\ \A u \in Uploads : \A i \in DOMAIN u : u[i].mapping.header_row \in Nat \ {0}

VARIABLES
  todo,   \* the uploads not answered yet
  at,     \* "read", "check", "rows"
  sheet,  \* [format, header, rows, first]
  cols,   \* [mapped field -> its column's position]
  out,    \* Normalized: [rows, skipped], and how many rows were bad
  seen,   \* the derived ids so far
  i,      \* the row of the sheet read next
  kept    \* the answers so far: [upload, refused, rows, skipped]

readingVars == <<todo, at, sheet, cols, out, seen, i, kept>>

NoSheet  == [format |-> None, header |-> <<>>, rows |-> <<>>, first |-> 1]
Nothing  == [rows |-> <<>>, skipped |-> {}, bad |-> 0]
ReadInit ==
  /\ todo \in Uploads
  /\ at = "read" /\ sheet = NoSheet /\ cols = <<>> /\ out = Nothing /\ seen = {} /\ i = 1
  /\ kept = <<>>

Upload  == Head(todo)
Mapping == Upload.mapping

-----------------------------------------------------------------------------
(* schemas.py: what each kind's fields are, and how their cells are read.    *)

KindOf(date, dates, money, texts, rest, required) ==
  [date |-> date, required |-> required,
   parse |-> [f \in {date} \cup dates |-> "date"] @@ [f \in money |-> "money"]
             @@ [f \in texts |-> "text"] @@ rest @@ [f \in {"currency"} |-> "currency"]]

Parts      == {"subtotal", "tax", "tip"}
Charges    == {"commission", "processing_fee", "marketing", "error_charges", "refunds"}
Deductions == Charges \cup {"fees", "chargebacks", "fee", "payout_fee"}
Split      == {"credit", "debit"}

Kinds ==
  [settlement_batches |-> KindOf("closed_on", {}, {"gross", "fees", "chargebacks", "adjustments", "net"},
     {"batch_id", "mid"}, [f \in {"transaction_count"} |-> "int"],
     {"batch_id", "closed_on", "gross", "currency"}),
   settlement_transactions |-> KindOf("transacted_on", {}, {"amount", "fee"},
     {"transaction_id", "batch_id", "order_ref", "type", "auth_code", "card_brand", "mid"},
     [f \in {"card_last4"} |-> "last4"], {"transacted_on", "amount", "currency"}),
   bank_deposits |-> KindOf("posted_on", {}, {"amount"}, {"fitid", "description", "type"},
     [f \in {"account_last4"} |-> "last4"], {"fitid", "posted_on", "amount", "currency"}),
   delivery_lines |-> KindOf("ordered_on", {"payout_on"}, Parts \cup Charges \cup {"adjustments", "net"},
     {"order_id", "transaction_id", "platform", "store_id", "pos_order_ref", "status", "type", "payout_id"},
     <<>>, {"ordered_on", "currency"}),
   delivery_payouts |-> KindOf("paid_on", {"period_start", "period_end"},
     {"net", "sales", "commission", "marketing", "error_charges", "adjustments", "payout_fee"},
     {"payout_id", "platform", "store_id", "status"}, <<>>,
     {"payout_id", "paid_on", "net", "currency"})]

Kind      == Kinds[Mapping.kind]
Fields    == DOMAIN Kind.parse
MoneyOf   == {f \in Fields : Kind.parse[f] = "money"}
Derivable == {"fitid"}

-----------------------------------------------------------------------------
(* guard.py.                                                                 *)

Blank == [is |-> "blank"]

\* Mutant: only the groups the run begins with.
HoldsCardInFront(cell) ==
  cell.is = "digits" /\ \E k \in DOMAIN cell.groups : SubSeq(cell.groups, 1, k) \in Cards

\* A run of digit groups is tried at every group boundary.
HoldsCard(cell) ==
  /\ cell.is = "digits"
  /\ \E j, k \in DOMAIN cell.groups : j <= k /\ SubSeq(cell.groups, j, k) \in Cards

Last4(cell) == IF cell.is = "digits" THEN [is |-> "last4", digits |-> Last(cell.groups)] ELSE Blank

Scanned(grid) == \A r \in DOMAIN grid : \A j \in DOMAIN grid[r] : ~HoldsCard(grid[r][j])

IsCardColumn(cell) == cell.is = "text" /\ cell.text \in CardNames

-----------------------------------------------------------------------------
(* parse.py: a file into a grid.                                             *)

Padded(s, n, with) == s \o [k \in 1..(n - Len(s)) |-> with]

\* A workbook leaves out empty rows and cells: a row says its number, or
\* follows the last, and so does a cell.
Place(s, p, x, with) == Append(IF p = None THEN s ELSE Padded(s, p - 1, with), x)
XlsxRow(cells) ==
  FoldLeft(LAMBDA done, c : IF c.p # None /\ c.p > MaxColumns + 50 THEN done
                            ELSE Place(done, c.p, c.cell, Blank), <<>>, cells)
Xlsx(file) == FoldLeft(LAMBDA grid, r : Place(grid, r.p, XlsxRow(r.cells), <<>>), <<>>, file.rows)

OfxColumns == <<"TRNTYPE", "DTPOSTED", "TRNAMT", "FITID", "NAME", "MEMO", "CHECKNUM",
                "REFNUM", "CURRENCY", "ACCTID_LAST4">>
OfxHeader  == [k \in DOMAIN OfxColumns |-> [is |-> "text", text |-> OfxColumns[k]]]

OfxTag(state, t) ==
  LET open == state.current # None
      Stated(c) == c \in DOMAIN state.current /\ state.current[c] # Blank
  IN  CASE t.tag = "STMTTRN" /\ t.close ->
             [state EXCEPT !.current = None,
                !.rows = IF ~open THEN @ ELSE Append(@,
                  [k \in DOMAIN OfxColumns |->
                     IF OfxColumns[k] = "ACCTID_LAST4" THEN state.account
                     ELSE IF Stated(OfxColumns[k]) THEN state.current[OfxColumns[k]]
                     ELSE IF OfxColumns[k] = "CURRENCY" THEN state.currency ELSE Blank])]
       [] t.tag = "STMTTRN" /\ ~t.close -> [state EXCEPT !.current = <<>>]
       [] t.close -> state
       [] t.tag = "CURDEF" -> [state EXCEPT !.currency = t.cell]
       [] t.tag = "ACCTID" /\ ~open -> [state EXCEPT !.account = Last4(t.cell)]
       [] open /\ t.tag \in ToSet(OfxColumns) ->
            [state EXCEPT !.current = (t.tag :> t.cell) @@ @]
       [] open /\ t.tag = "CURSYM" -> [state EXCEPT !.current = ("CURRENCY" :> t.cell) @@ @]
       [] OTHER -> state
Ofx(file) ==
  FoldLeft(OfxTag, [currency |-> Blank, account |-> Blank, rows |-> <<>>, current |-> None],
           file.tags).rows

-----------------------------------------------------------------------------
(* A grid into a sheet.                                                      *)

\* Without the blanks behind its last full place, but no shorter than n.
Trimmed(s, n, full) == SubSeq(s, 1, Max({k \in 0..Len(s) : k <= n \/ k \in full}))

FullCells(row) == {k \in DOMAIN row : row[k] # Blank}
FullRows(rows) == {k \in DOMAIN rows : FullCells(rows[k]) # {}}

SheetOf(format, grid, n) ==
  LET header == IF Len(grid) < n THEN <<>> ELSE Trimmed(grid[n], 0, FullCells(grid[n]))
      Named  == FullCells(header)
      Wide(row) == Padded(Trimmed(row, Len(header), FullCells(row)), Len(header), Blank)
      rows   == [k \in 1..(Len(grid) - n) |-> Wide(grid[n + k])]
      data   == Trimmed(rows, 0, FullRows(rows))
  IN  IF \/ Named = {} \/ Len(header) > MaxColumns
         \/ \E j, k \in Named : j # k /\ header[j] = header[k]
         \/ data = <<>> \/ Len(data) > MaxRows
      THEN None
      ELSE [format |-> format, header |-> header, rows |-> data, first |-> n + 1]

OfxSheet(rows) ==
  IF rows = <<>> \/ Len(rows) > MaxRows THEN None
  ELSE [format |-> "ofx", header |-> OfxHeader, rows |-> rows, first |-> 1]

Answer(refused, rows, skipped) ==
  /\ todo' = Tail(todo)
  /\ at' = "read" /\ sheet' = NoSheet /\ cols' = <<>> /\ out' = Nothing /\ seen' = {} /\ i' = 1
  /\ kept' = Append(kept, [upload |-> Upload, refused |-> refused, rows |-> rows, skipped |-> skipped])

Refuse == Answer(TRUE, <<>>, {})

\* read: every cell is searched, a preamble's and the header's too, before the
\* grid is taken apart.
Read ==
  /\ todo # <<>> /\ at = "read"
  /\ LET file == Upload.file
         grid == CASE file.format = "ofx" -> Ofx(file)
                   [] file.format = "xlsx" -> Xlsx(file)
                   [] file.format = "csv" -> file.grid
         made == IF file.format = "ofx" THEN OfxSheet(grid)
                 ELSE SheetOf(file.format, grid, Mapping.header_row)
     IN  IF made = None \/ ~Scanned(grid) THEN Refuse
         ELSE /\ sheet' = made
              /\ at' = "check"
              /\ UNCHANGED <<todo, cols, out, seen, i, kept>>

-----------------------------------------------------------------------------
(* The preview: what it shows, a card column no more than four digits of.    *)

Shown(row) ==
  [j \in DOMAIN sheet.header |-> IF IsCardColumn(sheet.header[j]) THEN Last4(row[j]) ELSE row[j]]

Preview ==
  /\ todo # <<>> /\ at = "check" /\ Upload.what = "preview"
  /\ Answer(FALSE, [k \in DOMAIN sheet.rows |-> [n |-> k, row |-> Shown(sheet.rows[k])]], {})

-----------------------------------------------------------------------------
(* mapping.py: check.                                                        *)

ColumnAt(name) ==
  IF \E j \in DOMAIN sheet.header : sheet.header[j] = [is |-> "text", text |-> name]
  THEN CHOOSE j \in DOMAIN sheet.header : sheet.header[j] = [is |-> "text", text |-> name]
  ELSE None

Mapped == DOMAIN Mapping.columns
IsSplit == Mapped \cap Split # {}

Fits ==
  /\ Mapped \subseteq Fields \cup (IF "amount" \in Fields THEN Split ELSE {})
  /\ \A f \in Mapped :
       /\ ColumnAt(Mapping.columns[f]) # None
       /\ Mapping.columns[f] \in CardNames => f = "card_last4"
  /\ ~(IsSplit /\ "amount" \in Mapped)
  /\ \A f \in Kind.required \ (Mapped \cup Derivable) :
       \/ f = "currency" /\ Mapping.currency # None
       \/ f = "amount" /\ IsSplit
  /\ Mapping.negate \subseteq MoneyOf

Check ==
  /\ todo # <<>> /\ at = "check" /\ Upload.what = "upload"
  /\ IF ~Fits THEN Refuse
     ELSE /\ cols' = [f \in Mapped |-> ColumnAt(Mapping.columns[f])]
          /\ at' = "rows"
          /\ UNCHANGED <<todo, sheet, out, seen, i, kept>>

-----------------------------------------------------------------------------
(* mapping.py: one value.                                                    *)

Abs(n) == IF n < 0 THEN -n ELSE n

DaysIn(year, month) ==
  CASE month = 2 -> IF year % 4 = 0 /\ (year % 100 # 0 \/ year % 400 = 0) THEN 29 ELSE 28
    [] month \in {4, 6, 9, 11} -> 30
    [] OTHER -> 31

\* parse_date: month first unless the date is of a form that tells its month, or
\* the mapping says otherwise; _date: and only if there is such a day.
DateOf(cell) ==
  LET turned == Mapping.day_first /\ ~cell.told
      month  == IF turned THEN cell.second ELSE cell.first
      day    == IF turned THEN cell.first ELSE cell.second
  IN  IF cell.is = "date" /\ month \in 1..12 /\ day \in 1..DaysIn(cell.year, month)
      THEN [is |-> "day", year |-> cell.year, month |-> month, day |-> day]
      ELSE Bad

\* parse_money: a side says the sign, brackets say minus, each dash turns it.
MoneyIn(cell) ==
  LET said   == cell.brackets \/ cell.side = "DR"
      dashes == (cell.before # cell.after)
  IN  IF cell.is # "money" \/ cell.n > MaxMinor THEN Bad
      ELSE IF said # dashes THEN -cell.n ELSE cell.n

Value(parse, cell) ==
  CASE cell = Blank -> None
    [] cell # Blank /\ parse = "date" -> DateOf(cell)
    [] cell # Blank /\ parse = "money" -> MoneyIn(cell)
    [] cell # Blank /\ parse = "int" -> IF cell.is = "count" THEN cell.n ELSE Bad
    [] cell # Blank /\ parse = "last4" -> IF Last4(cell) = Blank THEN None ELSE Last4(cell)
    [] cell # Blank /\ parse \in {"text", "currency"} -> cell

-----------------------------------------------------------------------------
(* mapping.py: one row.                                                      *)

CurrencyIn(cells) ==
  LET cell == IF "currency" \in DOMAIN cols THEN cells[cols["currency"]] ELSE Blank
  IN  IF cell = Blank THEN Mapping.currency
      ELSE IF cell.is = "text" /\ cell.text \in Codes THEN cell.text ELSE Bad

SplitIn(cells) ==
  LET part  == [s \in DOMAIN cols \cap Split |-> Value("money", cells[cols[s]])]
      Of(s) == IF s \in DOMAIN part /\ part[s] # None THEN Abs(part[s]) ELSE 0
  IN  IF Bad \in {part[s] : s \in DOMAIN part} THEN Bad
      ELSE IF \A s \in DOMAIN part : part[s] = None THEN None
      ELSE Of("credit") - Of("debit")

Signed(f, value) ==
  IF value \in {None, Bad} THEN value
  ELSE LET magnitude == IF f \in Deductions THEN Abs(value) ELSE value
       IN  IF f \in Mapping.negate THEN -magnitude ELSE magnitude

Fill(cells) ==
  [f \in (DOMAIN cols \ Split) \cup {"currency"} \cup (IF IsSplit THEN {"amount"} ELSE {}) |->
     IF f = "currency" THEN CurrencyIn(cells)
     ELSE LET value == IF f = "amount" /\ IsSplit THEN SplitIn(cells)
                       ELSE Value(Kind.parse[f], cells[cols[f]])
          IN  IF f \in MoneyOf THEN Signed(f, value) ELSE value]

Of(row, f) == IF f \in DOMAIN row THEN row[f] ELSE None
Amount(row, f) == IF Of(row, f) = None THEN 0 ELSE row[f]
SumOf(row, S) == MapThenSumSet(LAMBDA f : Amount(row, f), S)

\* NET: what a batch or a delivery line pays, when no column says.
Net(row) ==
  CASE Mapping.kind = "settlement_batches" ->
         IF Of(row, "gross") = None THEN None
         ELSE row["gross"] - SumOf(row, {"fees", "chargebacks"}) + Amount(row, "adjustments")
    [] Mapping.kind = "delivery_lines" ->
         IF \A f \in Parts \cup Charges \cup {"adjustments"} : Of(row, f) = None THEN None
         ELSE SumOf(row, Parts) - SumOf(row, Charges) + Amount(row, "adjustments")
    [] OTHER -> None

WithNet(row) ==
  IF "net" \in Fields /\ "net" \notin DOMAIN cols THEN ("net" :> Net(row)) @@ row ELSE row

\* Mutant: the day is not part of what a line says.
LineUndated(row) == [f \in {"amount", "currency", "description", "type"} |-> Of(row, f)]

Line(row) == [f \in {"posted_on", "amount", "currency", "description", "type"} |-> Of(row, f)]

\* _fitid: what the line says, and which of its like it is.
Fitid(row) ==
  [is |-> "derived", line |-> Line(row),
   n |-> Cardinality({x \in seen : x.line = Line(row)}) + 1]

NeedsFitid(row) == Mapping.kind = "bank_deposits" /\ Of(row, "fitid") = None

Flawed(row) ==
  \/ \E f \in DOMAIN row : row[f] = Bad
  \/ \E f \in Kind.required \ Derivable : Of(row, f) = None

\* Mutant: rows are counted from the header on.
NumberFromHeader(k) == IF sheet.format = "ofx" THEN k ELSE sheet.first + k

\* The row's number in the file, as a spreadsheet shows it.
Number(k) == IF sheet.format = "ofx" THEN k ELSE sheet.first + k - 1

\* apply, one row: a row with nothing in a mapped column is passed over.
Row ==
  /\ todo # <<>> /\ at = "rows" /\ i <= Len(sheet.rows)
  /\ i' = i + 1
  /\ LET cells == sheet.rows[i]
         bare  == Fill(cells)
         fitid == Fitid(bare)
         row   == IF Flawed(bare) THEN bare
                  ELSE IF NeedsFitid(bare) THEN ("fitid" :> fitid) @@ bare ELSE WithNet(bare)
         bad   == \/ Flawed(bare)
                  \/ Mapping.kind = "delivery_lines" /\ "net" \notin DOMAIN cols /\ row["net"] = None
     IN  IF \A f \in DOMAIN cols : cells[cols[f]] = Blank THEN UNCHANGED <<out, seen>>
         ELSE /\ seen' = IF ~bad /\ NeedsFitid(bare) THEN seen \cup {fitid} ELSE seen
              /\ out' = IF ~bad
                        THEN [out EXCEPT !.rows = Append(@, [n |-> Number(i), row |-> row])]
                        ELSE IF Mapping.skip THEN [out EXCEPT !.skipped = @ \cup {Number(i)}]
                        ELSE [out EXCEPT !.bad = @ + 1]
  /\ UNCHANGED <<todo, at, sheet, cols, kept>>

\* A bad row that is not skipped refuses the file; so does having read none.
End ==
  /\ todo # <<>> /\ at = "rows" /\ i > Len(sheet.rows)
  /\ Answer(out.bad > 0 \/ out.rows = <<>>,
            IF out.bad > 0 THEN <<>> ELSE out.rows, IF out.bad > 0 THEN {} ELSE out.skipped)

ReadNext == Read \/ Preview \/ Check \/ Row \/ End

ReadSpec == ReadInit /\ [][ReadNext]_readingVars

-----------------------------------------------------------------------------
(* What a file says, found in the file itself.                               *)

Stored == {k \in DOMAIN kept : ~kept[k].refused /\ kept[k].upload.what = "upload"}
RowsOf(a) == {a.rows[k] : k \in DOMAIN a.rows}

PlacedAt(s, n) == {k \in DOMAIN s : s[k].p = n \/ (s[k].p = None /\ k = n)}
TagsIn(tags, n) ==
  LET opens  == {k \in DOMAIN tags : tags[k].tag = "STMTTRN" /\ ~tags[k].close}
      first  == CHOOSE k \in opens : Cardinality({j \in opens : j <= k}) = n
      behind == {k \in DOMAIN tags : k > first /\ tags[k].tag = "STMTTRN"}
  IN  {k \in DOMAIN tags : k > first /\ \A j \in behind : k < j}

\* The cell of row n under, or tagged with, a name.
CellAt(file, header_row, n, name) ==
  LET title == [is |-> "text", text |-> name]
  IN  CASE file.format = "csv" ->
             LET j == CHOOSE k \in DOMAIN file.grid[header_row] : file.grid[header_row][k] = title
             IN  IF j \in DOMAIN file.grid[n] THEN file.grid[n][j] ELSE Blank
        [] file.format = "xlsx" ->
             LET InRow(r) == UNION {ToSet(file.rows[k].cells) : k \in PlacedAt(file.rows, r)}
                 head  == CHOOSE c \in InRow(header_row) : c.cell = title
                 under == {c \in InRow(n) : c.p = head.p}
             IN  IF under = {} THEN Blank ELSE (CHOOSE c \in under : TRUE).cell
        [] file.format = "ofx" ->
             LET tagged == {k \in TagsIn(file.tags, n) : file.tags[k].tag = name}
             IN  IF tagged = {} THEN Blank ELSE file.tags[CHOOSE k \in tagged : TRUE].cell

NumbersOf(file, header_row) ==
  CASE file.format = "csv" -> (header_row + 1)..Len(file.grid)
    [] file.format = "xlsx" -> {n \in (header_row + 1)..MaxRows : PlacedAt(file.rows, n) # {}}
    [] file.format = "ofx" -> 1..Cardinality({k \in DOMAIN file.tags :
                                  file.tags[k].tag = "STMTTRN" /\ ~file.tags[k].close})

\* A printed amount is money out if it bears a mark of it.
Meant(cell) ==
  IF cell.brackets \/ cell.before \/ cell.after \/ cell.side = "DR" THEN -cell.n ELSE cell.n

\* A dash beside another mark of money out: inside brackets, before DR, or twice.
MarkedTwice(cell) ==
  \/ cell.before /\ cell.after
  \/ (cell.before \/ cell.after) /\ (cell.brackets \/ cell.side = "DR")

\* What a date cell says, a day or none.
DaySaid(m, cell) ==
  LET turned == m.day_first /\ ~cell.told
      month  == IF turned THEN cell.second ELSE cell.first
      day    == IF turned THEN cell.first ELSE cell.second
      leap   == cell.year % 400 = 0 \/ (cell.year % 4 = 0 /\ cell.year % 100 # 0)
      last   == <<31, IF leap THEN 29 ELSE 28, 31, 30, 31, 30, 31, 31, 30, 31, 30, 31>>
  IN  IF month \in DOMAIN last /\ day \in 1..last[month]
      THEN {[is |-> "day", year |-> cell.year, month |-> month, day |-> day]} ELSE {}

\* What field f of a row may hold, by what the file prints at it: one value, but
\* for a sign that is marked twice, of which only the amount is said.
Expected(m, f, cell) ==
  LET Turned(n) == IF f \in m.negate THEN -n ELSE n
  IN  CASE cell.is = "blank" -> {None}
        [] cell.is = "money" /\ f \in Deductions -> {Turned(cell.n)}
        [] cell.is = "money" /\ f \notin Deductions ->
             IF MarkedTwice(cell) THEN {cell.n, -cell.n} ELSE {Turned(Meant(cell))}
        [] cell.is = "date" -> DaySaid(m, cell)
        [] OTHER -> {cell}

\* The currency of row n: its own, the statement's, or the mapping's.
CurrencySaid(m, file, n) ==
  LET Curdef == CHOOSE x \in DOMAIN file.tags : file.tags[x].tag = "CURDEF"
      cells  == IF file.format = "ofx"
                THEN <<CellAt(file, 1, n, "CURSYM"), CellAt(file, 1, n, "CURRENCY"), file.tags[Curdef].cell>>
                ELSE IF "currency" \in DOMAIN m.columns
                THEN <<CellAt(file, m.header_row, n, m.columns["currency"])>>
                ELSE <<>>
      told   == SelectSeq(cells, LAMBDA c : c # Blank)
  IN  IF told = <<>> THEN m.currency ELSE told[1].text

\* What is printed for a field and cannot be it.
Unreadable(m, f, cell) ==
  LET parse == IF f \in Split THEN "money" ELSE Kinds[m.kind].parse[f]
  IN  /\ cell # Blank
      /\ CASE parse = "date"     -> cell.is # "date" \/ DaySaid(m, cell) = {}
           [] parse = "money"    -> cell.is # "money" \/ cell.n > MaxMinor
           [] parse = "int"      -> cell.is # "count"
           [] parse = "currency" -> cell.is # "text" \/ cell.text \notin Codes
           [] OTHER              -> FALSE

\* A row whose cells At(f), and currency, are not all that its kind needs.
Wanting(m, At(_), currency) ==
  LET Empty(S) == \A f \in S \cap DOMAIN m.columns : At(f) = Blank
  IN  \/ \E f \in DOMAIN m.columns : Unreadable(m, f, At(f))
      \/ \E f \in Kinds[m.kind].required \ (Derivable \cup {"currency", "amount"}) : Empty({f})
      \/ "amount" \in Kinds[m.kind].required /\ Empty(Split \cup {"amount"})
      \/ currency = None
      \/ m.kind = "delivery_lines" /\ "net" \notin DOMAIN m.columns
           /\ Empty(Parts \cup Charges \cup {"adjustments"})

Checkable(m) ==
  {f \in DOMAIN m.columns : f \notin Split \cup {"currency", "card_last4", "account_last4"}}

\* "Applying a mapping refuses a file rather than guess": unless it is refused,
\* every row with something in a mapped column is kept under the number a
\* spreadsheet shows it at, with the amounts, days, words and currency of that
\* row, or, if it lacks what its kind needs or prints what cannot be read, is
\* listed as skipped; and no other row is.  A sign is what its one mark says; of
\* one marked twice the code makes money in (-12.00 DR, (-12.00) and 12.00- DR
\* all read as +12), and nothing is said of it here.
RowsAreTrue ==
  \A k \in Stored :
    LET a == kept[k]
        m == a.upload.mapping
        At(n, f) == CellAt(a.upload.file, m.header_row, n, m.columns[f])
        filled == {n \in NumbersOf(a.upload.file, m.header_row) :
                    \E f \in DOMAIN m.columns : At(n, f) # Blank}
    IN  /\ {r.n : r \in RowsOf(a)} \cup a.skipped = filled
        /\ a.skipped = {n \in filled : Wanting(m, LAMBDA f : At(n, f), CurrencySaid(m, a.upload.file, n))}
        /\ Len(a.rows) + Cardinality(a.skipped) = Cardinality(filled)
        /\ \A r \in RowsOf(a) :
             /\ \A f \in Checkable(m) : At(r.n, f) # Blank \/ f # "fitid" =>
                  r.row[f] \in Expected(m, f, At(r.n, f))
             /\ r.row["currency"] = CurrencySaid(m, a.upload.file, r.n)
             /\ DOMAIN m.columns \cap Split # {} =>
                  \A s \in Split : At(r.n, s) # Blank /\ At(r.n, CHOOSE o \in Split : o # s) = Blank =>
                    r.row["amount"] = IF s = "credit" THEN At(r.n, s).n ELSE -At(r.n, s).n
             /\ m.kind = "settlement_batches" /\ "net" \notin DOMAIN m.columns =>
                  r.row["net"] = Amount(r.row, "gross") - Amount(r.row, "fees")
                                   - Amount(r.row, "chargebacks") + Amount(r.row, "adjustments")

\* "Okwan never stores a card number", nor shows one: of no file is a value kept
\* or previewed that holds one in any grouping, nor more than four digits of
\* what a card column holds.
HasCard(cell) ==
  cell.is = "digits" /\ \E c \in Cards, k \in DOMAIN cell.groups :
    k + Len(c) - 1 <= Len(cell.groups) /\ SubSeq(cell.groups, k, k + Len(c) - 1) = c
CardsNeverKept ==
  \A k \in DOMAIN kept : \A r \in RowsOf(kept[k]) :
    IF kept[k].upload.what = "preview"
    THEN \A j \in DOMAIN r.row :
           /\ ~HasCard(r.row[j])
           /\ kept[k].upload.file.grid[kept[k].upload.mapping.header_row][j] \in
                {[is |-> "text", text |-> c] : c \in CardNames} => r.row[j].is \in {"last4", "blank"}
    ELSE LET m == kept[k].upload.mapping
         IN  \A f \in DOMAIN m.columns \ (Split \cup {"currency"}) :
               Kinds[m.kind].parse[f] \in {"text", "last4"} /\ r.row[f] # None =>
                 /\ ~HasCard(r.row[f])
                 /\ m.columns[f] \in CardNames => r.row[f].is = "last4"

\* "Stable across uploads of overlapping statements. Two identical lines on one
\* statement are told apart by their order": what two statements both hold gets
\* the same ids in both, each line its own, and no other line one of them.  This
\* is of one account's statements: _fitid leaves the account out, and like lines
\* of two accounts have one id.
FitidsTell ==
  LET Said(row)    == [f \in DOMAIN row \ {"fitid"} |-> row[f]]
      Lines(a)     == {Said(r.row) : r \in RowsOf(a)}
      Like(a, line) ==
        {k \in DOMAIN a.rows : a.rows[k].row["fitid"].is = "derived" /\ Said(a.rows[k].row) = line}
      Ids(a, line) == {a.rows[k].row["fitid"] : k \in Like(a, line)}
      statements   == {kept[k] : k \in {x \in Stored : kept[x].upload.mapping.kind = "bank_deposits"}}
  IN  \A x, y \in statements : \A line \in Lines(x) :
        /\ Cardinality(Ids(x, line)) = Cardinality(Like(x, line))
        /\ Cardinality(Like(x, line)) = Cardinality(Like(y, line)) => Ids(x, line) = Ids(y, line)
        /\ \A other \in Lines(y) \ {line} : Ids(x, line) \cap Ids(y, other) = {}
==================================================================================
