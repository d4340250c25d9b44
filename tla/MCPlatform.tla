----------------------------- MODULE MCPlatform -----------------------------
(***************************************************************************)
(* What the services stand on, each behaviour on one part of it: the ports *)
(* with two adapters (identities, the ledger, the books, a group that      *)
(* shares expenses, uploaded statements), the CSV files and their import.  *)
(* The other parts stay in one initial state.                              *)
(***************************************************************************)
EXTENDS AccountStores, TransactionStores, BookStores, SplitStores, StatementStores, CsvFiles, CsvImports,
    TLC
CONSTANTS k1, f1, b1, a1, anna, bea, cal, c1, c2, none
VARIABLE part

AllTopics == {"accounts", "budgets", "goals", "notifications", "rules", "reconciliations", "views",
              "schedules", "rates"}
AllChapters == {"users", "sessions", "events", "actions", "factors", "challenges", "passkeys", "ceremonies",
                "billing", "links", "jobs"}
Symmetric == Permutations({c1, c2})

-----------------------------------------------------------------------------
(* CSV: three delimiters, three orders of a date, three conventions, two notations *)

AllFormats == [delimiter : {Comma, Semicolon, TabStop}, order : {"YMD", "DMY", "MDY"},
               convention : {"signed", "pair", "direction"}, european : BOOLEAN]
PlainText == <<<<"a">>, Comma, Space, Semicolon, <<"b">>>>
QuotedText == <<Quote, <<"a">>, Quote, Return, Feed, Comma, TabStop, <<"b">>>>
AllEntries ==
    {[date |-> d, amount |-> IF t = PlainText THEN 123456 ELSE -1205, text |-> t] :
        d \in {<<2026, 4, 3>>, <<2026, 4, 13>>, <<2024, 2, 29>>}, t \in {PlainText, QuotedText}}
Fact(d, a, w) == [day |-> d, amount |-> a, words |-> w]
SomeFacts == {Fact(1, 5, {"rent"}), Fact(2, 5, {"rent"}), Fact(5, 5, {"rent", "may"}), Fact(1, 5, {"gas"}),
              Fact(1, 5, {"rent", "may"}), Fact(1, 7, {"rent"})}

-----------------------------------------------------------------------------
(* Statements: the bytes bind, or the queue does *)

AllQuotas == {<<1, 2>>, <<2, 1>>}

-----------------------------------------------------------------------------

PlatformInit ==
    /\ part \in {"accounts", "ledger", "books", "group", "statements", "file", "import"}
    /\ AccountStoresInit /\ (part # "accounts" => chapter = CHOOSE c \in Chapters : TRUE)
    /\ TransactionStoresInit
    /\ BookStoresInit /\ (part # "books" => topic = "accounts")
    /\ SplitStoresInit
    /\ StatementStoresInit /\ (part # "statements" => quota = CHOOSE q \in Quotas : TRUE)
    /\ CsvFilesInit /\ (part # "file" => format = CHOOSE f \in Formats : TRUE)
    /\ CsvImportsInit /\ (part # "import" => sheet = CHOOSE s \in [1..FileRows -> Facts] : TRUE)

\* A step of one part leaves the others alone.
StoresVars ==
    <<accountStoresVars, transactionStoresVars, bookStoresVars, splitStoresVars, statementStoresVars>>
FilesVars == <<csvFilesVars, csvImportsVars>>

StoresNext ==
    \/ /\ part = "accounts" /\ AccountStoresNext
       /\ UNCHANGED <<transactionStoresVars, bookStoresVars, splitStoresVars, statementStoresVars>>
    \/ /\ part = "ledger" /\ TransactionStoresNext
       /\ UNCHANGED <<accountStoresVars, bookStoresVars, splitStoresVars, statementStoresVars>>
    \/ /\ part = "books" /\ BookStoresNext
       /\ UNCHANGED <<accountStoresVars, transactionStoresVars, splitStoresVars, statementStoresVars>>
    \/ /\ part = "group" /\ SplitStoresNext
       /\ UNCHANGED <<accountStoresVars, transactionStoresVars, bookStoresVars, statementStoresVars>>
    \/ /\ part = "statements" /\ StatementStoresNext
       /\ UNCHANGED <<accountStoresVars, transactionStoresVars, bookStoresVars, splitStoresVars>>

PlatformNext ==
    /\ UNCHANGED part
    /\ \/ StoresNext /\ UNCHANGED FilesVars
       \/ part = "file" /\ CsvFilesNext /\ UNCHANGED <<StoresVars, csvImportsVars>>
       \/ part = "import" /\ CsvImportsNext /\ UNCHANGED <<StoresVars, csvFilesVars>>

PlatformSpec == PlatformInit /\ [][PlatformNext]_<<part, StoresVars, FilesVars>>
=============================================================================
