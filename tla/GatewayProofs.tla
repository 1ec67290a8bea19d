---------------------------- MODULE GatewayProofs ----------------------------
(***************************************************************************)
(* Proofs about metered requests, for any number of requests, call         *)
(* identifiers and candidates, any amounts and every setting of faults.    *)
(***************************************************************************)
EXTENDS Gateway, StreamRelay, TallyProofs, SequenceTheorems

\* Where a handler may stand.
Places == {"idle", "reserve", "upstream", "consume", "release", "usage",
           "settle", "commit", "record", "discard", "job", "cancel",
           "cancelled", "done"}

Calls == [id : Ids \cup {0}, mode : Modes \cup {"none"}, tries : 0 .. Candidates,
          available : Int]

\* What a usage log says of how a call ended, "" for nothing.
Codes == {"none", "", "blocked", "failed", "unlogged", "lost", "cancelled",
          "undercharged", "settle_error"}

Reports == [charged : Int, code : Codes]

LedgerTyped == ledger \in [{Account} -> [Keys -> [type : Bank!TxTypes, amount : Int]]]

HandlersTyped ==
  /\ setting \in Setting
  /\ hold \in [Ids -> Amounts]
  /\ req \in [Requests -> Calls]
  /\ at \in [Requests -> Places]
  /\ slot \in [Requests -> Slots]
  /\ final \in [Requests -> Nat]
  /\ gone \in [Requests -> BOOLEAN]
  /\ detached \in [Requests -> BOOLEAN]
  /\ class \in [Requests -> {"none", "undercharged", "settle_error"}]
  /\ report \in [Requests -> Reports]

QuotaTyped == allowance \in Int /\ term \in {"running", "over"} /\ waived \in Int

BankTyped == balance \in [{Account} -> Int] /\ frozen \in [{Account} -> Int]

TypeOK == LedgerTyped /\ HandlersTyped /\ QuotaTyped /\ BankTyped

-----------------------------------------------------------------------------
(* Wallet steps.                                                           *)

\* Nothing but the row of key k may change.
OnlyRow(k) == \A j \in Keys \ {k} : ledger'[Account][j] = ledger[Account][j]

\* A rewritten row leaves a typed ledger whose other rows are what they were.
LEMMA RowWritten ==
  ASSUME LedgerTyped, NEW k \in Keys, NEW t \in Bank!TxTypes, NEW a \in Int,
         Bank!WriteRow(Account, k, t, a)
  PROVE  /\ LedgerTyped' /\ OnlyRow(k)
         /\ ledger'[Account][k] = [type |-> t, amount |-> a]
BY DEF LedgerTyped, OnlyRow, Bank!WriteRow

LEMMA ReserveRow ==
  ASSUME LedgerTyped, BankTyped, NEW k \in Keys, NEW a \in Nat, Bank!Reserve(Account, k, a)
  PROVE  /\ LedgerTyped' /\ BankTyped' /\ OnlyRow(k)
         /\ Bank!Fresh(Account, k)
         /\ ledger'[Account][k] = [type |-> "reserve", amount |-> a]
<1>1. a \in Int /\ "reserve" \in Bank!TxTypes /\ Bank!WriteRow(Account, k, "reserve", a)
  BY DEF LedgerTyped, Bank!TxTypes, Bank!Reserve
<1>2. LedgerTyped' /\ OnlyRow(k) /\ ledger'[Account][k] = [type |-> "reserve", amount |-> a]
  BY <1>1, RowWritten
<1>3. /\ balance' \in [{Account} -> Int]
      /\ frozen' \in [{Account} -> Int]
  BY <1>1 DEF BankTyped, LedgerTyped, Bank!Reserve, Bank!Move
<1> QED
  BY <1>2, <1>3 DEF BankTyped, Bank!Reserve

LEMMA SettleRow ==
  ASSUME LedgerTyped, BankTyped, NEW k \in Keys, NEW a \in Nat, Bank!Settle(Account, k, a)
  PROVE  /\ LedgerTyped' /\ BankTyped' /\ OnlyRow(k)
         /\ Bank!Held(Account, k)
         /\ ledger'[Account][k] = [type |-> "charge", amount |-> a]
<1>1. a \in Int /\ "charge" \in Bank!TxTypes /\ Bank!WriteRow(Account, k, "charge", a)
  BY DEF LedgerTyped, Bank!TxTypes, Bank!Settle
<1>2. LedgerTyped' /\ OnlyRow(k) /\ ledger'[Account][k] = [type |-> "charge", amount |-> a]
  BY <1>1, RowWritten
<1>3. /\ balance' \in [{Account} -> Int]
      /\ frozen' \in [{Account} -> Int]
  BY <1>1 DEF BankTyped, LedgerTyped, Bank!Settle, Bank!Move
<1> QED
  BY <1>2, <1>3 DEF BankTyped, Bank!Settle

LEMMA CommitRow ==
  ASSUME LedgerTyped, BankTyped, NEW k \in Keys, Bank!Commit(Account, k)
  PROVE  /\ LedgerTyped' /\ BankTyped' /\ OnlyRow(k)
         /\ Bank!Held(Account, k)
         /\ ledger'[Account][k] = [type |-> "charge", amount |-> ledger[Account][k].amount]
<1>1. ledger[Account][k].amount \in Int /\ "charge" \in Bank!TxTypes /\ Bank!WriteRow(Account, k, "charge", ledger[Account][k].amount)
  BY DEF LedgerTyped, Bank!TxTypes, Bank!Commit
<1>2. LedgerTyped' /\ OnlyRow(k) /\ ledger'[Account][k] = [type |-> "charge", amount |-> ledger[Account][k].amount]
  BY <1>1, RowWritten
<1>3. /\ balance' \in [{Account} -> Int]
      /\ frozen' \in [{Account} -> Int]
  BY <1>1 DEF BankTyped, LedgerTyped, Bank!Commit, Bank!Move
<1> QED
  BY <1>2, <1>3 DEF BankTyped, Bank!Commit

LEMMA ReleaseRow ==
  ASSUME LedgerTyped, BankTyped, NEW k \in Keys, Bank!Release(Account, k)
  PROVE  /\ LedgerTyped' /\ BankTyped' /\ OnlyRow(k)
         /\ Bank!Held(Account, k)
         /\ ledger'[Account][k] = [type |-> "release", amount |-> ledger[Account][k].amount]
<1>1. ledger[Account][k].amount \in Int /\ "release" \in Bank!TxTypes /\ Bank!WriteRow(Account, k, "release", ledger[Account][k].amount)
  BY DEF LedgerTyped, Bank!TxTypes, Bank!Release
<1>2. LedgerTyped' /\ OnlyRow(k) /\ ledger'[Account][k] = [type |-> "release", amount |-> ledger[Account][k].amount]
  BY <1>1, RowWritten
<1>3. /\ balance' \in [{Account} -> Int]
      /\ frozen' \in [{Account} -> Int]
  BY <1>1 DEF BankTyped, LedgerTyped, Bank!Release, Bank!Move
<1> QED
  BY <1>2, <1>3 DEF BankTyped, Bank!Release

-----------------------------------------------------------------------------
(* Handler steps.                                                          *)

LEMMA PlacesAre ==
  /\ "idle" \in Places /\ "reserve" \in Places /\ "upstream" \in Places
  /\ "consume" \in Places /\ "release" \in Places /\ "usage" \in Places
  /\ "settle" \in Places /\ "commit" \in Places /\ "record" \in Places
  /\ "discard" \in Places /\ "job" \in Places /\ "cancel" \in Places
  /\ "cancelled" \in Places /\ "done" \in Places
BY DEF Places

LEMMA CodesAre ==
  /\ "" \in Codes /\ "blocked" \in Codes /\ "failed" \in Codes
  /\ "unlogged" \in Codes /\ "lost" \in Codes /\ "cancelled" \in Codes
  /\ "undercharged" \in Codes /\ "settle_error" \in Codes /\ "none" \in Codes
BY DEF Codes

LEMMA GivenUpCodes ==
  ASSUME NEW code \in {"failed", "unlogged", "lost", "cancelled"}
  PROVE  code \in Codes /\ code # ""
<1>1. code \in Codes
  BY CodesAre
<1>2. code # ""
  OBVIOUS
<1> QED
  BY <1>1, <1>2

LEMMA Went ==
  ASSUME HandlersTyped, NEW q \in Requests, NEW label \in Places, Goto(q, label)
  PROVE  /\ at' \in [Requests -> Places] /\ at'[q] = label
         /\ \A r \in Requests \ {q} : at'[r] = at[r]
BY DEF HandlersTyped, Goto

LEMMA Ends ==
  ASSUME HandlersTyped, NEW q \in Requests, NEW charged \in Int, NEW code \in Codes,
         Finish(q, charged, code)
  PROVE  /\ at' \in [Requests -> Places] /\ report' \in [Requests -> Reports]
         /\ at'[q] = "done" /\ report'[q].code = code
         /\ \A r \in Requests \ {q} : at'[r] = at[r] /\ report'[r] = report[r]
<1>1. /\ at' \in [Requests -> Places] /\ at'[q] = "done"
      /\ \A r \in Requests \ {q} : at'[r] = at[r]
  BY Went, PlacesAre DEF Finish
<1>2. [charged |-> charged, code |-> code] \in Reports
  BY DEF Reports
<1> QED
  BY <1>1, <1>2 DEF HandlersTyped, Finish

-----------------------------------------------------------------------------
(* The invariant.                                                          *)

\* A request that got past its admission has an id.
Admitted(r) == req[r].mode # "none"

\* No admitted request is a retry of the same call.
Alone(r) == \A q \in Requests \ {r} : Admitted(q) => req[q].id # req[r].id

\* What a handler is allowed to be at.
Standing(r) ==
  /\ at[r] = "idle" => ~Admitted(r)
  /\ Admitted(r) => req[r].id \in Ids
  /\ ~Admitted(r) => /\ req[r].id = 0 /\ at[r] \in {"idle", "done"}
                     /\ report[r].code # ""
  /\ at[r] \in {"idle", "reserve"} => slot[r] < Candidates
  /\ at[r] \notin {"usage", "settle", "commit", "done"} => slot[r] # UsageSlot
  /\ at[r] = "usage" => slot[r] = UsageSlot

\* The keys of the candidates a call has still to try are unused.
AheadIsFresh(r) ==
  Alone(r) /\ at[r] \in {"reserve", "upstream", "release"} =>
    \A s \in Slots :
      s > slot[r] \/ (at[r] = "reserve" /\ s = slot[r]) =>
        Bank!Fresh(Account, <<req[r].id, s>>)

\* The hold is open until the call is settled or given up.
HoldIsOpen(r) ==
  Alone(r) /\ slot[r] # UsageSlot /\ at[r] \in {"upstream", "consume", "settle"} =>
    Bank!Held(Account, Key(r))

\* A rejected settlement charged its cost or nothing; a report without evidence
\* is about a call that was charged its cost.
ChargeIsCost(r) ==
  Alone(r) /\ slot[r] # UsageSlot =>
    /\ at[r] = "commit" => Bank!Held(Account, Key(r)) \/ Charged(r) = final[r]
    /\ at[r] = "done" /\ report[r].code = "" => Charged(r) = final[r]

InvOf(r) == Standing(r) /\ AheadIsFresh(r) /\ HoldIsOpen(r) /\ ChargeIsCost(r)

\* An id nobody used has no row.
UnusedIds ==
  \A id \in Ids : (\A q \in Requests : req[q].id # id) =>
    \A s \in Slots : Bank!Fresh(Account, <<id, s>>)

IInv == TypeOK /\ UnusedIds /\ \A r \in Requests : InvOf(r)

-----------------------------------------------------------------------------
(* What other requests do.                                                 *)

\* All that a step of q may change.
Frame(q) ==
  /\ \A r \in Requests \ {q} :
       /\ req'[r] = req[r] /\ at'[r] = at[r] /\ slot'[r] = slot[r]
       /\ final'[r] = final[r] /\ report'[r] = report[r]
  /\ Admitted(q) => req'[q] = req[q] /\ OnlyRow(Key(q))
  /\ ~Admitted(q) => ledger' = ledger

LEMMA AloneBefore ==
  ASSUME IInv, TypeOK', NEW q \in Requests, Frame(q), NEW r \in Requests \ {q}, Alone(r)'
  PROVE  Alone(r)
<1> SUFFICES ASSUME NEW p \in Requests \ {r}, Admitted(p)
             PROVE  req[p].id # req[r].id
  BY DEF Alone
<1>1. req'[r] = req[r] /\ req'[p] = req[p]
  BY DEF Frame
<1> QED
  BY <1>1 DEF Alone, Admitted

\* No key of a call is touched by a request that is no retry of it.
LEMMA RowsKept ==
  ASSUME IInv, TypeOK', NEW q \in Requests, Frame(q), NEW r \in Requests \ {q}, Alone(r)',
         NEW s \in Slots, req[r].id \in Ids
  PROVE  ledger'[Account][<<req[r].id, s>>] = ledger[Account][<<req[r].id, s>>]
<1>1. CASE ~Admitted(q)
  BY <1>1 DEF Frame
<1>2. CASE Admitted(q)
  <2>1. req[q].id # req[r].id
    BY <1>2, AloneBefore DEF Alone
  <2>2. <<req[r].id, s>> \in Keys \ {Key(q)}
    BY <2>1 DEF Keys, Key
  <2> QED
    BY <1>2, <2>2 DEF Frame, OnlyRow
<1> QED
  BY <1>1, <1>2

LEMMA OthersKept ==
  ASSUME IInv, TypeOK', NEW q \in Requests, Frame(q), NEW r \in Requests \ {q}
  PROVE  InvOf(r)'
<1>1. /\ req'[r] = req[r] /\ at'[r] = at[r] /\ slot'[r] = slot[r]
      /\ final'[r] = final[r] /\ report'[r] = report[r]
  BY DEF Frame
<1>2. Standing(r)'
  BY <1>1 DEF IInv, InvOf, Standing, Admitted
<1> SUFFICES ASSUME Alone(r)'
             PROVE  (AheadIsFresh(r) /\ HoldIsOpen(r) /\ ChargeIsCost(r))'
  BY <1>2 DEF InvOf, AheadIsFresh, HoldIsOpen, ChargeIsCost
<1>3. Alone(r)
  BY AloneBefore
<1>4. CASE req[r].id \in Ids
  <2>1. \A s \in Slots :
          ledger'[Account][<<req[r].id, s>>] = ledger[Account][<<req[r].id, s>>]
    BY <1>4, RowsKept
  <2>2. Key(r)' = Key(r) /\ ledger'[Account][Key(r)] = ledger[Account][Key(r)]
    BY <1>1, <2>1 DEF Key, IInv, TypeOK, HandlersTyped
  <2>3. AheadIsFresh(r)'
    BY <1>1, <1>3, <2>1 DEF IInv, InvOf, AheadIsFresh, Bank!Fresh
  <2>4. HoldIsOpen(r)'
    BY <1>1, <1>3, <2>2 DEF IInv, InvOf, HoldIsOpen, Bank!Held
  <2>5. ChargeIsCost(r)'
    BY <1>1, <1>3, <2>2 DEF IInv, InvOf, ChargeIsCost, Charged, Billed, Bank!Held
  <2> QED
    BY <2>3, <2>4, <2>5
<1>5. CASE req[r].id \notin Ids
  <2>1. ~Admitted(r) /\ at[r] \in {"idle", "done"} /\ report[r].code # ""
    BY <1>5 DEF IInv, InvOf, Standing
  <2> QED
    BY <1>1, <1>3, <2>1 DEF AheadIsFresh, HoldIsOpen, ChargeIsCost
<1> QED
  BY <1>4, <1>5

LEMMA UnusedKept ==
  ASSUME IInv, TypeOK', NEW q \in Requests, Frame(q)
  PROVE  UnusedIds'
<1> SUFFICES ASSUME NEW id \in Ids, \A p \in Requests : req'[p].id # id, NEW s \in Slots
             PROVE  Bank!Fresh(Account, <<id, s>>)'
  BY DEF UnusedIds
<1>1. \A p \in Requests : req[p].id # id
  BY RequestsAssumption DEF Frame, IInv, InvOf, Standing
<1>2. Bank!Fresh(Account, <<id, s>>)
  BY <1>1 DEF IInv, UnusedIds
<1>3. ledger'[Account][<<id, s>>] = ledger[Account][<<id, s>>]
  <2>1. CASE ~Admitted(q)
    BY <2>1 DEF Frame
  <2>2. CASE Admitted(q)
    <3>1. <<id, s>> \in Keys \ {Key(q)}
      BY <1>1 DEF Keys, Key
    <3> QED
      BY <2>2, <3>1 DEF Frame, OnlyRow
  <2> QED
    BY <2>1, <2>2
<1> QED
  BY <1>2, <1>3 DEF Bank!Fresh

-----------------------------------------------------------------------------
(* Steps before the wallet is asked.                                       *)

\* What a step of request q has to establish.
Sustained(q) == TypeOK' /\ Frame(q) /\ InvOf(q)'

LEMMA RefuseStep ==
  ASSUME IInv, NEW q \in Requests, Refuse(q)
  PROVE  Sustained(q)
<1>0. HandlersTyped /\ Finish(q, 0, "blocked") /\ "blocked" \in Codes
  BY CodesAre DEF IInv, TypeOK, Refuse
<1>1. TypeOK'
  <2>1. at' \in [Requests -> Places] /\ report' \in [Requests -> Reports]
    BY <1>0, Ends
  <2> QED
    BY <2>1 DEF IInv, TypeOK, HandlersTyped, Refuse, given, wallet, quota,
         LedgerTyped, QuotaTyped, BankTyped
<1>2. Frame(q)
  BY DEF IInv, TypeOK, HandlersTyped, Refuse, Finish, Goto, given, wallet, Frame, OnlyRow
<1>3. InvOf(q)'
  BY DEF IInv, TypeOK, HandlersTyped, InvOf, Standing, Admitted, AheadIsFresh, HoldIsOpen,
         ChargeIsCost, Refuse, Arriving, Finish, Goto, given, wallet
<1> QED
  BY <1>1, <1>2, <1>3 DEF Sustained

\* An admission names a handler, an id and a number of tries.
LEMMA Arrival ==
  ASSUME IInv, NEW q \in Requests, Arrive(q)
  PROVE  /\ at[q] = "idle"
         /\ UNCHANGED <<given, wallet, quota, slot, final, gone, detached, class>>
         /\ \E id \in Ids, mode \in Modes, tries \in 1 .. Candidates :
              /\ req' = [req EXCEPT ![q] = [id |-> id, mode |-> mode, tries |-> tries,
                                           available |-> Bank!Available(Account)]]
              /\ \/ Goto(q, "reserve") /\ UNCHANGED report
                 \/ Finish(q, 0, "blocked")
<1>1. ASSUME NEW mode \in Modes, NEW tries \in 1 .. Candidates, Gated(q, mode, tries)
      PROVE  \E id \in Ids :
              /\ req' = [req EXCEPT ![q] = [id |-> id, mode |-> mode, tries |-> tries,
                                           available |-> Bank!Available(Account)]]
              /\ \/ Goto(q, "reserve") /\ UNCHANGED report
                 \/ Finish(q, 0, "blocked")
  BY <1>1 DEF Gated
<1>2. \E mode \in Modes, tries \in 1 .. Candidates : Gated(q, mode, tries)
  BY CandidatesAssumption DEF Arrive, ChatArrives, RelayArrives, StreamArrives,
         EndpointArrives, RawArrives, VideoArrives, Modes
<1> QED
  BY <1>1, <1>2 DEF Arrive, Arriving

LEMMA ArriveStep ==
  ASSUME IInv, NEW q \in Requests, Arrive(q)
  PROVE  Sustained(q)
<1>1. PICK id \in Ids, mode \in Modes, tries \in 1 .. Candidates :
         /\ req' = [req EXCEPT ![q] = [id |-> id, mode |-> mode, tries |-> tries,
                                      available |-> Bank!Available(Account)]]
         /\ \/ Goto(q, "reserve") /\ UNCHANGED report
            \/ Finish(q, 0, "blocked")
  BY Arrival
<1>2. /\ at[q] = "idle" /\ ~Admitted(q) /\ slot[q] < Candidates
      /\ UNCHANGED <<given, wallet, quota, slot, final, gone, detached, class>>
  BY Arrival DEF IInv, InvOf, Standing
<1>0. HandlersTyped /\ "blocked" \in Codes /\ "reserve" \in Places
  BY CodesAre, PlacesAre DEF IInv, TypeOK
<1>3. TypeOK'
  <2>1. Bank!Available(Account) \in Int
    BY DEF Bank!Available, IInv, TypeOK, BankTyped
  <2>2. [id |-> id, mode |-> mode, tries |-> tries, available |-> Bank!Available(Account)] \in Calls
    BY <2>1, CandidatesAssumption DEF Calls
  <2>3. req' \in [Requests -> Calls]
    BY <1>1, <2>2 DEF IInv, TypeOK, HandlersTyped
  <2>4. at' \in [Requests -> Places] /\ report' \in [Requests -> Reports]
    <3>1. CASE Goto(q, "reserve") /\ UNCHANGED report
      BY <1>0, <3>1, Went DEF HandlersTyped
    <3>2. CASE Finish(q, 0, "blocked")
      BY <1>0, <3>2, Ends
    <3> QED
      BY <1>1, <3>1, <3>2
  <2> QED
    BY <1>2, <2>3, <2>4 DEF IInv, TypeOK, HandlersTyped, LedgerTyped, QuotaTyped, BankTyped,
       given, wallet, quota
<1>4. Frame(q)
  BY <1>1, <1>2 DEF IInv, TypeOK, HandlersTyped, Frame, Goto, Finish, wallet
<1>5. InvOf(q)'
  <2>1. /\ req'[q].id = id /\ req'[q].mode # "none" /\ slot'[q] = slot[q]
        /\ at'[q] = "reserve" \/ (at'[q] = "done" /\ report'[q].code = "blocked")
    BY <1>1, <1>2 DEF IInv, TypeOK, HandlersTyped, Goto, Finish, Modes
  <2>2. Standing(q)'
    <3>1. slot[q] \in Int /\ Candidates \in Int /\ slot[q] # Candidates
      BY <1>2, CandidatesAssumption DEF IInv, TypeOK, HandlersTyped, Slots
    <3> QED
      BY <1>2, <2>1, <3>1 DEF Standing, Admitted, UsageSlot
  <2>3. ASSUME Alone(q)', NEW s \in Slots PROVE Bank!Fresh(Account, <<id, s>>)
    <3>1. \A p \in Requests : req[p].id # id
      <4> TAKE p \in Requests
      <4>1. CASE p = q
        BY <1>2, <4>1, RequestsAssumption DEF IInv, InvOf, Standing
      <4>2. CASE p # q
        <5>1. req'[p] = req[p]
          BY <4>2, <1>4 DEF Frame
        <5>2. Admitted(p) => req[p].id # id
          BY <2>1, <2>3, <4>2, <5>1 DEF Alone, Admitted
        <5> QED
          BY <5>2, RequestsAssumption DEF IInv, InvOf, Standing
      <4> QED
        BY <4>1, <4>2
    <3> QED
      BY <3>1 DEF IInv, UnusedIds
  <2>4. AheadIsFresh(q)'
    BY <1>2, <2>1, <2>3 DEF AheadIsFresh, Bank!Fresh, wallet
  <2>5. HoldIsOpen(q)' /\ ChargeIsCost(q)'
    BY <2>1 DEF HoldIsOpen, ChargeIsCost
  <2> QED
    BY <2>2, <2>4, <2>5 DEF InvOf
<1> QED
  BY <1>3, <1>4, <1>5 DEF Sustained

-----------------------------------------------------------------------------
(* Steps of an admitted request.                                           *)

LEMMA Acting ==
  ASSUME IInv, NEW q \in Requests, at[q] \notin {"idle", "done"}
  PROVE  /\ LedgerTyped /\ HandlersTyped /\ QuotaTyped /\ BankTyped
         /\ Admitted(q) /\ InvOf(q)
         /\ req[q].id \in Ids /\ Key(q) \in Keys /\ Key(q) = <<req[q].id, slot[q]>>
         /\ hold[req[q].id] \in Nat /\ final[q] \in Nat
         /\ slot[q] \in Slots /\ slot[q] \in Int /\ Candidates \in Int
<1>1. /\ LedgerTyped /\ HandlersTyped /\ QuotaTyped /\ BankTyped /\ InvOf(q)
      /\ Admitted(q) /\ req[q].id \in Ids
  BY DEF IInv, TypeOK, InvOf, Standing
<1>2. /\ hold[req[q].id] \in Nat /\ final[q] \in Nat
      /\ slot[q] \in Slots /\ slot[q] \in Int /\ Candidates \in Int
  BY <1>1, CandidatesAssumption DEF HandlersTyped, Amounts, Slots
<1>3. Key(q) \in Keys /\ Key(q) = <<req[q].id, slot[q]>>
  BY <1>1, <1>2 DEF Key, Keys
<1> QED
  BY <1>1, <1>2, <1>3

\* Only variables of q change, and no row but its own.
Own(q) ==
  /\ req' = req
  /\ ledger' = ledger \/ OnlyRow(Key(q))
  /\ \A r \in Requests \ {q} :
       at'[r] = at[r] /\ slot'[r] = slot[r] /\ final'[r] = final[r] /\ report'[r] = report[r]

LEMMA OwnFrame ==
  ASSUME NEW q \in Requests, Admitted(q), Own(q)
  PROVE  Frame(q) /\ Admitted(q)' /\ Alone(q)' = Alone(q)
BY DEF Own, Frame, Admitted, Alone, OnlyRow

LEMMA ReserveStep ==
  ASSUME IInv, NEW q \in Requests, Reserve(q)
  PROVE  Sustained(q)
<1> DEFINE k == Key(q)
           a == hold[req[q].id]
<1>0. /\ at[q] = "reserve" /\ "upstream" \in Places /\ "blocked" \in Codes
      /\ UNCHANGED <<given, quota, req, slot, final, gone, detached, class>>
  BY PlacesAre, CodesAre DEF Reserve
<1>a. /\ LedgerTyped /\ HandlersTyped /\ QuotaTyped /\ BankTyped
      /\ Admitted(q) /\ InvOf(q)
      /\ req[q].id \in Ids /\ k \in Keys /\ k = <<req[q].id, slot[q]>>
      /\ a \in Nat /\ final[q] \in Nat
      /\ slot[q] \in Slots /\ slot[q] \in Int /\ Candidates \in Int
  BY <1>0, Acting
<1>b. slot[q] # UsageSlot
  BY <1>0, <1>a DEF InvOf, Standing
<1>1. ASSUME Finish(q, 0, "blocked"), \/ UNCHANGED wallet
                                      \/ Bank!Reserve(Account, k, a)
      PROVE  Sustained(q)
  <2>1. LedgerTyped' /\ BankTyped' /\ (ledger' = ledger \/ OnlyRow(k))
    BY <1>1, <1>a, ReserveRow DEF wallet, LedgerTyped, BankTyped
  <2>2. /\ at' \in [Requests -> Places] /\ report' \in [Requests -> Reports]
        /\ at'[q] = "done" /\ report'[q].code = "blocked"
        /\ \A r \in Requests \ {q} : at'[r] = at[r] /\ report'[r] = report[r]
    BY <1>0, <1>1, <1>a, Ends
  <2>3. TypeOK'
    BY <1>0, <1>a, <2>1, <2>2 DEF TypeOK, HandlersTyped, QuotaTyped, given, quota
  <2>4. Own(q)
    BY <1>0, <2>1, <2>2 DEF Own
  <2>5. InvOf(q)'
    BY <1>0, <1>a, <2>2 DEF InvOf, Standing, Admitted, AheadIsFresh, HoldIsOpen, ChargeIsCost
  <2> QED
    BY <1>a, <2>3, <2>4, <2>5, OwnFrame DEF Sustained
<1>2. ASSUME Goto(q, "upstream"), UNCHANGED report,
             \/ Bank!Reserve(Account, k, a)
             \/ UNCHANGED wallet /\ ~Bank!Fresh(Account, k)
      PROVE  Sustained(q)
  <2>1. LedgerTyped' /\ BankTyped' /\ (ledger' = ledger \/ OnlyRow(k))
    BY <1>2, <1>a, ReserveRow DEF wallet, LedgerTyped, BankTyped
  <2>2. /\ at' \in [Requests -> Places] /\ at'[q] = "upstream"
        /\ \A r \in Requests \ {q} : at'[r] = at[r]
    BY <1>0, <1>2, <1>a, Went
  <2>3. TypeOK'
    BY <1>0, <1>2, <1>a, <2>1, <2>2 DEF TypeOK, HandlersTyped, QuotaTyped, given, quota
  <2>4. Own(q)
    BY <1>0, <1>2, <2>1, <2>2 DEF Own
  <2>5. Frame(q) /\ Admitted(q)' /\ Alone(q)' = Alone(q)
    BY <1>a, <2>4, OwnFrame
  <2>6. Standing(q)'
    BY <1>0, <1>a, <1>b, <2>2, <2>5 DEF InvOf, Standing, UsageSlot
  <2>7. ASSUME Alone(q)
        PROVE  /\ ledger'[Account][k].type = "reserve"
               /\ \A s \in Slots : s > slot[q] =>
                    ledger'[Account][<<req[q].id, s>>].type = "none"
    <3>1. \A s \in Slots : s >= slot[q] => Bank!Fresh(Account, <<req[q].id, s>>)
      BY <1>0, <1>a, <2>7 DEF InvOf, AheadIsFresh, Slots
    <3>2. Bank!Reserve(Account, k, a)
      BY <1>2, <1>a, <3>1
    <3>3. ledger'[Account][k] = [type |-> "reserve", amount |-> a] /\ OnlyRow(k)
      BY <1>a, <3>2, ReserveRow
    <3>5. ledger'[Account][k].type = "reserve" /\ OnlyRow(k)
      BY <3>3
    <3>4. ASSUME NEW s \in Slots, s > slot[q] PROVE <<req[q].id, s>> \in Keys \ {k}
      BY <1>a, <3>4 DEF Keys
    <3> QED
      BY <1>a, <3>1, <3>5, <3>4 DEF OnlyRow, Bank!Fresh, Slots
  <2>8. (AheadIsFresh(q) /\ HoldIsOpen(q) /\ ChargeIsCost(q))'
    BY <1>0, <1>a, <2>2, <2>5, <2>7
       DEF AheadIsFresh, HoldIsOpen, ChargeIsCost, Bank!Fresh, Bank!Held, Key
  <2> QED
    BY <2>3, <2>5, <2>6, <2>8 DEF Sustained, InvOf
<1> QED
  BY <1>1, <1>2 DEF Reserve

\* A step of q that stays with its candidate and does not call the upstream
\* (again): what is left to show of it.
LEMMA Advanced ==
  ASSUME IInv, NEW q \in Requests, at[q] \notin {"idle", "done"}, Own(q),
         LedgerTyped', BankTyped', QuotaTyped', HandlersTyped',
         slot' = slot,
         at'[q] \in {"consume", "settle", "commit", "record", "discard", "job",
                    "cancel", "cancelled", "done"},
         at'[q] \in {"settle", "commit", "done"} \/ slot[q] # UsageSlot,
         Alone(q) /\ slot[q] # UsageSlot =>
           /\ at'[q] \in {"consume", "settle"} => Bank!Held(Account, Key(q))'
           /\ at'[q] = "commit" =>
                Bank!Held(Account, Key(q))' \/ Charged(q)' = final'[q]
           /\ at'[q] = "done" /\ report'[q].code = "" => Charged(q)' = final'[q]
  PROVE  Sustained(q)
<1>1. TypeOK'
  BY DEF TypeOK
<1>2. Admitted(q) /\ req[q].id \in Ids
  BY Acting
<1>3. Frame(q) /\ Admitted(q)' /\ Alone(q)' = Alone(q)
  BY <1>2, OwnFrame
<1>4. req' = req
  BY DEF Own
<1>5. Standing(q)'
  BY <1>2, <1>3, <1>4 DEF Standing, UsageSlot
<1>6. AheadIsFresh(q)'
  BY DEF AheadIsFresh
<1>7. HoldIsOpen(q)' /\ ChargeIsCost(q)'
  BY <1>3 DEF HoldIsOpen, ChargeIsCost, UsageSlot
<1> QED
  BY <1>1, <1>3, <1>5, <1>6, <1>7 DEF Sustained, InvOf

LEMMA UpstreamOKStep ==
  ASSUME IInv, NEW q \in Requests, UpstreamOK(q)
  PROVE  Sustained(q)
<1>0. /\ at[q] = "upstream"
      /\ UNCHANGED <<given, wallet, quota, req, slot, gone, class, report>>
  BY DEF UpstreamOK
<1>a. /\ LedgerTyped /\ HandlersTyped /\ QuotaTyped /\ BankTyped /\ InvOf(q)
      /\ hold[req[q].id] \in Nat /\ slot[q] # UsageSlot
  BY <1>0, Acting DEF InvOf, Standing
<1>1. PICK cost \in Nat, label \in {"consume", "settle"}, own \in BOOLEAN :
         /\ final' = [final EXCEPT ![q] = cost]
         /\ Goto(q, label)
         /\ detached' = [detached EXCEPT ![q] = own]
  <2>1. ASSUME NEW costs \in SUBSET Nat, NEW own \in BOOLEAN, Answered(q, costs, own)
        PROVE  \E cost \in Nat, label \in {"consume", "settle"}, o \in BOOLEAN :
                 /\ final' = [final EXCEPT ![q] = cost]
                 /\ Goto(q, label)
                 /\ detached' = [detached EXCEPT ![q] = o]
    BY <2>1 DEF Answered
  <2>2. AnyCost \in SUBSET Nat /\ 0 .. hold[req[q].id] \in SUBSET Nat
    BY <1>a DEF AnyCost
  <2>3. \E costs \in SUBSET Nat, own \in BOOLEAN : Answered(q, costs, own)
    BY <2>2 DEF UpstreamOK, ChatAnswered, RelayAnswered, StreamAnswered,
         EndpointAnswered, RawAnswered, VideoAnswered
  <2> QED
    BY <2>1, <2>3
<1>2. label \in Places
  BY PlacesAre
<1>3. /\ at' \in [Requests -> Places] /\ at'[q] = label
      /\ \A r \in Requests \ {q} : at'[r] = at[r]
  BY <1>1, <1>2, <1>a, Went
<1>4. HandlersTyped'
  BY <1>0, <1>1, <1>3, <1>a DEF HandlersTyped, given
<1>5. LedgerTyped' /\ QuotaTyped' /\ BankTyped'
  BY <1>0, <1>a DEF LedgerTyped, QuotaTyped, BankTyped, wallet, quota
<1>6. Own(q)
  BY <1>0, <1>1, <1>3, <1>a DEF Own, wallet, HandlersTyped
<1>7. Alone(q) => Bank!Held(Account, Key(q))'
  BY <1>0, <1>a DEF InvOf, HoldIsOpen, Bank!Held, Key, wallet
<1> QED
  BY <1>0, <1>1, <1>3, <1>4, <1>5, <1>6, <1>7, <1>a, Advanced

LEMMA ConsumeStep ==
  ASSUME IInv, NEW q \in Requests, Consume(q)
  PROVE  Sustained(q)
<1>0. /\ at[q] = "consume" /\ Goto(q, "settle") /\ "settle" \in Places
      /\ UNCHANGED <<given, wallet, req, slot, gone, detached, class, report>>
      /\ \/ final' = [final EXCEPT ![q] = 0]
         \/ final' = final
  BY PlacesAre DEF Consume
<1>a. /\ LedgerTyped /\ HandlersTyped /\ QuotaTyped /\ BankTyped /\ InvOf(q)
      /\ final[q] \in Nat /\ slot[q] # UsageSlot
  BY <1>0, Acting DEF InvOf, Standing
<1>3. /\ at' \in [Requests -> Places] /\ at'[q] = "settle"
      /\ \A r \in Requests \ {q} : at'[r] = at[r]
  BY <1>0, <1>a, Went
<1>4. HandlersTyped'
  BY <1>0, <1>3, <1>a DEF HandlersTyped, given
<1>5. LedgerTyped' /\ QuotaTyped' /\ BankTyped'
  <2>1. final[q] \in Int /\ Remaining \in Int
    BY <1>a DEF HandlersTyped, Setting, QuotaTyped, Remaining
  <2>2. \/ UNCHANGED quota
        \/ /\ allowance' = Remaining - final[q] /\ term' = "running"
           /\ waived' = waived + final[q] \/ waived' = waived
    BY DEF Consume, quota
  <2>3. QuotaTyped'
    BY <1>a, <2>1, <2>2 DEF QuotaTyped, quota
  <2> QED
    BY <1>0, <1>a, <2>3 DEF LedgerTyped, BankTyped, wallet
<1>6. Own(q)
  BY <1>0, <1>3, <1>a DEF Own, wallet, HandlersTyped
<1>7. Alone(q) => Bank!Held(Account, Key(q))'
  BY <1>0, <1>a DEF InvOf, HoldIsOpen, Bank!Held, Key, wallet
<1> QED
  BY <1>0, <1>3, <1>4, <1>5, <1>6, <1>7, <1>a, Advanced

LEMMA UpstreamFailsStep ==
  ASSUME IInv, NEW q \in Requests, UpstreamFails(q)
  PROVE  Sustained(q)
<1>0. /\ at[q] = "upstream" /\ Goto(q, "release") /\ "release" \in Places
      /\ UNCHANGED <<given, wallet, quota, req, slot, final, gone, class, report>>
  BY PlacesAre DEF UpstreamFails
<1>a. /\ LedgerTyped /\ HandlersTyped /\ QuotaTyped /\ BankTyped /\ InvOf(q)
      /\ Admitted(q) /\ slot[q] # UsageSlot
  BY <1>0, Acting DEF InvOf, Standing
<1>1. detached' \in [Requests -> BOOLEAN]
  BY <1>a DEF UpstreamFails, ChatFails, EndpointFails, RawFails, VideoFails, LoopFails,
       RelayFails, StreamFails, HandlersTyped
<1>2. /\ at' \in [Requests -> Places] /\ at'[q] = "release"
      /\ \A r \in Requests \ {q} : at'[r] = at[r]
  BY <1>0, <1>a, Went
<1>3. TypeOK'
  BY <1>0, <1>1, <1>2, <1>a DEF TypeOK, HandlersTyped, LedgerTyped, QuotaTyped, BankTyped,
       given, wallet, quota
<1>4. Own(q)
  BY <1>0, <1>2 DEF Own, wallet
<1>5. Frame(q) /\ Admitted(q)' /\ Alone(q)' = Alone(q)
  BY <1>4, <1>a, OwnFrame
<1>6. Standing(q)'
  BY <1>0, <1>2, <1>5, <1>a DEF InvOf, Standing, UsageSlot
<1>7. AheadIsFresh(q)'
  BY <1>0, <1>2, <1>5, <1>a DEF InvOf, AheadIsFresh, Bank!Fresh, wallet
<1>8. HoldIsOpen(q)' /\ ChargeIsCost(q)'
  BY <1>2 DEF HoldIsOpen, ChargeIsCost
<1> QED
  BY <1>3, <1>5, <1>6, <1>7, <1>8 DEF Sustained, InvOf

-----------------------------------------------------------------------------
(* Steps that release a hold.                                              *)

LEMMA ReleaseCallRow ==
  ASSUME LedgerTyped, BankTyped, NEW q \in Requests, Key(q) \in Keys, ReleaseCall(q)
  PROVE  LedgerTyped' /\ BankTyped' /\ OnlyRow(Key(q))
<1>1. CASE Bank!Release(Account, Key(q))
  BY <1>1, ReleaseRow
<1>2. CASE UNCHANGED wallet
  BY <1>2 DEF wallet, LedgerTyped, BankTyped, OnlyRow
<1> QED
  BY <1>1, <1>2 DEF ReleaseCall

LEMMA ReleaseStep ==
  ASSUME IInv, NEW q \in Requests, Release(q)
  PROVE  Sustained(q)
<1>0. /\ at[q] = "release" /\ ReleaseCall(q)
      /\ detached' = [detached EXCEPT ![q] = FALSE]
      /\ UNCHANGED <<given, quota, req, gone, class>>
      /\ "reserve" \in Places /\ "usage" \in Places
      /\ "failed" \in Codes /\ "unlogged" \in Codes
  BY PlacesAre, CodesAre DEF Release
<1>a. /\ LedgerTyped /\ HandlersTyped /\ QuotaTyped /\ BankTyped /\ InvOf(q)
      /\ Admitted(q) /\ slot[q] # UsageSlot /\ req[q].id \in Ids
      /\ Key(q) \in Keys /\ Key(q) = <<req[q].id, slot[q]>>
      /\ slot[q] \in Slots /\ slot[q] \in Int /\ Candidates \in Nat
  BY <1>0, Acting, CandidatesAssumption DEF InvOf, Standing
<1>b. LedgerTyped' /\ BankTyped' /\ OnlyRow(Key(q)) /\ QuotaTyped'
  BY <1>0, <1>a, ReleaseCallRow DEF QuotaTyped, quota
<1>1. CASE NextCandidate(q)
  <2>1. /\ slot[q] + 1 < Candidates
        /\ slot' = [slot EXCEPT ![q] = @ + 1]
        /\ Goto(q, "reserve") /\ UNCHANGED <<final, report>>
    <3>1. req[q].tries \in 0 .. Candidates
      BY <1>a DEF HandlersTyped, Calls
    <3> QED
      BY <1>1, <1>a, <3>1 DEF NextCandidate
  <2>2. /\ at' \in [Requests -> Places] /\ at'[q] = "reserve"
        /\ \A r \in Requests \ {q} : at'[r] = at[r]
    BY <1>0, <1>a, <2>1, Went
  <2>3. /\ slot' \in [Requests -> Slots] /\ slot'[q] = slot[q] + 1
        /\ \A r \in Requests \ {q} : slot'[r] = slot[r]
    BY <1>a, <2>1 DEF HandlersTyped, Slots
  <2>4. TypeOK'
    BY <1>0, <1>a, <1>b, <2>1, <2>2, <2>3 DEF TypeOK, HandlersTyped, given
  <2>5. Own(q)
    BY <1>0, <1>b, <2>1, <2>2, <2>3 DEF Own
  <2>6. Frame(q) /\ Admitted(q)' /\ Alone(q)' = Alone(q)
    BY <2>5, <1>a, OwnFrame
  <2>7. Standing(q)'
    BY <1>0, <1>a, <2>1, <2>2, <2>3, <2>6 DEF InvOf, Standing, UsageSlot
  <2>8. AheadIsFresh(q)'
    <3> SUFFICES ASSUME Alone(q), NEW s \in Slots, s >= slot[q] + 1
                 PROVE  Bank!Fresh(Account, <<req[q].id, s>>)'
      BY <1>0, <1>a, <2>2, <2>3, <2>6 DEF AheadIsFresh, Bank!Fresh, Slots
    <3>1. Bank!Fresh(Account, <<req[q].id, s>>)
      BY <1>0, <1>a DEF InvOf, AheadIsFresh, Slots
    <3>2. <<req[q].id, s>> \in Keys \ {Key(q)}
      BY <1>a DEF Keys, Slots
    <3> QED
      BY <1>0, <1>b, <3>1, <3>2 DEF OnlyRow, Bank!Fresh
  <2>9. HoldIsOpen(q)' /\ ChargeIsCost(q)'
    BY <2>2 DEF HoldIsOpen, ChargeIsCost
  <2> QED
    BY <2>4, <2>6, <2>7, <2>8, <2>9 DEF Sustained, InvOf
<1>2. CASE BillUsage(q)
  <2>9. PICK cost \in Amounts : final' = [final EXCEPT ![q] = cost]
    BY <1>2 DEF BillUsage
  <2>1. cost \in Nat /\ final' = [final EXCEPT ![q] = cost]
    BY <2>9 DEF Amounts
  <2>2. /\ slot' = [slot EXCEPT ![q] = UsageSlot] /\ UsageSlot \in Slots
        /\ Goto(q, "usage") /\ UNCHANGED report
    BY <1>2, <1>a DEF BillUsage, UsageSlot, Slots
  <2>3. /\ at' \in [Requests -> Places] /\ at'[q] = "usage"
        /\ \A r \in Requests \ {q} : at'[r] = at[r]
    BY <1>0, <1>a, <2>2, Went
  <2>4. TypeOK'
    BY <1>0, <1>a, <1>b, <2>1, <2>2, <2>3 DEF TypeOK, HandlersTyped, given
  <2>5. Own(q)
    BY <1>0, <1>a, <1>b, <2>1, <2>2, <2>3 DEF Own, HandlersTyped
  <2>6. Frame(q) /\ Admitted(q)'
    BY <2>5, <1>a, OwnFrame
  <2>7. Standing(q)'
    <3>1. slot'[q] = UsageSlot /\ UsageSlot' = UsageSlot
      BY <1>a, <2>2 DEF HandlersTyped, UsageSlot
    <3> QED
      BY <1>0, <1>a, <2>3, <2>6, <3>1 DEF InvOf, Standing
  <2>8. AheadIsFresh(q)' /\ HoldIsOpen(q)' /\ ChargeIsCost(q)'
    BY <2>3 DEF AheadIsFresh, HoldIsOpen, ChargeIsCost
  <2> QED
    BY <2>4, <2>6, <2>7, <2>8 DEF Sustained, InvOf
<1>3. CASE GiveUp(q)
  <2>1. PICK code \in {"failed", "unlogged"} : Finish(q, 0, code)
    BY <1>3 DEF GiveUp, CallGivesUp, StreamGivesUp, RelayGivesUp, VideoGivesUp
  <2>2. UNCHANGED <<slot, final>>
    BY <1>3 DEF GiveUp
  <2>6. code # "" /\ code \in Codes
    BY <2>1, GivenUpCodes
  <2>7. 0 \in Int
    OBVIOUS
  <2>3. /\ at' \in [Requests -> Places] /\ report' \in [Requests -> Reports]
        /\ at'[q] = "done" /\ report'[q].code = code
        /\ \A r \in Requests \ {q} : at'[r] = at[r] /\ report'[r] = report[r]
    BY <1>a, <2>1, <2>6, <2>7, Ends
  <2>4. HandlersTyped'
    BY <1>0, <1>a, <2>2, <2>3 DEF HandlersTyped, given
  <2>5. Own(q)
    BY <1>0, <1>b, <2>2, <2>3 DEF Own
  <2> QED
    BY <1>0, <1>b, <2>2, <2>3, <2>4, <2>5, <2>6, Advanced
<1> QED
  BY <1>1, <1>2, <1>3 DEF Release

LEMMA DiscardStep ==
  ASSUME IInv, NEW q \in Requests, Discard(q)
  PROVE  Sustained(q)
<1>0. /\ at[q] = "discard" /\ ReleaseCall(q) /\ Finish(q, 0, "unlogged")
      /\ UNCHANGED <<given, quota, req, slot, final, gone, detached, class>>
      /\ "unlogged" \in Codes
  BY CodesAre DEF Discard
<1>a. LedgerTyped /\ HandlersTyped /\ QuotaTyped /\ BankTyped /\ Key(q) \in Keys
  BY <1>0, Acting
<1>b. LedgerTyped' /\ BankTyped' /\ OnlyRow(Key(q)) /\ QuotaTyped'
  BY <1>0, <1>a, ReleaseCallRow DEF QuotaTyped, quota
<1>1. /\ at' \in [Requests -> Places] /\ report' \in [Requests -> Reports]
      /\ at'[q] = "done" /\ report'[q].code = "unlogged"
      /\ \A r \in Requests \ {q} : at'[r] = at[r] /\ report'[r] = report[r]
  BY <1>0, <1>a, Ends
<1>2. HandlersTyped'
  BY <1>0, <1>a, <1>1 DEF HandlersTyped, given
<1>3. Own(q)
  BY <1>0, <1>b, <1>1 DEF Own
<1> QED
  BY <1>0, <1>b, <1>1, <1>2, <1>3, Advanced

LEMMA CancelStep ==
  ASSUME IInv, NEW q \in Requests, Cancel(q)
  PROVE  Sustained(q)
<1>0. /\ at[q] = "cancel" /\ ReleaseCall(q) /\ Goto(q, "cancelled")
      /\ UNCHANGED <<given, quota, req, slot, final, gone, detached, class, report>>
      /\ "cancelled" \in Places
  BY PlacesAre DEF Cancel
<1>a. /\ LedgerTyped /\ HandlersTyped /\ QuotaTyped /\ BankTyped /\ Key(q) \in Keys
      /\ slot[q] # UsageSlot
  BY <1>0, Acting DEF InvOf, Standing
<1>b. LedgerTyped' /\ BankTyped' /\ OnlyRow(Key(q)) /\ QuotaTyped'
  BY <1>0, <1>a, ReleaseCallRow DEF QuotaTyped, quota
<1>1. /\ at' \in [Requests -> Places] /\ at'[q] = "cancelled"
      /\ \A r \in Requests \ {q} : at'[r] = at[r]
  BY <1>0, <1>a, Went
<1>2. HandlersTyped'
  BY <1>0, <1>a, <1>1 DEF HandlersTyped, given
<1>3. Own(q)
  BY <1>0, <1>b, <1>1 DEF Own
<1> QED
  BY <1>0, <1>a, <1>b, <1>1, <1>2, <1>3, Advanced

-----------------------------------------------------------------------------
(* Steps of a video request that leave the wallet alone.                   *)

\* What such a step does: it goes somewhere, or ends with evidence.
Wanders(q) ==
  /\ at[q] \in {"upstream", "record", "job", "cancelled"}
  /\ \/ UNCHANGED report /\ \E label \in {"record", "discard", "job", "cancel"} : Goto(q, label)
     \/ \E code \in {"lost", "cancelled"} : Finish(q, 0, code)
  /\ UNCHANGED <<given, wallet, quota, req, slot, final, class>>
  /\ gone' \in [Requests -> BOOLEAN] /\ detached' \in [Requests -> BOOLEAN]

LEMMA WanderStep ==
  ASSUME IInv, NEW q \in Requests, Wanders(q)
  PROVE  Sustained(q)
<1>0. /\ at[q] \in {"upstream", "record", "job", "cancelled"}
      /\ UNCHANGED <<given, wallet, quota, req, slot, final, class>>
      /\ gone' \in [Requests -> BOOLEAN] /\ detached' \in [Requests -> BOOLEAN]
  BY DEF Wanders
<1>a. /\ LedgerTyped /\ HandlersTyped /\ QuotaTyped /\ BankTyped /\ slot[q] # UsageSlot
  BY <1>0, Acting DEF InvOf, Standing
<1>1. /\ at' \in [Requests -> Places] /\ report' \in [Requests -> Reports]
      /\ \A r \in Requests \ {q} : at'[r] = at[r] /\ report'[r] = report[r]
      /\ at'[q] \in {"record", "discard", "job", "cancel", "done"}
      /\ at'[q] = "done" => report'[q].code # ""
  <2>1. CASE UNCHANGED report /\ \E label \in {"record", "discard", "job", "cancel"} : Goto(q, label)
    <3>1. PICK label \in {"record", "discard", "job", "cancel"} : Goto(q, label)
      BY <2>1
    <3>2. label \in Places
      BY PlacesAre
    <3> QED
      BY <1>a, <2>1, <3>1, <3>2, Went DEF HandlersTyped
  <2>2. CASE \E code \in {"lost", "cancelled"} : Finish(q, 0, code)
    <3>1. PICK code \in {"lost", "cancelled"} : Finish(q, 0, code)
      BY <2>2
    <3>2. code # "" /\ code \in Codes
      BY <3>1, GivenUpCodes
    <3>4. 0 \in Int
      OBVIOUS
    <3>3. /\ at' \in [Requests -> Places] /\ report' \in [Requests -> Reports]
          /\ at'[q] = "done" /\ report'[q].code = code
          /\ \A r \in Requests \ {q} : at'[r] = at[r] /\ report'[r] = report[r]
      BY <1>a, <3>1, <3>2, <3>4, Ends
    <3> QED
      BY <3>2, <3>3
  <2> QED
    BY <2>1, <2>2 DEF Wanders
<1>2. HandlersTyped'
  BY <1>0, <1>a, <1>1 DEF HandlersTyped, given
<1>3. Own(q)
  BY <1>0, <1>1 DEF Own, wallet
<1>4. LedgerTyped' /\ QuotaTyped' /\ BankTyped'
  BY <1>0, <1>a DEF LedgerTyped, QuotaTyped, BankTyped, wallet, quota
<1> QED
  BY <1>0, <1>a, <1>1, <1>2, <1>3, <1>4, Advanced

LEMMA VideoStep ==
  ASSUME IInv, NEW q \in Requests,
         VideoAccepted(q) \/ RecordJob(q) \/ StartCancel(q) \/ CommitCancel(q)
  PROVE  Sustained(q)
<1>a. HandlersTyped
  BY DEF IInv, TypeOK
<1>1. CASE VideoAccepted(q)
  BY <1>a, <1>1, WanderStep DEF VideoAccepted, Wanders, HandlersTyped
<1>2. CASE RecordJob(q)
  BY <1>a, <1>2, WanderStep DEF RecordJob, Wanders, HandlersTyped
<1>3. CASE StartCancel(q)
  BY <1>a, <1>3, WanderStep DEF StartCancel, Wanders, HandlersTyped
<1>4. CASE CommitCancel(q)
  BY <1>a, <1>4, WanderStep DEF CommitCancel, Wanders, HandlersTyped
<1> QED
  BY <1>1, <1>2, <1>3, <1>4

\* A client that leaves disturbs none of it.
LEMMA DisconnectStep ==
  ASSUME IInv, NEW q \in Requests, Disconnect(q)
  PROVE  Sustained(q)
<1>0. /\ at[q] \notin {"idle", "done"}
      /\ gone' = [gone EXCEPT ![q] = TRUE]
      /\ UNCHANGED <<given, wallet, quota, req, at, slot, final, detached, class, report>>
  BY DEF Disconnect
<1>1. TypeOK'
  BY <1>0 DEF IInv, TypeOK, HandlersTyped, LedgerTyped, QuotaTyped, BankTyped,
       given, wallet, quota
<1>2. Frame(q)
  BY <1>0 DEF Frame, OnlyRow, wallet
<1>3. InvOf(q) /\ UNCHANGED <<ledger, req, at, slot, final, report>>
  BY <1>0 DEF IInv, wallet
<1>4. InvOf(q)'
  BY <1>3 DEF InvOf, Standing, Admitted, AheadIsFresh, Alone, HoldIsOpen, ChargeIsCost,
       Charged, Billed, Key, Bank!Held, Bank!Fresh
<1> QED
  BY <1>1, <1>2, <1>4 DEF Sustained

-----------------------------------------------------------------------------
(* Steps that settle.                                                      *)

LEMMA ReserveUsageStep ==
  ASSUME IInv, NEW q \in Requests, ReserveUsage(q)
  PROVE  Sustained(q)
<1>0. /\ at[q] = "usage" /\ "settle" \in Places /\ "undercharged" \in Codes
      /\ UNCHANGED <<given, quota, req, slot, final, gone, detached, class>>
  BY PlacesAre, CodesAre DEF ReserveUsage
<1>a. /\ LedgerTyped /\ HandlersTyped /\ QuotaTyped /\ BankTyped /\ Key(q) \in Keys
      /\ final[q] \in Nat /\ slot[q] = UsageSlot
  BY <1>0, Acting DEF InvOf, Standing
<1>1. LedgerTyped' /\ BankTyped' /\ OnlyRow(Key(q))
  <2>1. CASE Bank!Reserve(Account, Key(q), final[q])
    BY <1>a, <2>1, ReserveRow
  <2>2. CASE UNCHANGED wallet
    BY <1>a, <2>2 DEF wallet, LedgerTyped, BankTyped, OnlyRow
  <2> QED
    BY <2>1, <2>2 DEF ReserveUsage
<1>2. /\ at' \in [Requests -> Places] /\ report' \in [Requests -> Reports]
      /\ \A r \in Requests \ {q} : at'[r] = at[r] /\ report'[r] = report[r]
      /\ at'[q] \in {"settle", "done"}
  <2>1. CASE Goto(q, "settle") /\ UNCHANGED report
    BY <1>0, <1>a, <2>1, Went DEF HandlersTyped
  <2>2. CASE Finish(q, 0, "undercharged")
    <3>1. 0 \in Int
      OBVIOUS
    <3> QED
      BY <1>0, <1>a, <2>2, <3>1, Ends
  <2> QED
    BY <2>1, <2>2 DEF ReserveUsage
<1>3. HandlersTyped' /\ QuotaTyped'
  BY <1>0, <1>a, <1>2 DEF HandlersTyped, QuotaTyped, given, quota
<1>4. Own(q)
  BY <1>0, <1>1, <1>2 DEF Own
<1> QED
  BY <1>0, <1>a, <1>1, <1>2, <1>3, <1>4, Advanced

LEMMA SettleStep ==
  ASSUME IInv, NEW q \in Requests, Settle(q)
  PROVE  Sustained(q)
<1> DEFINE k == Key(q)
<1>0. /\ at[q] = "settle" /\ "commit" \in Places /\ "" \in Codes
      /\ UNCHANGED <<given, quota, req, slot, final, gone, detached>>
  BY PlacesAre, CodesAre DEF Settle
<1>a. /\ LedgerTyped /\ HandlersTyped /\ QuotaTyped /\ BankTyped /\ k \in Keys
      /\ final[q] \in Nat /\ final[q] \in Int /\ 0 \in Int
      /\ Alone(q) /\ slot[q] # UsageSlot => Bank!Held(Account, k)
  <2>1. /\ LedgerTyped /\ HandlersTyped /\ QuotaTyped /\ BankTyped /\ k \in Keys
        /\ final[q] \in Nat /\ InvOf(q)
    BY <1>0, Acting
  <2>2. final[q] \in Int /\ 0 \in Int
    BY <2>1
  <2> QED
    BY <1>0, <2>1, <2>2 DEF InvOf, HoldIsOpen
<1>b. QuotaTyped' /\ k' = k
  BY <1>0, <1>a DEF QuotaTyped, quota, Key
<1>1. ASSUME LedgerTyped', BankTyped', OnlyRow(k), NEW charged \in Int,
             Finish(q, charged, ""), UNCHANGED class,
             Alone(q) /\ slot[q] # UsageSlot => Charged(q)' = final[q]
      PROVE  Sustained(q)
  <2>1. /\ at' \in [Requests -> Places] /\ report' \in [Requests -> Reports]
        /\ at'[q] = "done"
        /\ \A r \in Requests \ {q} : at'[r] = at[r] /\ report'[r] = report[r]
    BY <1>0, <1>a, <1>1, Ends
  <2>2. HandlersTyped'
    BY <1>0, <1>1, <1>a, <2>1 DEF HandlersTyped, given
  <2>3. Own(q)
    BY <1>0, <1>1, <2>1 DEF Own
  <2> QED
    BY <1>0, <1>1, <1>b, <2>1, <2>2, <2>3, Advanced
<1>2. ASSUME LedgerTyped', BankTyped', OnlyRow(k),
             NEW c \in {"undercharged", "settle_error"}, Fallback(q, c),
             Alone(q) /\ slot[q] # UsageSlot =>
               Bank!Held(Account, k)' \/ Charged(q)' = final[q]
      PROVE  Sustained(q)
  <2>1. /\ at' \in [Requests -> Places] /\ at'[q] = "commit" /\ UNCHANGED report
        /\ \A r \in Requests \ {q} : at'[r] = at[r]
    BY <1>0, <1>a, <1>2, Went DEF Fallback
  <2>2. HandlersTyped'
    BY <1>0, <1>2, <1>a, <2>1 DEF HandlersTyped, given, Fallback
  <2>3. Own(q)
    BY <1>0, <1>2, <2>1 DEF Own
  <2> QED
    BY <1>0, <1>2, <1>b, <2>1, <2>2, <2>3, Advanced
<1>3. CASE Bank!Settle(Account, k, final[q])
  <2>1. /\ LedgerTyped' /\ BankTyped' /\ OnlyRow(k)
        /\ ledger'[Account][k] = [type |-> "charge", amount |-> final[q]]
    BY <1>3, <1>a, SettleRow
  <2>2. Charged(q)' = final[q]
    BY <1>b, <2>1 DEF Charged, Billed
  <2>3. \/ Finish(q, final[q], "") /\ UNCHANGED class
        \/ Fallback(q, "settle_error")
        \/ Finish(q, 0, "") /\ UNCHANGED <<wallet, class>>
        \/ Fallback(q, "undercharged")
    BY DEF Settle
  <2>4. Finish(q, 0, "") /\ UNCHANGED <<wallet, class>> => ledger' = ledger /\ Charged(q)' = final[q]
    BY <2>2 DEF wallet
  <2> QED
    BY <1>1, <1>2, <1>a, <2>1, <2>2, <2>3, <2>4
<1>4. CASE UNCHANGED wallet
  <2>1. LedgerTyped' /\ BankTyped' /\ OnlyRow(k)
    BY <1>4, <1>a DEF wallet, LedgerTyped, BankTyped, OnlyRow
  <2>2. Alone(q) /\ slot[q] # UsageSlot => Bank!Held(Account, k)'
    BY <1>4, <1>a, <1>b DEF wallet, Bank!Held
  <2>3. CASE Bank!Settle(Account, k, final[q])
    BY <1>3, <2>3
  <2>4. CASE Fallback(q, "undercharged") \/ Fallback(q, "settle_error")
    BY <1>2, <2>1, <2>2, <2>4
  <2>5. CASE ~Bank!Held(Account, k) /\ Finish(q, 0, "") /\ UNCHANGED <<wallet, class>>
    BY <1>1, <1>a, <2>1, <2>5
  <2> QED
    BY <2>3, <2>4, <2>5 DEF Settle
<1> QED
  BY <1>3, <1>4 DEF Settle

LEMMA CommitStep ==
  ASSUME IInv, NEW q \in Requests, Commit(q)
  PROVE  Sustained(q)
<1> DEFINE k == Key(q)
<1>0. /\ at[q] = "commit" /\ "" \in Codes
      /\ UNCHANGED <<given, quota, req, slot, final, gone, detached, class>>
  BY CodesAre DEF Commit
<1>a. /\ LedgerTyped /\ HandlersTyped /\ QuotaTyped /\ BankTyped /\ k \in Keys
      /\ final[q] \in Int /\ 0 \in Int /\ ReservedHold(q) \in Int
      /\ Alone(q) /\ slot[q] # UsageSlot => Bank!Held(Account, k) \/ Charged(q) = final[q]
  <2>1. /\ LedgerTyped /\ HandlersTyped /\ QuotaTyped /\ BankTyped /\ k \in Keys
        /\ final[q] \in Nat /\ hold[req[q].id] \in Nat /\ InvOf(q)
    BY <1>0, Acting
  <2>2. final[q] \in Int /\ 0 \in Int /\ ReservedHold(q) \in Int
    BY <2>1 DEF ReservedHold
  <2> QED
    BY <1>0, <2>1, <2>2 DEF InvOf, ChargeIsCost
<1>b. QuotaTyped' /\ k' = k
  BY <1>0, <1>a DEF QuotaTyped, quota, Key
<1>c. FallbackCode(q) \in Codes /\ FallbackCode(q) # ""
  BY CodesAre DEF FallbackCode
<1>1. ASSUME LedgerTyped', BankTyped', OnlyRow(k), NEW charged \in Int, NEW code \in Codes,
             Finish(q, charged, code),
             code = "" => (Alone(q) /\ slot[q] # UsageSlot => Charged(q)' = final[q])
      PROVE  Sustained(q)
  <2>1. /\ at' \in [Requests -> Places] /\ report' \in [Requests -> Reports]
        /\ at'[q] = "done" /\ report'[q].code = code
        /\ \A r \in Requests \ {q} : at'[r] = at[r] /\ report'[r] = report[r]
    BY <1>0, <1>a, <1>1, Ends
  <2>2. HandlersTyped'
    BY <1>0, <1>1, <1>a, <2>1 DEF HandlersTyped, given
  <2>3. Own(q)
    BY <1>0, <1>1, <2>1 DEF Own
  <2> QED
    BY <1>0, <1>1, <1>b, <2>1, <2>2, <2>3, Advanced
<1>2. CASE Bank!Commit(Account, k) /\ Finish(q, ReservedHold(q), FallbackCode(q))
  <2>1. LedgerTyped' /\ BankTyped' /\ OnlyRow(k)
    BY <1>2, <1>a, CommitRow
  <2> QED
    BY <1>1, <1>2, <1>a, <1>c, <2>1
<1>3. CASE UNCHANGED wallet
  <2>1. LedgerTyped' /\ BankTyped' /\ OnlyRow(k)
    BY <1>3, <1>a DEF wallet, LedgerTyped, BankTyped, OnlyRow
  <2>2. CASE Finish(q, ReservedHold(q), FallbackCode(q))
    BY <1>1, <1>a, <1>c, <2>1, <2>2
  <2>3. CASE ~Bank!Held(Account, k) /\ Finish(q, 0, "")
    <3>1. Charged(q)' = Charged(q)
      BY <1>3, <1>b DEF wallet, Charged, Billed
    <3> QED
      BY <1>0, <1>1, <1>a, <2>1, <2>3, <3>1
  <2> QED
    BY <2>2, <2>3 DEF Commit
<1> QED
  BY <1>2, <1>3 DEF Commit

-----------------------------------------------------------------------------
(* The theorems.                                                           *)

LEMMA InitIsSound == Init => IInv
<1> SUFFICES ASSUME Init PROVE IInv
  OBVIOUS
<1>0. 0 \in Slots /\ 0 < Candidates /\ UsageSlot # 0
  BY CandidatesAssumption DEF Slots, UsageSlot
<1>1. PICK funds \in Amounts :
        /\ balance = [w \in {Account} |-> funds]
        /\ ledger = [w \in {Account} |-> [k \in Keys |->
             IF k = TopUpKey THEN [type |-> "topup", amount |-> funds] ELSE Bank!NoRow]]
  BY DEF Init
<1>2. funds \in Int
  BY DEF Amounts
<1>3. LedgerTyped
  <2>1. [type |-> "topup", amount |-> funds] \in [type : Bank!TxTypes, amount : Int]
    BY <1>2 DEF Bank!TxTypes, Bank!Credits
  <2>2. Bank!NoRow \in [type : Bank!TxTypes, amount : Int]
    BY DEF Bank!TxTypes, Bank!NoRow
  <2> QED
    BY <1>1, <2>1, <2>2 DEF LedgerTyped
<1>4. QuotaTyped
  <2>1. allowance \in Int /\ term = "running" /\ waived = 0
    BY SettingsAssumption DEF Init, Setting
  <2> QED
    BY <2>1 DEF QuotaTyped
<1>5. BankTyped
  BY <1>1, <1>2 DEF Init, BankTyped
<1>6. HandlersTyped
  <2>1. NoRequest \in Calls
    BY <1>0, CandidatesAssumption DEF NoRequest, Calls
  <2>2. NoReport \in Reports
    <3>1. 0 \in Int
      OBVIOUS
    <3>2. "none" \in Codes
      BY CodesAre
    <3> QED
      BY <3>1, <3>2 DEF NoReport, Reports
  <2>3. "idle" \in Places
    BY PlacesAre
  <2> QED
    BY <1>0, <2>1, <2>2, <2>3, SettingsAssumption DEF Init, HandlersTyped
<1>7. \A id \in Ids, s \in Slots : Bank!Fresh(Account, <<id, s>>)
  <2> TAKE id \in Ids, s \in Slots
  <2>1. <<id, s>> \in Keys /\ <<id, s>> # TopUpKey
    BY RequestsAssumption DEF Keys, TopUpKey
  <2> QED
    BY <1>1, <2>1 DEF Bank!Fresh, Bank!NoRow
<1>8. ASSUME NEW r \in Requests PROVE InvOf(r)
  <2>1. req[r].mode = "none" /\ req[r].id = 0 /\ at[r] = "idle" /\ slot[r] = 0
        /\ report[r].code = "none"
    BY DEF Init, NoRequest, NoReport
  <2> QED
    BY <1>0, <2>1 DEF InvOf, Standing, Admitted, AheadIsFresh, HoldIsOpen, ChargeIsCost
<1> QED
  BY <1>3, <1>4, <1>5, <1>6, <1>7, <1>8 DEF IInv, TypeOK, UnusedIds

\* Every step of a request keeps what the other lemmas ask of it.
LEMMA StepIsKept ==
  ASSUME IInv, NEW q \in Requests,
         Refuse(q) \/ Arrive(q) \/ Step(q) \/ StartCancel(q) \/ Disconnect(q)
  PROVE  Sustained(q)
<1>1. CASE Step(q)
  BY <1>1, ReserveStep, UpstreamOKStep, UpstreamFailsStep, ReleaseStep, ReserveUsageStep,
     ConsumeStep, SettleStep, CommitStep, VideoStep, DiscardStep, CancelStep DEF Step
<1>2. CASE Refuse(q) \/ Arrive(q) \/ StartCancel(q) \/ Disconnect(q)
  BY <1>2, RefuseStep, ArriveStep, VideoStep, DisconnectStep
<1> QED
  BY <1>1, <1>2

LEMMA IInvInductive == IInv /\ [Next]_vars => IInv'
<1> SUFFICES ASSUME IInv, [Next]_vars PROVE IInv'
  OBVIOUS
<1>1. ASSUME NEW q \in Requests, Sustained(q) PROVE IInv'
  <2>1. TypeOK' /\ Frame(q) /\ InvOf(q)'
    BY <1>1 DEF Sustained
  <2>2. UnusedIds'
    BY <2>1, UnusedKept
  <2>3. \A r \in Requests : InvOf(r)'
    BY <2>1, OthersKept
  <2> QED
    BY <2>1, <2>2, <2>3 DEF IInv
<1>2. CASE UNCHANGED vars \/ Lapse
  <2>1. UNCHANGED <<setting, hold, balance, frozen, ledger, req, at, slot, final, gone, detached,
                    class, report>>
    BY <1>2 DEF vars, given, wallet, Lapse
  <2>2. TypeOK'
    <3>1. /\ allowance' = allowance
          /\ (term' = term /\ waived' = waived) \/ (term' = "over" /\ waived' = 0)
      <4>1. CASE UNCHANGED vars
        BY <4>1 DEF vars, quota
      <4>2. CASE Lapse
        BY <4>2 DEF Lapse
      <4> QED
        BY <1>2, <4>1, <4>2
    <3>3. QuotaTyped
      BY DEF IInv, TypeOK
    <3>2. QuotaTyped'
      BY <3>1, <3>3 DEF QuotaTyped
    <3> QED
      BY <2>1, <3>2 DEF IInv, TypeOK, HandlersTyped, LedgerTyped, BankTyped
  <2>3. UnusedIds'
    BY <2>1 DEF IInv, UnusedIds, Bank!Fresh
  <2>4. ASSUME NEW r \in Requests PROVE InvOf(r)'
    <3>1. InvOf(r)
      BY DEF IInv
    <3> QED
      BY <2>1, <3>1 DEF InvOf, Standing, Admitted, AheadIsFresh, Alone, HoldIsOpen,
         ChargeIsCost, Charged, Billed, Key, Bank!Held, Bank!Fresh
  <2> QED
    BY <2>2, <2>3, <2>4 DEF IInv
<1>3. ASSUME NEW q \in Requests,
             Refuse(q) \/ Arrive(q) \/ Step(q) \/ StartCancel(q) \/ Disconnect(q)
      PROVE  Sustained(q)
  BY <1>3, StepIsKept
<1> QED
  BY <1>1, <1>2, <1>3 DEF Next

\* The inductive invariant holds of every reachable state.
THEOREM Inductive == Spec => []IInv
BY InitIsSound, IInvInductive, PTL DEF Spec

\* Every variable keeps its type.
THEOREM TypeCorrect == Spec => []TypeOK
<1>1. IInv => TypeOK
  BY DEF IInv
<1> QED
  BY <1>1, Inductive, PTL

\* A request that has an id of its own is alone among the admitted ones.
LEMMA UnsharedIsAlone ==
  ASSUME NEW r \in Requests, Unshared(r)
  PROVE  Alone(r)
BY DEF Unshared, Alone

\* While a call is at the upstream its hold is open, whatever other requests of
\* the account, clients and the database do.
THEOREM CallsAreHeld == Spec => []UpstreamIsHeld
<1>1. IInv => UpstreamIsHeld
  <2> SUFFICES ASSUME IInv, NEW r \in Requests, at[r] = "upstream", Unshared(r)
               PROVE  Bank!Held(Account, Key(r))
    BY DEF UpstreamIsHeld
  <2>1. Alone(r)
    BY UnsharedIsAlone
  <2>2. InvOf(r)
    BY DEF IInv
  <2> QED
    BY <2>1, <2>2 DEF InvOf, Standing, HoldIsOpen
<1> QED
  BY <1>1, Inductive, PTL

\* A served call whose charge is not its final cost leaves an evidence code.
THEOREM AnomaliesAreReported == Spec => []AnomaliesHaveEvidence
<1>1. IInv => AnomaliesHaveEvidence
  <2> SUFFICES ASSUME IInv, NEW r \in Requests, Served(r), Unshared(r), report[r].code = ""
               PROVE  Charged(r) = final[r]
    BY DEF AnomaliesHaveEvidence
  <2>1. Alone(r)
    BY UnsharedIsAlone
  <2>2. InvOf(r)
    BY DEF IInv
  <2> QED
    BY <2>1, <2>2 DEF InvOf, ChargeIsCost, Served, Ended
<1> QED
  BY <1>1, Inductive, PTL

-----------------------------------------------------------------------------
(* The allowance.                                                          *)

LEMMA AllowanceKept ==
  ASSUME IInv, AllowanceIsSpentOnce, [Next]_vars
  PROVE  AllowanceIsSpentOnce'
<1>1. CASE UNCHANGED <<quota, setting>>
  BY <1>1 DEF AllowanceIsSpentOnce, Remaining, quota
<1>2. ASSUME NEW q \in Requests, Consume(q)
      PROVE  AllowanceIsSpentOnce'
  <2>1. final[q] \in Nat /\ QuotaTyped /\ setting.allowance \in Nat
    BY <1>2 DEF IInv, TypeOK, HandlersTyped, Setting, Consume
  <2>2. setting' = setting
    BY <1>2 DEF Consume, given
  <2>3. \/ UNCHANGED quota
        \/ /\ Remaining >= final[q] /\ allowance' = Remaining - final[q] /\ term' = "running"
           /\ waived' = waived + final[q] \/ waived' = waived
    BY <1>2 DEF Consume, quota
  <2>4. Remaining \in Int
    BY <2>1 DEF Remaining, QuotaTyped
  <2> QED
    BY <2>1, <2>2, <2>3, <2>4 DEF AllowanceIsSpentOnce, QuotaTyped, Remaining, quota
<1>3. ASSUME NEW q \in Requests,
             \/ Refuse(q) \/ Arrive(q) \/ StartCancel(q) \/ Disconnect(q)
             \/ Reserve(q) \/ UpstreamOK(q) \/ UpstreamFails(q) \/ Release(q)
             \/ ReserveUsage(q) \/ Settle(q) \/ Commit(q) \/ VideoAccepted(q)
             \/ Discard(q) \/ RecordJob(q) \/ Cancel(q) \/ CommitCancel(q)
      PROVE  UNCHANGED <<quota, setting>>
  BY <1>3 DEF Refuse, Arrive, StartCancel, Disconnect, Reserve, UpstreamOK, UpstreamFails,
     Release, ReserveUsage, Settle, Commit, VideoAccepted, Discard, RecordJob, Cancel,
     CommitCancel, given
<1>4. CASE UNCHANGED vars
  BY <1>1, <1>4 DEF vars, given
<1>5. CASE Lapse
  <2>1. /\ allowance' = allowance /\ term' = "over" /\ waived' = 0 /\ setting' = setting
        /\ setting.allowance \in Nat
    BY <1>5 DEF Lapse, given, IInv, TypeOK, HandlersTyped, Setting
  <2> QED
    BY <2>1 DEF AllowanceIsSpentOnce, Remaining
<1> QED
  BY <1>1, <1>2, <1>3, <1>4, <1>5 DEF Next, Step

\* No token is waived that was not taken from the allowance, and no period waives
\* more than the plan gives, however many requests saw it and whatever failed.
THEOREM AllowanceNeverOverspent == Spec => []AllowanceIsSpentOnce
<1>1. Init => AllowanceIsSpentOnce
  BY SettingsAssumption DEF Init, AllowanceIsSpentOnce, Remaining, Setting
<1> QED
  BY <1>1, AllowanceKept, Inductive, PTL DEF Spec

-----------------------------------------------------------------------------
(* The books, when nothing fails.                                          *)

Sums == 0 .. MaxAmount

\* The state a request keeps: its client is there, it never reserves again for
\* usage, and it reports nothing before it ends.
Undisturbed(r) ==
  /\ ~gone[r] /\ slot[r] # UsageSlot
  /\ final[r] \in Sums /\ report[r].charged \in Sums
  /\ at[r] # "done" => report[r].charged = 0

\* An open hold has the amount of its call; a charge is within bounds.
RowInOrder(id, s) ==
  /\ Bank!Held(Account, <<id, s>>) => ledger[Account][<<id, s>>].amount = hold[id]
  /\ Billed(<<id, s>>) \in Sums

Balanced(id) == Reported(id) = ChargedTo(id)

InOrder ==
  /\ \A r \in Requests : Undisturbed(r)
  /\ \A id \in Ids : Balanced(id) /\ \A s \in Slots : RowInOrder(id, s)

Orderly == setting.faults = {} => InOrder

\* What a step of q may do to the books: it reports what its row is charged.
Booked(q) ==
  /\ UNCHANGED given
  /\ \A r \in Requests \ {q} : gone'[r] = gone[r]
  /\ Undisturbed(q)'
  /\ ~Admitted(q) => report'[q].charged = 0
  /\ Admitted(q) =>
       \A id \in Ids, s \in Slots : Key(q) = <<id, s>> =>
         /\ RowInOrder(id, s)'
         /\ report'[q].charged = Billed(<<id, s>>)' - Billed(<<id, s>>)

LEMMA BooksTyped ==
  ASSUME TypeOK, NEW id \in Ids
  PROVE  /\ [r \in Requests |-> ReportOf(r, id)] \in [Requests -> Int]
         /\ [s \in Slots |-> Billed(<<id, s>>)] \in [Slots -> Int]
<1>1. ASSUME NEW r \in Requests PROVE ReportOf(r, id) \in Int
  BY DEF TypeOK, HandlersTyped, Reports, ReportOf
<1>2. ASSUME NEW s \in Slots PROVE Billed(<<id, s>>) \in Int
  <2>1. <<id, s>> \in Keys
    BY DEF Keys
  <2> QED
    BY <2>1 DEF TypeOK, LedgerTyped, Billed
<1> QED
  BY <1>1, <1>2

\* The reports of one call grow by what q reports.
LEMMA ReportedGrows ==
  ASSUME TypeOK, TypeOK', NEW q \in Requests, NEW id \in Ids,
         \A r \in Requests \ {q} : req'[r] = req[r] /\ report'[r] = report[r],
         ReportOf(q, id) \in Sums, ReportOf(q, id)' \in Sums
  PROVE  Reported(id)' = Reported(id) - ReportOf(q, id) + ReportOf(q, id)'
<1> DEFINE f == [r \in Requests |-> ReportOf(r, id)]
           g == [r \in Requests |-> ReportOf(r, id)']
<1>1. f \in [Requests -> Int] /\ g \in [Requests -> Int]
  <2>1. f \in [Requests -> Int]
    BY BooksTyped
  <2>2. ASSUME NEW r \in Requests PROVE ReportOf(r, id)' \in Int
    BY DEF TypeOK, HandlersTyped, Reports, ReportOf
  <2> QED
    BY <2>1, <2>2
<1>2. \A r \in Requests \ {q} : g[r] = f[r]
  BY DEF ReportOf
<1>3. f[q] \in 0 .. MaxAmount /\ g[q] \in 0 .. MaxAmount
  BY DEF Sums
<1>5. Reported(id) = Total(f, MaxAmount) /\ Reported(id)' = Total(g, MaxAmount)
      /\ f[q] = ReportOf(q, id) /\ g[q] = ReportOf(q, id)'
  BY DEF Reported
<1> HIDE DEF f, g
<1>4. Total(g, MaxAmount) = Total(f, MaxAmount) - f[q] + g[q]
  BY <1>1, <1>2, <1>3, SumsAssumption, TotalUpdate
<1> QED
  BY <1>4, <1>5

\* The charges of one call grow by what one of its rows is charged.
LEMMA ChargedGrows ==
  ASSUME TypeOK, TypeOK', NEW id \in Ids, NEW s \in Slots,
         \A t \in Slots \ {s} : Billed(<<id, t>>)' = Billed(<<id, t>>),
         Billed(<<id, s>>) \in Sums, Billed(<<id, s>>)' \in Sums
  PROVE  ChargedTo(id)' = ChargedTo(id) - Billed(<<id, s>>) + Billed(<<id, s>>)'
<1> DEFINE f == [t \in Slots |-> Billed(<<id, t>>)]
           g == [t \in Slots |-> Billed(<<id, t>>)']
<1>1. f \in [Slots -> Int] /\ g \in [Slots -> Int]
  <2>1. f \in [Slots -> Int]
    BY BooksTyped
  <2>2. ASSUME NEW t \in Slots PROVE Billed(<<id, t>>)' \in Int
    <3>1. <<id, t>> \in Keys
      BY DEF Keys
    <3> QED
      BY <3>1 DEF TypeOK, LedgerTyped, Billed
  <2> QED
    BY <2>1, <2>2
<1>2. \A t \in Slots \ {s} : g[t] = f[t]
  OBVIOUS
<1>3. f[s] \in 0 .. MaxAmount /\ g[s] \in 0 .. MaxAmount
  BY DEF Sums
<1>6. IsFiniteSet(Slots)
  <2>1. 0 \in Int /\ Candidates \in Int
    BY CandidatesAssumption
  <2> QED
    BY <2>1, FS_Interval DEF Slots
<1>5. ChargedTo(id) = Total(f, MaxAmount) /\ ChargedTo(id)' = Total(g, MaxAmount)
      /\ f[s] = Billed(<<id, s>>) /\ g[s] = Billed(<<id, s>>)'
  BY DEF ChargedTo
<1> HIDE DEF f, g
<1>4. Total(g, MaxAmount) = Total(f, MaxAmount) - f[s] + g[s]
  BY <1>1, <1>2, <1>3, <1>6, SumsAssumption, TotalUpdate
<1> QED
  BY <1>4, <1>5

LEMMA SumsAreNat ==
  ASSUME TypeOK, NEW id \in Ids
  PROVE  Reported(id) \in Nat /\ ChargedTo(id) \in Nat
<1>1. IsFiniteSet(Slots)
  <2>1. 0 \in Int /\ Candidates \in Int
    BY CandidatesAssumption
  <2> QED
    BY <2>1, FS_Interval DEF Slots
<1> QED
  BY <1>1, BooksTyped, SumsAssumption, TotalIsNat DEF Reported, ChargedTo

\* A step that books what it is charged keeps the books in order.
LEMMA BookedKept ==
  ASSUME IInv, InOrder, NEW q \in Requests, at[q] # "done", Sustained(q), Booked(q)
  PROVE  InOrder'
<1>0. TypeOK /\ TypeOK' /\ Frame(q) /\ UNCHANGED given /\ Undisturbed(q) /\ InvOf(q)
  BY DEF Sustained, Booked, InOrder, IInv
<1>1. ASSUME NEW r \in Requests PROVE Undisturbed(r)'
  <2>1. Undisturbed(r)
    BY DEF InOrder
  <2>2. CASE r = q
    BY <2>2 DEF Booked
  <2>3. CASE r # q
    <3>1. /\ gone'[r] = gone[r] /\ slot'[r] = slot[r] /\ final'[r] = final[r]
          /\ report'[r] = report[r] /\ at'[r] = at[r]
      BY <1>0, <2>3 DEF Booked, Frame
    <3> QED
      BY <2>1, <3>1 DEF Undisturbed, UsageSlot
  <2> QED
    BY <2>2, <2>3
<1>2. report[q].charged = 0 /\ report[q].charged \in Sums /\ report'[q].charged \in Sums
      /\ 0 \in Sums
  BY <1>0 DEF Undisturbed, Booked
<1>3. \A r \in Requests \ {q} : req'[r] = req[r] /\ report'[r] = report[r]
  BY <1>0 DEF Frame
<1>4. \A id \in Ids : hold'[id] = hold[id]
  BY <1>0 DEF given
<1>5. ASSUME NEW id \in Ids, NEW s \in Slots, ~Admitted(q) \/ <<id, s>> # Key(q)
      PROVE  /\ ledger'[Account][<<id, s>>] = ledger[Account][<<id, s>>]
             /\ Billed(<<id, s>>)' = Billed(<<id, s>>) /\ RowInOrder(id, s)'
  <2>1. <<id, s>> \in Keys
    BY DEF Keys
  <2>2. ledger'[Account][<<id, s>>] = ledger[Account][<<id, s>>]
    BY <1>0, <1>5, <2>1 DEF Frame, OnlyRow
  <2>3. RowInOrder(id, s)
    BY DEF InOrder
  <2> QED
    BY <1>4, <2>2, <2>3 DEF RowInOrder, Billed, Bank!Held
<1>6. CASE ~Admitted(q)
  <2>1. ASSUME NEW id \in Ids PROVE Balanced(id)'
    <3>1. ReportOf(q, id) = 0 /\ ReportOf(q, id)' = 0
      BY <1>2, <1>6 DEF ReportOf, Booked
    <3>2. Reported(id)' = Reported(id) - 0 + 0
      BY <1>0, <1>2, <1>3, <3>1, ReportedGrows
    <3>3. 0 \in Slots /\ Billed(<<id, 0>>)' = Billed(<<id, 0>>) /\ Billed(<<id, 0>>) \in Sums
      <4>1. 0 \in Slots
        BY CandidatesAssumption DEF Slots
      <4> QED
        BY <1>5, <1>6, <4>1 DEF InOrder, RowInOrder
    <3>4. ChargedTo(id)' = ChargedTo(id) - Billed(<<id, 0>>) + Billed(<<id, 0>>)'
      BY <1>0, <1>5, <1>6, <3>3, ChargedGrows
    <3>5. Reported(id) \in Nat /\ ChargedTo(id) \in Nat /\ Reported(id) = ChargedTo(id)
      BY <1>0, SumsAreNat DEF InOrder, Balanced
    <3>6. Billed(<<id, 0>>) \in Int
      BY <3>3, SumsAssumption DEF Sums
    <3> QED
      BY <3>2, <3>3, <3>4, <3>5, <3>6 DEF Balanced
  <2> QED
    BY <1>1, <1>5, <1>6, <2>1 DEF InOrder
<1>7. CASE Admitted(q)
  <2>0. /\ req[q].id \in Ids /\ slot[q] \in Slots /\ Key(q) = <<req[q].id, slot[q]>>
        /\ req'[q] = req[q]
    BY <1>0, <1>7 DEF InvOf, Standing, TypeOK, HandlersTyped, Key, Frame
  <2> PICK c, s : c = req[q].id /\ s = slot[q]
    OBVIOUS
  <2>1. /\ c \in Ids /\ s \in Slots /\ Key(q) = <<c, s>>
        /\ RowInOrder(c, s) /\ RowInOrder(c, s)'
        /\ report'[q].charged = Billed(<<c, s>>)' - Billed(<<c, s>>)
    BY <1>7, <2>0 DEF Booked, InOrder
  <2>2. Billed(<<c, s>>) \in Sums /\ Billed(<<c, s>>)' \in Sums
    BY <2>1 DEF RowInOrder
  <2>3. ASSUME NEW id \in Ids PROVE Balanced(id)'
    <3>1. Reported(id) \in Nat /\ ChargedTo(id) \in Nat /\ Reported(id) = ChargedTo(id)
      BY <1>0, SumsAreNat DEF InOrder, Balanced
    <3>2. /\ ReportOf(q, id) = 0
          /\ ReportOf(q, id)' = IF id = c THEN report'[q].charged ELSE 0
      BY <1>2, <2>0 DEF ReportOf
    <3>3. Reported(id)' = Reported(id) - 0 + ReportOf(q, id)'
      BY <1>0, <1>2, <1>3, <3>2, ReportedGrows
    <3>4. ASSUME NEW t \in Slots, id # c \/ t # s
          PROVE  Billed(<<id, t>>)' = Billed(<<id, t>>)
      <4>1. <<id, t>> # Key(q)
        BY <2>1, <3>4
      <4> QED
        BY <1>5, <4>1
    <3>5. Billed(<<id, s>>) \in Sums /\ Billed(<<id, s>>)' \in Sums
      BY <2>1, <2>2, <3>4 DEF InOrder, RowInOrder
    <3>6. ChargedTo(id)' = ChargedTo(id) - Billed(<<id, s>>) + Billed(<<id, s>>)'
      BY <1>0, <2>1, <3>4, <3>5, ChargedGrows
    <3>7. Billed(<<id, s>>) \in Int /\ Billed(<<id, s>>)' \in Int
      BY <3>5, SumsAssumption DEF Sums
    <3>8. CASE id = c
      BY <2>1, <3>1, <3>2, <3>3, <3>6, <3>7, <3>8 DEF Balanced
    <3>9. CASE id # c
      BY <2>1, <3>1, <3>2, <3>3, <3>4, <3>6, <3>7, <3>9 DEF Balanced
    <3> QED
      BY <3>8, <3>9
  <2>4. ASSUME NEW id \in Ids, NEW t \in Slots PROVE RowInOrder(id, t)'
    <3>1. CASE id = c /\ t = s
      BY <2>1, <3>1
    <3>2. CASE ~(id = c /\ t = s)
      <4>1. <<id, t>> # Key(q)
        BY <2>1, <3>2
      <4> QED
        BY <1>5, <4>1
    <3> QED
      BY <3>1, <3>2
  <2> QED
    BY <1>1, <2>3, <2>4 DEF InOrder
<1> QED
  BY <1>6, <1>7

\* Reserving or releasing a hold bills nothing.
LEMMA NothingBilled ==
  ASSUME TypeOK, NEW id \in Ids, NEW s \in Slots, RowInOrder(id, s), hold' = hold,
         \/ UNCHANGED wallet
         \/ Bank!Reserve(Account, <<id, s>>, hold[id])
         \/ Bank!Release(Account, <<id, s>>)
  PROVE  RowInOrder(id, s)' /\ Billed(<<id, s>>)' = Billed(<<id, s>>)
<1> PICK k : k = <<id, s>>
  OBVIOUS
<1>1. k \in Keys /\ LedgerTyped /\ BankTyped /\ hold[id] \in Nat /\ 0 \in Sums
  BY SumsAssumption DEF Keys, TypeOK, HandlersTyped, Amounts, Sums
<1>2. CASE UNCHANGED wallet
  BY <1>2 DEF wallet, RowInOrder, Billed, Bank!Held
<1>3. CASE Bank!Reserve(Account, k, hold[id])
  <2>1. Bank!Fresh(Account, k) /\ ledger'[Account][k] = [type |-> "reserve", amount |-> hold[id]]
    BY <1>1, <1>3, ReserveRow
  <2>2. /\ ledger[Account][k].type = "none"
        /\ ledger'[Account][k].type = "reserve" /\ ledger'[Account][k].amount = hold[id]
    BY <2>1 DEF Bank!Fresh
  <2> QED
    BY <1>1, <2>2 DEF RowInOrder, Billed
<1>4. CASE Bank!Release(Account, k)
  <2>1. /\ Bank!Held(Account, k)
        /\ ledger'[Account][k] = [type |-> "release", amount |-> ledger[Account][k].amount]
    BY <1>1, <1>4, ReleaseRow
  <2>2. ledger[Account][k].type = "reserve" /\ ledger'[Account][k].type = "release"
    BY <2>1 DEF Bank!Held
  <2> QED
    BY <1>1, <2>2 DEF RowInOrder, Billed, Bank!Held
<1> QED
  BY <1>2, <1>3, <1>4

\* A step that bills nothing reports nothing.
LEMMA QuietBooks ==
  ASSUME IInv, InOrder, NEW q \in Requests, at[q] \notin {"idle", "done"},
         UNCHANGED given,
         \A r \in Requests : gone'[r] = gone[r] \/ (r = q /\ ~gone'[r]),
         slot'[q] # UsageSlot, final'[q] \in Sums, report'[q].charged = 0,
         \/ UNCHANGED wallet
         \/ Bank!Reserve(Account, Key(q), hold[req[q].id])
         \/ Bank!Release(Account, Key(q))
  PROVE  Booked(q)
<1>1. Admitted(q) /\ TypeOK /\ hold' = hold /\ 0 \in Sums /\ Key(q) = <<req[q].id, slot[q]>>
  BY Acting, SumsAssumption DEF IInv, given, Sums
<1>2. Undisturbed(q)'
  BY <1>1 DEF InOrder, Undisturbed, UsageSlot
<1>3. ASSUME NEW id \in Ids, NEW s \in Slots, Key(q) = <<id, s>>
      PROVE  RowInOrder(id, s)' /\ report'[q].charged = Billed(<<id, s>>)' - Billed(<<id, s>>)
  <2>1. RowInOrder(id, s) /\ req[q].id = id
    BY <1>1, <1>3 DEF InOrder
  <2>2. RowInOrder(id, s)' /\ Billed(<<id, s>>)' = Billed(<<id, s>>)
    BY <1>1, <1>3, <2>1, NothingBilled
  <2>3. Billed(<<id, s>>) \in Int
    BY <2>1, SumsAssumption DEF RowInOrder, Sums
  <2> QED
    BY <2>2, <2>3
<1> QED
  BY <1>1, <1>2, <1>3 DEF Booked

LEMMA NoFaults ==
  ASSUME setting.faults = {}
  PROVE  \A fault \in Faults : ~MayHappen(fault)
BY DEF MayHappen

\* Steps that leave the wallet alone.
LEMMA UnmeteredBooks ==
  ASSUME IInv, InOrder, setting.faults = {}, NEW q \in Requests,
         \/ UpstreamOK(q) \/ UpstreamFails(q) \/ Consume(q) \/ VideoAccepted(q)
         \/ RecordJob(q) \/ StartCancel(q) \/ CommitCancel(q)
  PROVE  Booked(q)
<1>1. /\ Undisturbed(q) /\ HandlersTyped /\ 0 \in Sums
      /\ \A id \in Ids : 0 .. hold[id] \in SUBSET Sums
  <2>1. \A id \in Ids : hold[id] \in Amounts
    BY DEF IInv, TypeOK, HandlersTyped
  <2>2. \A id \in Ids : 0 .. hold[id] \in SUBSET Sums
    BY <2>1, SumsAssumption DEF Amounts, Sums
  <2> QED
    BY <2>2, SumsAssumption DEF InOrder, IInv, TypeOK, Sums
<1>2. /\ at[q] \notin {"idle", "done"}
      /\ UNCHANGED <<given, wallet, slot>>
      /\ gone' = gone \/ gone' = [gone EXCEPT ![q] = FALSE]
  BY DEF UpstreamOK, UpstreamFails, Consume, VideoAccepted, RecordJob, StartCancel, CommitCancel
<1>3. req[q].id \in Ids
  BY <1>2, Acting
<1>4. final'[q] \in Sums
  <2>1. CASE UpstreamOK(q)
    <3>1. ASSUME NEW costs \in SUBSET Sums, NEW own \in BOOLEAN, Answered(q, costs, own)
          PROVE  final'[q] \in Sums
      BY <1>1, <3>1 DEF Answered, HandlersTyped
    <3>2. AnyCost \in SUBSET Sums /\ 0 .. hold[req[q].id] \in SUBSET Sums
      BY <1>1, <1>3 DEF AnyCost, Sums
    <3>3. \E costs \in SUBSET Sums, own \in BOOLEAN : Answered(q, costs, own)
      BY <2>1, <3>2 DEF UpstreamOK, ChatAnswered, RelayAnswered, StreamAnswered,
           EndpointAnswered, RawAnswered, VideoAnswered
    <3> QED
      BY <3>1, <3>3
  <2>2. CASE Consume(q)
    BY <1>1, <2>2 DEF Consume, HandlersTyped, Undisturbed
  <2>3. CASE \/ UpstreamFails(q) \/ VideoAccepted(q) \/ RecordJob(q) \/ StartCancel(q)
             \/ CommitCancel(q)
    <3>1. final' = final
      BY <2>3 DEF UpstreamFails, VideoAccepted, RecordJob, StartCancel, CommitCancel
    <3> QED
      BY <1>1, <3>1 DEF Undisturbed
  <2> QED
    BY <2>1, <2>2, <2>3
<1>5. report'[q].charged = 0
  <2>1. report' = report \/ \E code \in {"lost", "cancelled"} : Finish(q, 0, code)
    BY DEF UpstreamOK, UpstreamFails, Consume, VideoAccepted, RecordJob, StartCancel, CommitCancel
  <2> QED
    BY <1>1, <1>2, <2>1 DEF Undisturbed, Finish, HandlersTyped
<1>6. slot'[q] # UsageSlot
  BY <1>1, <1>2 DEF Undisturbed
<1>7. \A r \in Requests : gone'[r] = gone[r] \/ (r = q /\ ~gone'[r])
  BY <1>1, <1>2 DEF HandlersTyped
<1> QED
  BY <1>2, <1>4, <1>5, <1>6, <1>7, QuietBooks

\* Steps that reserve or release the hold.
LEMMA HoldBooks ==
  ASSUME IInv, InOrder, setting.faults = {}, NEW q \in Requests,
         Reserve(q) \/ Release(q) \/ Discard(q) \/ Cancel(q)
  PROVE  Booked(q)
<1>1. Undisturbed(q) /\ HandlersTyped
  BY DEF InOrder, IInv, TypeOK
<1>2. /\ at[q] \notin {"idle", "done"}
      /\ UNCHANGED <<given, gone>>
      /\ \/ UNCHANGED wallet
         \/ Bank!Reserve(Account, Key(q), hold[req[q].id])
         \/ Bank!Release(Account, Key(q))
  BY DEF Reserve, Release, Discard, Cancel, ReleaseCall
<1>3. /\ final'[q] \in Sums /\ slot'[q] # UsageSlot
      /\ report' = report \/ \E code \in {"blocked", "failed", "unlogged"} : Finish(q, 0, code)
  <2>1. CASE Reserve(q) \/ Discard(q) \/ Cancel(q)
    BY <1>1, <2>1 DEF Reserve, Discard, Cancel, Undisturbed
  <2>2. CASE Release(q)
    <3>1. ~MayHappen("usage")
      BY DEF MayHappen
    <3>2. CASE NextCandidate(q)
      <4>1. /\ slot[q] + 1 < req[q].tries /\ slot' = [slot EXCEPT ![q] = @ + 1]
            /\ final' = final /\ report' = report
        BY <3>2 DEF NextCandidate
      <4>2. req[q].tries \in 0 .. Candidates /\ slot[q] \in Int /\ Candidates \in Int
        BY <1>1, CandidatesAssumption DEF HandlersTyped, Calls, Slots
      <4>3. slot'[q] = slot[q] + 1
        BY <1>1, <4>1 DEF HandlersTyped
      <4> QED
        BY <1>1, <4>1, <4>2, <4>3 DEF Undisturbed, UsageSlot
    <3>3. CASE GiveUp(q)
      BY <1>1, <3>3 DEF GiveUp, CallGivesUp, StreamGivesUp, RelayGivesUp, VideoGivesUp,
           Undisturbed
    <3> QED
      BY <2>2, <3>1, <3>2, <3>3 DEF Release, BillUsage
  <2> QED
    BY <2>1, <2>2
<1>4. report'[q].charged = 0
  BY <1>1, <1>2, <1>3 DEF Undisturbed, Finish, HandlersTyped
<1> QED
  BY <1>2, <1>3, <1>4, QuietBooks

\* A step that charges an open hold reports the charge.
LEMMA ChargeBooks ==
  ASSUME IInv, InOrder, NEW q \in Requests, at[q] \notin {"idle", "done"},
         UNCHANGED <<given, slot, final, gone>>, NEW sum \in Sums,
         Bank!Held(Account, Key(q)),
         ledger'[Account][Key(q)] = [type |-> "charge", amount |-> sum],
         at'[q] = "done", report'[q].charged = sum
  PROVE  Booked(q)
<1>1. Admitted(q) /\ hold' = hold /\ sum \in Int
  BY Acting, SumsAssumption DEF given, Sums
<1>2. Undisturbed(q)'
  BY DEF InOrder, Undisturbed, UsageSlot
<1>3. ASSUME NEW id \in Ids, NEW s \in Slots, Key(q) = <<id, s>>
      PROVE  RowInOrder(id, s)' /\ report'[q].charged = Billed(<<id, s>>)' - Billed(<<id, s>>)
  <2>1. /\ ledger[Account][<<id, s>>].type = "reserve"
        /\ ledger'[Account][<<id, s>>].type = "charge"
        /\ ledger'[Account][<<id, s>>].amount = sum
    BY <1>3 DEF Bank!Held
  <2>2. Billed(<<id, s>>) = 0 /\ Billed(<<id, s>>)' = sum /\ ~Bank!Held(Account, <<id, s>>)'
    BY <2>1 DEF Billed, Bank!Held
  <2> QED
    BY <1>1, <2>2 DEF RowInOrder
<1> QED
  BY <1>1, <1>2, <1>3 DEF Booked

LEMMA FinishReports ==
  ASSUME HandlersTyped, NEW q \in Requests, NEW charged, NEW code, Finish(q, charged, code)
  PROVE  report'[q].charged = charged /\ at'[q] = "done"
BY DEF HandlersTyped, Finish, Goto

LEMMA SettleBooks ==
  ASSUME IInv, InOrder, setting.faults = {}, NEW q \in Requests, Settle(q)
  PROVE  Booked(q)
<1>1. /\ LedgerTyped /\ BankTyped /\ HandlersTyped /\ Undisturbed(q) /\ Key(q) \in Keys
      /\ final[q] \in Nat /\ final[q] \in Sums /\ at[q] = "settle"
      /\ UNCHANGED <<given, slot, final, gone>>
  BY Acting DEF InOrder, Undisturbed, Settle
<1>2. ~MayFail(q) /\ ~MayHappen("ack")
  BY <1>1 DEF MayFail, Reaches, MayHappen, Undisturbed
<1>3. \/ Bank!Settle(Account, Key(q), final[q]) /\ Finish(q, final[q], "")
      \/ UNCHANGED <<wallet, report>>
      \/ UNCHANGED wallet /\ Finish(q, 0, "")
  BY <1>2 DEF Settle, Fallback
<1>4. CASE Bank!Settle(Account, Key(q), final[q]) /\ Finish(q, final[q], "")
  <2>1. /\ Bank!Held(Account, Key(q))
        /\ ledger'[Account][Key(q)] = [type |-> "charge", amount |-> final[q]]
    BY <1>1, <1>4, SettleRow
  <2>2. report'[q].charged = final[q] /\ at'[q] = "done"
    BY <1>1, <1>4, FinishReports
  <2> QED
    BY <1>1, <2>1, <2>2, ChargeBooks
<1>5. CASE UNCHANGED <<wallet, report>> \/ (UNCHANGED wallet /\ Finish(q, 0, ""))
  <2>2. UNCHANGED wallet /\ (report' = report \/ Finish(q, 0, ""))
    BY <1>5
  <2>3. slot' = slot
    BY <1>1
  <2>4. slot'[q] # UsageSlot /\ report[q].charged = 0
    BY <1>1, <2>3 DEF Undisturbed
  <2>5. Finish(q, 0, "") => report'[q].charged = 0
    BY <1>1, FinishReports
  <2>1. report'[q].charged = 0 /\ slot'[q] # UsageSlot
    BY <2>2, <2>4, <2>5
  <2> QED
    BY <1>1, <1>5, <2>1, QuietBooks
<1> QED
  BY <1>3, <1>4, <1>5

LEMMA CommitBooks ==
  ASSUME IInv, InOrder, setting.faults = {}, NEW q \in Requests, Commit(q)
  PROVE  Booked(q)
<1>1. /\ LedgerTyped /\ BankTyped /\ HandlersTyped /\ Undisturbed(q) /\ Key(q) \in Keys
      /\ final[q] \in Sums /\ at[q] = "commit"
      /\ req[q].id \in Ids /\ slot[q] \in Slots /\ Key(q) = <<req[q].id, slot[q]>>
      /\ UNCHANGED <<given, slot, final, gone>>
  BY Acting DEF InOrder, Undisturbed, Commit
<1>2. ~MayFail(q) /\ ReservedHold(q) = hold[req[q].id]
  BY <1>1 DEF MayFail, Reaches, MayHappen, Undisturbed, ReservedHold
<1>3. hold[req[q].id] \in Sums
  BY <1>1, SumsAssumption DEF HandlersTyped, Amounts, Sums
<1>4. CASE Bank!Commit(Account, Key(q)) /\ Finish(q, ReservedHold(q), FallbackCode(q))
  <2>1. /\ Bank!Held(Account, Key(q))
        /\ ledger'[Account][Key(q)] =
             [type |-> "charge", amount |-> ledger[Account][Key(q)].amount]
    BY <1>1, <1>4, CommitRow
  <2>2. ledger[Account][Key(q)].amount = hold[req[q].id]
    BY <1>1, <2>1 DEF InOrder, RowInOrder
  <2>3. report'[q].charged = hold[req[q].id] /\ at'[q] = "done"
    BY <1>1, <1>2, <1>4, FinishReports
  <2>4. at[q] \notin {"idle", "done"}
    BY <1>1
  <2> QED
    BY <1>1, <1>3, <2>1, <2>2, <2>3, <2>4, ChargeBooks
<1>5. CASE UNCHANGED wallet /\ Finish(q, 0, "")
  <2>1. report'[q].charged = 0 /\ slot'[q] # UsageSlot
    BY <1>1, <1>5 DEF Finish, HandlersTyped, Undisturbed
  <2> QED
    BY <1>1, <1>5, <2>1, QuietBooks
<1> QED
  BY <1>2, <1>4, <1>5 DEF Commit

LEMMA AdmissionBooks ==
  ASSUME IInv, InOrder, NEW q \in Requests, Refuse(q) \/ Arrive(q)
  PROVE  Booked(q) /\ at[q] # "done"
<1>1. /\ at[q] = "idle" /\ ~Admitted(q) /\ Undisturbed(q) /\ HandlersTyped /\ 0 \in Sums
  <2>1. at[q] = "idle"
    BY Arrival DEF Refuse, Arriving
  <2>2. Standing(q) /\ HandlersTyped
    BY DEF IInv, TypeOK, InvOf
  <2>3. Undisturbed(q) /\ 0 \in Sums
    BY SumsAssumption DEF InOrder, Sums
  <2> QED
    BY <2>1, <2>2, <2>3 DEF Standing
<1>2. UNCHANGED <<given, slot, final, gone>>
  BY DEF Refuse, Arrive
<1>3. report' = report \/ Finish(q, 0, "blocked")
  BY Arrival DEF Refuse
<1>4. report'[q].charged = 0
  BY <1>1, <1>3 DEF Undisturbed, Finish, HandlersTyped
<1>5. Undisturbed(q)'
  BY <1>1, <1>2, <1>4 DEF Undisturbed, UsageSlot
<1> QED
  BY <1>1, <1>2, <1>4, <1>5 DEF Booked

LEMMA StepIsBooked ==
  ASSUME IInv, InOrder, setting.faults = {}, NEW q \in Requests,
         Refuse(q) \/ Arrive(q) \/ Step(q) \/ StartCancel(q) \/ Disconnect(q)
  PROVE  Booked(q) /\ at[q] # "done"
<1>1. ~Disconnect(q)
  BY DEF Disconnect, MayHappen
<1>2. ~ReserveUsage(q)
  BY DEF ReserveUsage, IInv, InvOf, Standing, InOrder, Undisturbed
<1>3. CASE Refuse(q) \/ Arrive(q)
  BY <1>3, AdmissionBooks
<1>4. CASE \/ UpstreamOK(q) \/ UpstreamFails(q) \/ Consume(q) \/ VideoAccepted(q)
           \/ RecordJob(q) \/ StartCancel(q) \/ CommitCancel(q)
  <2>1. at[q] # "done"
    BY <1>4 DEF UpstreamOK, UpstreamFails, Consume, VideoAccepted, RecordJob, StartCancel,
         CommitCancel
  <2> QED
    BY <1>4, <2>1, UnmeteredBooks
<1>5. CASE Reserve(q) \/ Release(q) \/ Discard(q) \/ Cancel(q)
  <2>1. at[q] # "done"
    BY <1>5 DEF Reserve, Release, Discard, Cancel
  <2> QED
    BY <1>5, <2>1, HoldBooks
<1>6. CASE Settle(q)
  BY <1>6, SettleBooks DEF Settle
<1>7. CASE Commit(q)
  BY <1>7, CommitBooks DEF Commit
<1> QED
  BY <1>1, <1>2, <1>3, <1>4, <1>5, <1>6, <1>7 DEF Step

LEMMA OrderlyInit == Init => Orderly
<1> SUFFICES ASSUME Init PROVE InOrder
  BY DEF Orderly
<1>0. /\ IInv /\ 0 \in Sums /\ 0 # UsageSlot
  BY InitIsSound, SumsAssumption, CandidatesAssumption DEF Sums, UsageSlot
<1>1. ASSUME NEW r \in Requests PROVE Undisturbed(r)
  BY <1>0 DEF Init, Undisturbed, NoReport
<1>2. ASSUME NEW id \in Ids, NEW s \in Slots
      PROVE  Billed(<<id, s>>) = 0 /\ RowInOrder(id, s)
  <2>1. \A q \in Requests : req[q].id # id
    BY RequestsAssumption DEF Init, NoRequest
  <2>2. Bank!Fresh(Account, <<id, s>>)
    BY <1>0, <2>1 DEF IInv, UnusedIds
  <2> QED
    BY <1>0, <2>2 DEF Bank!Fresh, Billed, RowInOrder, Bank!Held
<1>3. ASSUME NEW id \in Ids PROVE Balanced(id)
  <2>1. [r \in Requests |-> ReportOf(r, id)] = [r \in Requests |-> 0]
    BY DEF Init, ReportOf, NoReport
  <2>2. [s \in Slots |-> Billed(<<id, s>>)] = [s \in Slots |-> 0]
    BY <1>2
  <2>3. Reported(id) = 0 /\ ChargedTo(id) = 0
    BY <2>1, <2>2, SumsAssumption, TotalOfZeros DEF Reported, ChargedTo
  <2> QED
    BY <2>3 DEF Balanced
<1> QED
  BY <1>1, <1>2, <1>3 DEF InOrder

LEMMA OrderlyStep == IInv /\ Orderly /\ [Next]_vars => Orderly'
<1> SUFFICES ASSUME IInv, Orderly, [Next]_vars, setting'.faults = {} PROVE InOrder'
  BY DEF Orderly
<1>1. CASE UNCHANGED vars \/ Lapse
  <2>1. UNCHANGED <<setting, hold, ledger, req, at, slot, final, gone, report>>
    BY <1>1 DEF vars, given, wallet, Lapse
  <2>2. InOrder
    BY <2>1 DEF Orderly
  <2>3. ASSUME NEW r \in Requests PROVE Undisturbed(r)'
    BY <2>1, <2>2 DEF InOrder, Undisturbed, UsageSlot
  <2>4. ASSUME NEW id \in Ids, NEW s \in Slots PROVE RowInOrder(id, s)'
    BY <2>1, <2>2 DEF InOrder, RowInOrder, Billed, Bank!Held
  <2>5. ASSUME NEW id \in Ids PROVE Balanced(id)'
    <3>1. Balanced(id)
      BY <2>2 DEF InOrder
    <3> QED
      BY <2>1, <3>1 DEF Balanced, Reported, ChargedTo, ReportOf, Billed
  <2> QED
    BY <2>3, <2>4, <2>5 DEF InOrder
<1>2. ASSUME NEW q \in Requests,
             Refuse(q) \/ Arrive(q) \/ Step(q) \/ StartCancel(q) \/ Disconnect(q)
      PROVE  InOrder'
  <2>1. Sustained(q)
    BY <1>2, StepIsKept
  <2>2. setting' = setting
    BY <1>2 DEF Step, Refuse, Arrive, StartCancel, Disconnect, Reserve, UpstreamOK,
       UpstreamFails, Release, ReserveUsage, Consume, Settle, Commit, VideoAccepted,
       Discard, RecordJob, Cancel, CommitCancel, given
  <2>3. InOrder
    BY <2>2 DEF Orderly
  <2>4. Booked(q) /\ at[q] # "done"
    BY <1>2, <2>2, <2>3, StepIsBooked
  <2> QED
    BY <2>1, <2>3, <2>4, BookedKept
<1> QED
  BY <1>1, <1>2 DEF Next

\* When nothing fails, what the usage logs of a call report is what its caller
\* was charged, whatever retries shared its keys and whichever fallback was taken.
THEOREM BooksAgree == Spec => []ReportsMatchLedger
<1>1. Orderly => ReportsMatchLedger
  BY DEF Orderly, InOrder, Balanced, ReportsMatchLedger
<1> QED
  BY <1>1, OrderlyInit, OrderlyStep, Inductive, PTL DEF Spec

-----------------------------------------------------------------------------
(* Streamed answers relayed to the client, for every list of chunks, every     *)
(* call, every price and every report of the upstream.                         *)

\* The highest of the first numbers.
LEMMA MaxOfFirst ==
  ASSUME NEW n \in Nat \ {0}
  PROVE  Max(1..n) = n
<1>1. n \in 1..n /\ \A y \in 1..n : n >= y OBVIOUS
<1>2. \A x \in 1..n : (\A y \in 1..n : x >= y) => x = n BY <1>1
<1> QED BY <1>1, <1>2 DEF Max

LEMMA MaxOfExtended ==
  ASSUME NEW n \in Nat, NEW s \in SUBSET (1..(n + 1)), n + 1 \in s
  PROVE  Max(s) = n + 1
<1>1. \A y \in s : n + 1 >= y OBVIOUS
<1>2. \A x \in s : (\A y \in s : x >= y) => x = n + 1
  <2> SUFFICES ASSUME NEW x \in s, \A y \in s : x >= y PROVE x = n + 1 OBVIOUS
  <2>1. x >= n + 1 /\ n + 1 >= x /\ x \in Int BY <1>1
  <2> QED BY <2>1
<1> QED BY <1>1, <1>2 DEF Max

\* A set of numbers has its highest among its members.
LEMMA MaxIsMember ==
  ASSUME NEW n \in Nat, NEW s \in SUBSET (1..n), s # {}
  PROVE  Max(s) \in s /\ \A y \in s : Max(s) >= y
<1> DEFINE B == {m \in Nat : \A y \in s : m >= y}
<1>1. n \in B /\ B \in SUBSET Nat OBVIOUS
<1> HIDE DEF B
<1>2. PICK m \in B : \A b \in B : m <= b BY <1>1, LeastNatural
<1>3. m \in Nat /\ \A y \in s : m >= y BY <1>2 DEF B
<1>4. m \in s
  <2> SUFFICES ASSUME m \notin s PROVE FALSE OBVIOUS
  <2>1. PICK y \in s : TRUE OBVIOUS
  <2>2. y \in Nat /\ y >= 1 OBVIOUS
  <2>3. m >= y /\ m # y BY <1>3, <2>1
  <2>4. m - 1 \in Nat /\ ~(m <= m - 1) BY <1>3, <2>2, <2>3
  <2>5. ASSUME NEW z \in s PROVE m - 1 >= z
    <3>1. z \in Int /\ m >= z /\ m # z BY <1>3
    <3> QED BY <3>1, <1>3
  <2>6. m - 1 \in B BY <2>4, <2>5 DEF B
  <2> QED BY <1>2, <2>4, <2>6
<1>5. \E x \in s : \A y \in s : x >= y BY <1>3, <1>4
<1> QED BY <1>5 DEF Max

-----------------------------------------------------------------------------
(* The folds of the relay.                                                   *)

\* The matches of a word in a text, at one more position.
Scanned(text, word, spans, k) ==
  IF Hit(text, word, k) /\ k \notin UNION spans
  THEN spans \cup {k..(k + Len(word) - 1)} ELSE spans

\* What is left of a text, at one more position.
Hidden(text, covered, out, k) ==
  IF k \notin covered THEN Append(out, text[k])
  ELSE IF k - 1 \in covered THEN out
  ELSE Append(out, Redacted)

\* One step of each of them; p is what a fold is about.
Applied(fold, p, acc, x) ==
  IF fold = "read" THEN Read(acc, x)
  ELSE IF fold = "claude" THEN ClaudePart(acc, x)
  ELSE IF fold = "responses" THEN ResponsesPart(acc, x)
  ELSE IF fold = "count" THEN Counted(acc, x)
  ELSE IF fold = "keep_messages" THEN KeptOfMessages(acc, x)
  ELSE IF fold = "keep_responses" THEN KeptOfResponses(acc, x)
  ELSE IF fold = "keep" THEN IF x \in p THEN Append(acc, x) ELSE acc
  ELSE IF fold = "items" THEN acc \o x.items
  ELSE IF fold = "parts" THEN IF x = << >> THEN acc ELSE Append(acc, [id |-> p, text |-> x])
  ELSE IF fold = "messages" THEN PartsOf(acc, x, p[x])
  ELSE IF fold = "matches" THEN Scanned(p[1], p[2], acc, x)
  ELSE Hidden(p[1], p[2], acc, x)

\* A fold as the function on sets the library defines it by.
IsFold(fold, p, b, x, n, g) ==
  g = [s \in SUBSET (1..n) |->
         IF s = {} THEN b ELSE Applied(fold, p, g[s \ {Max(s)}], x[Max(s)])]

\* A fold element by element.
IsRun(fold, p, b, x, n, r) ==
  /\ r[0] = b
  /\ \A i \in 1..n : r[i] = Applied(fold, p, r[i - 1], x[i])

\* There is one: the function for n + 1 elements extends that for n.
LEMMA FoldExists ==
  ASSUME NEW fold, NEW p, NEW b, NEW x, NEW n \in Nat
  PROVE  \E g : IsFold(fold, p, b, x, n, g)
<1> DEFINE N == {m \in Nat : \E g : IsFold(fold, p, b, x, m, g)}
<1>1. 0 \in N
  <2> DEFINE g == [s \in SUBSET (1..0) |-> b]
  <2>1. \A s \in SUBSET (1..0) : s = {} OBVIOUS
  <2>2. IsFold(fold, p, b, x, 0, g) BY <2>1 DEF IsFold
  <2> QED BY <2>2
<1>2. ASSUME NEW m \in N PROVE m + 1 \in N
  <2>1. m \in Nat /\ m + 1 \in Nat OBVIOUS
  <2>2. PICK g : IsFold(fold, p, b, x, m, g) OBVIOUS
  <2> DEFINE h == [s \in SUBSET (1..(m + 1)) |->
               IF m + 1 \in s THEN Applied(fold, p, g[s \ {m + 1}], x[m + 1]) ELSE g[s]]
  <2>3. ASSUME NEW s \in SUBSET (1..(m + 1))
        PROVE  h[s] = IF s = {} THEN b ELSE Applied(fold, p, h[s \ {Max(s)}], x[Max(s)])
    <3>1. CASE m + 1 \in s
      <4>1. Max(s) = m + 1 BY <2>1, <3>1, MaxOfExtended
      <4>2. s \ {m + 1} \in SUBSET (1..(m + 1)) /\ m + 1 \notin s \ {m + 1} /\ s # {} BY <3>1
      <4>3. h[s \ {m + 1}] = g[s \ {m + 1}] BY <4>2
      <4> QED BY <3>1, <4>1, <4>2, <4>3
    <3>2. CASE m + 1 \notin s
      <4>1. s \in SUBSET (1..m) BY <2>1, <3>2
      <4>2. h[s] = g[s] BY <3>2
      <4>3. CASE s = {} BY <2>2, <4>1, <4>2, <4>3 DEF IsFold
      <4>4. CASE s # {}
        <5>1. s \ {Max(s)} \in SUBSET (1..m) /\ m + 1 \notin s \ {Max(s)} BY <3>2, <4>1
        <5>2. h[s \ {Max(s)}] = g[s \ {Max(s)}] BY <5>1, <2>1
        <5>3. g[s] = Applied(fold, p, g[s \ {Max(s)}], x[Max(s)]) BY <2>2, <4>1, <4>4 DEF IsFold
        <5> QED BY <4>2, <4>4, <5>2, <5>3
      <4> QED BY <4>3, <4>4
    <3> QED BY <3>1, <3>2
  <2> HIDE DEF h
  <2>4. h = [s \in SUBSET (1..(m + 1)) |->
               IF s = {} THEN b ELSE Applied(fold, p, h[s \ {Max(s)}], x[Max(s)])]
    BY <2>3 DEF h
  <2>5. IsFold(fold, p, b, x, m + 1, h) BY <2>4 DEF IsFold
  <2> QED BY <2>1, <2>5
<1>3. N \in SUBSET Nat OBVIOUS
<1> HIDE DEF N
<1>4. n \in N BY <1>1, <1>2, <1>3, EveryNatural
<1> QED BY <1>4 DEF N

\* Its values at the first elements are those of a run.
LEMMA FoldRuns ==
  ASSUME NEW fold, NEW p, NEW b, NEW x, NEW n \in Nat, NEW g, IsFold(fold, p, b, x, n, g)
  PROVE  \E r : IsRun(fold, p, b, x, n, r) /\ r[n] = g[1..n]
<1> DEFINE r == [i \in 0..n |-> g[1..i]]
<1>1. 1..0 = {} /\ 1..0 \in SUBSET (1..n) /\ 0 \in 0..n OBVIOUS
<1>2. r[0] = b BY <1>1 DEF IsFold
<1>3. ASSUME NEW i \in 1..n PROVE r[i] = Applied(fold, p, r[i - 1], x[i])
  <2>1. i \in Nat \ {0} /\ i \in 0..n /\ i - 1 \in 0..n OBVIOUS
  <2>2. Max(1..i) = i BY <2>1, MaxOfFirst
  <2>3. (1..i) \ {i} = 1..(i - 1) BY <2>1
  <2>4. 1..i \in SUBSET (1..n)
    <3>1. \A j \in 1..i : j \in 1..n BY <2>1
    <3> QED BY <3>1
  <2>5. 1 \in 1..i BY <2>1
  <2>6. g[1..i] = Applied(fold, p, g[1..(i - 1)], x[i]) BY <2>2, <2>3, <2>4, <2>5 DEF IsFold
  <2> QED BY <2>1, <2>6
<1>4. r[n] = g[1..n] OBVIOUS
<1> QED BY <1>2, <1>3, <1>4 DEF IsRun

\* The events a client reads, one by one.
LEMMA ReadRuns ==
  ASSUME NEW b, NEW x, NEW n \in Nat, DOMAIN x = 1..n
  PROVE  \E r : IsRun("read", 0, b, x, n, r) /\ FoldLeft(Read, b, x) = r[n]
<1> DEFINE iter[s \in SUBSET (DOMAIN x)] ==
       IF s = {} THEN b ELSE LET y == Max(s) IN Read(iter[s \ {y}], x[y])
<1>1. FoldLeft(Read, b, x) = iter[DOMAIN x] BY DEF FoldLeft, MapThenFoldSet
<1>2. \A a, e : Applied("read", 0, a, e) = Read(a, e) BY DEF Applied
<1>3. PICK g : IsFold("read", 0, b, x, n, g) BY FoldExists
<1>4. g = [s \in SUBSET (DOMAIN x) |->
            IF s = {} THEN b ELSE Read(g[s \ {Max(s)}], x[Max(s)])]
  BY <1>2, <1>3 DEF IsFold
<1>5. iter = [s \in SUBSET (DOMAIN x) |->
               IF s = {} THEN b ELSE Read(iter[s \ {Max(s)}], x[Max(s)])]
  BY <1>4
<1> HIDE DEF iter
<1>6. IsFold("read", 0, b, x, n, iter) BY <1>2, <1>5 DEF IsFold
<1> QED BY <1>1, <1>6, FoldRuns

\* The parts of a delta, one by one.
LEMMA ClaudeRuns ==
  ASSUME NEW b, NEW x, NEW n \in Nat, DOMAIN x = 1..n
  PROVE  \E r : IsRun("claude", 0, b, x, n, r) /\ FoldLeft(ClaudePart, b, x) = r[n]
<1> DEFINE iter[s \in SUBSET (DOMAIN x)] ==
       IF s = {} THEN b ELSE LET y == Max(s) IN ClaudePart(iter[s \ {y}], x[y])
<1>1. FoldLeft(ClaudePart, b, x) = iter[DOMAIN x] BY DEF FoldLeft, MapThenFoldSet
<1>2. \A a, e : Applied("claude", 0, a, e) = ClaudePart(a, e) BY DEF Applied
<1>3. PICK g : IsFold("claude", 0, b, x, n, g) BY FoldExists
<1>4. g = [s \in SUBSET (DOMAIN x) |->
            IF s = {} THEN b ELSE ClaudePart(g[s \ {Max(s)}], x[Max(s)])]
  BY <1>2, <1>3 DEF IsFold
<1>5. iter = [s \in SUBSET (DOMAIN x) |->
               IF s = {} THEN b ELSE ClaudePart(iter[s \ {Max(s)}], x[Max(s)])]
  BY <1>4
<1> HIDE DEF iter
<1>6. IsFold("claude", 0, b, x, n, iter) BY <1>2, <1>5 DEF IsFold
<1> QED BY <1>1, <1>6, FoldRuns

\* The parts of a delta, one by one.
LEMMA ResponsesRuns ==
  ASSUME NEW b, NEW x, NEW n \in Nat, DOMAIN x = 1..n
  PROVE  \E r : IsRun("responses", 0, b, x, n, r) /\ FoldLeft(ResponsesPart, b, x) = r[n]
<1> DEFINE iter[s \in SUBSET (DOMAIN x)] ==
       IF s = {} THEN b ELSE LET y == Max(s) IN ResponsesPart(iter[s \ {y}], x[y])
<1>1. FoldLeft(ResponsesPart, b, x) = iter[DOMAIN x] BY DEF FoldLeft, MapThenFoldSet
<1>2. \A a, e : Applied("responses", 0, a, e) = ResponsesPart(a, e) BY DEF Applied
<1>3. PICK g : IsFold("responses", 0, b, x, n, g) BY FoldExists
<1>4. g = [s \in SUBSET (DOMAIN x) |->
            IF s = {} THEN b ELSE ResponsesPart(g[s \ {Max(s)}], x[Max(s)])]
  BY <1>2, <1>3 DEF IsFold
<1>5. iter = [s \in SUBSET (DOMAIN x) |->
               IF s = {} THEN b ELSE ResponsesPart(iter[s \ {Max(s)}], x[Max(s)])]
  BY <1>4
<1> HIDE DEF iter
<1>6. IsFold("responses", 0, b, x, n, iter) BY <1>2, <1>5 DEF IsFold
<1> QED BY <1>1, <1>6, FoldRuns

\* The parts of a prompt that are counted.
LEMMA CountRuns ==
  ASSUME NEW b, NEW x, NEW n \in Nat, DOMAIN x = 1..n
  PROVE  \E r : IsRun("count", 0, b, x, n, r) /\ FoldLeft(Counted, b, x) = r[n]
<1> DEFINE iter[s \in SUBSET (DOMAIN x)] ==
       IF s = {} THEN b ELSE LET y == Max(s) IN Counted(iter[s \ {y}], x[y])
<1>1. FoldLeft(Counted, b, x) = iter[DOMAIN x] BY DEF FoldLeft, MapThenFoldSet
<1>2. \A a, e : Applied("count", 0, a, e) = Counted(a, e) BY DEF Applied
<1>3. PICK g : IsFold("count", 0, b, x, n, g) BY FoldExists
<1>4. g = [s \in SUBSET (DOMAIN x) |->
            IF s = {} THEN b ELSE Counted(g[s \ {Max(s)}], x[Max(s)])]
  BY <1>2, <1>3 DEF IsFold
<1>5. iter = [s \in SUBSET (DOMAIN x) |->
               IF s = {} THEN b ELSE Counted(iter[s \ {Max(s)}], x[Max(s)])]
  BY <1>4
<1> HIDE DEF iter
<1>6. IsFold("count", 0, b, x, n, iter) BY <1>2, <1>5 DEF IsFold
<1> QED BY <1>1, <1>6, FoldRuns

\* The parts of a Messages request that are kept.
LEMMA MessagesRequestRuns ==
  ASSUME NEW b, NEW x, NEW n \in Nat, DOMAIN x = 1..n
  PROVE  \E r : IsRun("keep_messages", 0, b, x, n, r) /\ FoldLeft(KeptOfMessages, b, x) = r[n]
<1> DEFINE iter[s \in SUBSET (DOMAIN x)] ==
       IF s = {} THEN b ELSE LET y == Max(s) IN KeptOfMessages(iter[s \ {y}], x[y])
<1>1. FoldLeft(KeptOfMessages, b, x) = iter[DOMAIN x] BY DEF FoldLeft, MapThenFoldSet
<1>2. \A a, e : Applied("keep_messages", 0, a, e) = KeptOfMessages(a, e) BY DEF Applied
<1>3. PICK g : IsFold("keep_messages", 0, b, x, n, g) BY FoldExists
<1>4. g = [s \in SUBSET (DOMAIN x) |->
            IF s = {} THEN b ELSE KeptOfMessages(g[s \ {Max(s)}], x[Max(s)])]
  BY <1>2, <1>3 DEF IsFold
<1>5. iter = [s \in SUBSET (DOMAIN x) |->
               IF s = {} THEN b ELSE KeptOfMessages(iter[s \ {Max(s)}], x[Max(s)])]
  BY <1>4
<1> HIDE DEF iter
<1>6. IsFold("keep_messages", 0, b, x, n, iter) BY <1>2, <1>5 DEF IsFold
<1> QED BY <1>1, <1>6, FoldRuns

\* The parts of a Responses request that are kept.
LEMMA ResponsesRequestRuns ==
  ASSUME NEW b, NEW x, NEW n \in Nat, DOMAIN x = 1..n
  PROVE  \E r : IsRun("keep_responses", 0, b, x, n, r) /\ FoldLeft(KeptOfResponses, b, x) = r[n]
<1> DEFINE iter[s \in SUBSET (DOMAIN x)] ==
       IF s = {} THEN b ELSE LET y == Max(s) IN KeptOfResponses(iter[s \ {y}], x[y])
<1>1. FoldLeft(KeptOfResponses, b, x) = iter[DOMAIN x] BY DEF FoldLeft, MapThenFoldSet
<1>2. \A a, e : Applied("keep_responses", 0, a, e) = KeptOfResponses(a, e) BY DEF Applied
<1>3. PICK g : IsFold("keep_responses", 0, b, x, n, g) BY FoldExists
<1>4. g = [s \in SUBSET (DOMAIN x) |->
            IF s = {} THEN b ELSE KeptOfResponses(g[s \ {Max(s)}], x[Max(s)])]
  BY <1>2, <1>3 DEF IsFold
<1>5. iter = [s \in SUBSET (DOMAIN x) |->
               IF s = {} THEN b ELSE KeptOfResponses(iter[s \ {Max(s)}], x[Max(s)])]
  BY <1>4
<1> HIDE DEF iter
<1>6. IsFold("keep_responses", 0, b, x, n, iter) BY <1>2, <1>5 DEF IsFold
<1> QED BY <1>1, <1>6, FoldRuns

\* Runs of one fold over the same first elements agree on them.
LEMMA RunsAgree ==
  ASSUME NEW fold, NEW p, NEW b, NEW x, NEW y, NEW n \in Nat, NEW r, NEW q,
         \A i \in 1..n : x[i] = y[i], IsRun(fold, p, b, x, n, r), IsRun(fold, p, b, y, n, q)
  PROVE  r[n] = q[n]
<1> DEFINE N == {m \in Nat : m <= n => r[m] = q[m]}
<1>1. 0 \in N BY DEF IsRun
<1>2. ASSUME NEW m \in N PROVE m + 1 \in N
  <2>1. m \in Nat /\ m + 1 \in Nat /\ (m + 1) - 1 = m OBVIOUS
  <2>2. SUFFICES ASSUME m + 1 <= n PROVE r[m + 1] = q[m + 1] BY <2>1
  <2>3. m + 1 \in 1..n /\ r[m] = q[m] BY <2>1, <2>2
  <2> QED BY <2>1, <2>3 DEF IsRun
<1>3. N \in SUBSET Nat OBVIOUS
<1> HIDE DEF N
<1>4. n \in N BY <1>1, <1>2, <1>3, EveryNatural
<1> QED BY <1>4 DEF N

\* What a client has made of a sequence of events.
Seen(b, events) == FoldLeft(Read, b, events)

\* A client that is sent nothing stays as it is.
LEMMA ReadNothing ==
  ASSUME NEW b
  PROVE  Seen(b, << >>) = b
<1>1. DOMAIN << >> = 1..0 OBVIOUS
<1>2. PICK r : IsRun("read", 0, b, << >>, 0, r) /\ FoldLeft(Read, b, << >>) = r[0]
  BY <1>1, ReadRuns
<1> QED BY <1>2 DEF IsRun, Seen

\* One more event is read after the others.
LEMMA ReadOneMore ==
  ASSUME NEW b, NEW S, NEW ev \in Seq(S), NEW e \in S
  PROVE  Seen(b, Append(ev, e)) = Read(Seen(b, ev), e)
<1> DEFINE n == Len(ev)  more == Append(ev, e)
<1>1. n \in Nat /\ n + 1 \in Nat /\ (n + 1) - 1 = n OBVIOUS
<1>2. DOMAIN ev = 1..n /\ DOMAIN more = 1..(n + 1) /\ more[n + 1] = e
      /\ \A i \in 1..n : more[i] = ev[i]
  OBVIOUS
<1> HIDE DEF n, more
<1>3. PICK r : IsRun("read", 0, b, ev, n, r) /\ FoldLeft(Read, b, ev) = r[n]
  BY <1>1, <1>2, ReadRuns
<1>4. PICK q : IsRun("read", 0, b, more, n + 1, q) /\ FoldLeft(Read, b, more) = q[n + 1]
  BY <1>1, <1>2, ReadRuns
<1>5. IsRun("read", 0, b, more, n, q)
  <2>1. \A i \in 1..n : i \in 1..(n + 1) BY <1>1
  <2> QED BY <1>4, <2>1 DEF IsRun
<1>6. r[n] = q[n] BY <1>1, <1>2, <1>3, <1>5, RunsAgree
<1>7. n + 1 \in 1..(n + 1) BY <1>1
<1>8. q[n + 1] = Read(q[n], e) BY <1>1, <1>2, <1>4, <1>7 DEF IsRun, Applied
<1> QED BY <1>3, <1>4, <1>6, <1>8 DEF more, Seen

-----------------------------------------------------------------------------
(* The invariant of a relayed stream.                                        *)

AnswerKinds == {"thinking", "text", "tool"}

OtherKind   == "delta of another kind"
SecondStart == "second start"
NeverBegun  == "end without a start"
NoEvent     == "foreign data"

FaultNames == {"after the end", "second start", "index out of order", "delta outside a block",
               "delta of another kind", "stop of no open block", "end without a start",
               "block left open", "foreign data"}

Clients == [starts : Nat, kinds : Seq(AnswerKinds), stopped : SUBSET Nat, got : Nat,
            ended : BOOLEAN, gone : BOOLEAN, faults : SUBSET FaultNames]

Converters == [started : BOOLEAN, done : BOOLEAN, finish : BOOLEAN, usage : BOOLEAN,
               next : Nat, open : Seq(Nat), at : [DeltaSlots -> Nat \cup {-1}]]

\* What the upstream has sent so far.
Sendings == [lines : Nat, chunked : BOOLEAN, parts : Nat, reported : BOOLEAN,
             tooled : BOOLEAN, resumed : BOOLEAN, foreign : BOOLEAN]

RelayTyped ==
  /\ call \in RelayCalls /\ conv \in Converters /\ client \in Clients /\ up \in Sendings

\* The blocks a converter holds open are those the client has not seen closed,
\* each once, and a slot that holds one holds one of its kind.
Agree(c, k) ==
  /\ c.next = Len(k.kinds)
  /\ \A i \in k.stopped : i < c.next
  /\ \A j \in DOMAIN c.open : c.open[j] < c.next /\ c.open[j] \notin k.stopped
  /\ \A i, j \in DOMAIN c.open : c.open[i] = c.open[j] => i = j
  /\ \A i \in 0..(c.next - 1) : i \notin k.stopped => \E j \in DOMAIN c.open : c.open[j] = i
  /\ \A s \in DeltaSlots : c.at[s] # -1 =>
       /\ \E j \in DOMAIN c.open : c.open[j] = c.at[s]
       /\ k.kinds[c.at[s] + 1] = Kind(s)

\* Text and thinking are written to the block opened last, which is theirs.
Latest(c) ==
  \A s \in Contents : c.at[s] # -1 => c.open # << >> /\ c.open[Len(c.open)] = c.at[s]

\* The faults the code does not avoid.
Allowed ==
  (IF call.out = "claude" /\ up.resumed THEN {OtherKind} ELSE {})
  \cup (IF call.out = "responses" /\ ~call.named THEN {SecondStart} ELSE {})
  \cup (IF phase = "done" /\ ~up.chunked THEN {NeverBegun} ELSE {})
  \cup (IF up.foreign THEN {NoEvent} ELSE {})

\* The client has been brought to the end.
Over == phase = "done" \/ (call.out # "openai" /\ conv.done)

\* A client that knows what the converter knows.
Follows(k) ==
  /\ ~k.gone /\ k.faults \subseteq Allowed /\ k.got = up.parts
  /\ k.ended <=> Over
  /\ call.out # "openai" => /\ k.starts = IF up.chunked THEN 1 ELSE 0
                            /\ ~conv.done => Agree(conv, k)

\* A client that is still there does; to one that left, the converter goes on
\* writing as to one that had stayed.
ClientFollows == \E k \in Clients : Follows(k) /\ (client.gone \/ client = k)

\* The converter follows the upstream.
ConverterFollows ==
  /\ call.out = "openai" => ~conv.done
  /\ call.out # "openai" =>
       /\ phase = "done" => conv.done
       /\ conv.done => up.chunked \/ phase = "done"
       /\ conv.started <=> up.chunked /\ (call.out = "claude" \/ call.named)
       /\ call.out = "claude" /\ ~up.tooled => Latest(conv)
       /\ conv.done /\ phase # "done" => conv.finish /\ conv.usage

\* The end and the money.
EndsAgree ==
  /\ client.ended => Over
  /\ money = "settled" => phase = "done"
  /\ money = "released" => phase \in {"failed", "interrupted"}
  /\ conv.usage => up.reported
  /\ tail = "usage" => up.reported
  /\ source = "final_chunk" => up.reported
  /\ up.reported => tail \in {"plain", "usage"}
  /\ source # "none" => phase = "done"
  /\ source = "estimated" => ~(tail = "usage" /\ HasUsage(Parsed(call.report)))

RelayInv ==
  /\ RelayTyped /\ client.faults \subseteq Allowed
  /\ ClientFollows /\ ConverterFollows /\ EndsAgree

-----------------------------------------------------------------------------
(* What a client makes of each event.                                        *)

\* A fault that did not happen leaves no trace.
LEMMA NoFault ==
  ASSUME NEW k, NEW bad \in BOOLEAN, ~bad, NEW name
  PROVE  Fault(k, bad, name) = k
BY DEF Fault

\* The start of a block: it is the next one.
LEMMA ReadBlockStart ==
  ASSUME NEW k \in Clients, ~k.ended, NEW s \in DeltaSlots, NEW i \in Nat, i = Len(k.kinds),
         Kind(s) \in AnswerKinds
  PROVE  Read(k, BlockStart(i, s)) = [k EXCEPT !.kinds = Append(@, Kind(s))]
<1>1. Fault(k, k.ended, "after the end") = k BY NoFault DEF Clients
<1> DEFINE e == BlockStart(i, s)
<1>2. e.type = "block_start" /\ e.index = i /\ e.kind = Kind(s) BY DEF BlockStart
<1> HIDE DEF e
<1>3. Read(k, e) = Fault([k EXCEPT !.kinds = Append(@, e.kind)], e.index # Len(k.kinds), "index out of order")
  BY <1>1, <1>2 DEF Read
<1>4. ~(e.index # Len(k.kinds)) BY <1>2
<1> QED BY <1>2, <1>3, <1>4 DEF Fault, e

\* A delta inside an open block: one more piece, of another kind or not.
LEMMA ReadDelta ==
  ASSUME NEW k \in Clients, ~k.ended, NEW s \in DeltaSlots, NEW i \in Nat, IsOpen(k, i)
  PROVE  Read(k, Delta(i, s)) =
           IF k.kinds[i + 1] = Kind(s) THEN [k EXCEPT !.got = @ + 1]
           ELSE [k EXCEPT !.got = @ + 1, !.faults = @ \cup {OtherKind}]
<1>1. Fault(k, k.ended, "after the end") = k BY NoFault DEF Clients
<1> DEFINE e == Delta(i, s)  d == [k EXCEPT !.got = @ + 1]
<1>2. e.type = "delta" /\ e.index = i /\ e.kind = Kind(s) BY DEF Delta
<1> HIDE DEF e
<1>3. Fault(d, ~IsOpen(k, e.index), "delta outside a block") = d BY <1>2 DEF Fault
<1>4. Read(k, e) = Fault(Fault(d, ~IsOpen(k, e.index), "delta outside a block"),
                         IsOpen(k, e.index) /\ k.kinds[e.index + 1] # e.kind, "delta of another kind")
  BY <1>1, <1>2 DEF Read
<1>5. Read(k, e) = IF k.kinds[i + 1] = Kind(s) THEN d
                   ELSE [d EXCEPT !.faults = @ \cup {OtherKind}]
  BY <1>2, <1>3, <1>4 DEF Fault, OtherKind
<1> QED BY <1>5 DEF e, Clients

\* The end of an open block.
LEMMA ReadBlockStop ==
  ASSUME NEW k \in Clients, ~k.ended, NEW i \in Nat, IsOpen(k, i)
  PROVE  Read(k, BlockStop(i)) = [k EXCEPT !.stopped = @ \cup {i}]
<1>1. Fault(k, k.ended, "after the end") = k BY NoFault DEF Clients
<1> DEFINE e == BlockStop(i)
<1>2. e.type = "block_stop" /\ e.index = i BY DEF BlockStop
<1> HIDE DEF e
<1>3. Read(k, e) = Fault([k EXCEPT !.stopped = @ \cup {e.index}], ~IsOpen(k, e.index), "stop of no open block")
  BY <1>1, <1>2 DEF Read
<1> QED BY <1>2, <1>3 DEF Fault, e

\* The end of the stream, once every block is closed.
LEMMA ReadStop ==
  ASSUME NEW k \in Clients, ~k.ended, \A i \in DOMAIN k.kinds : ~IsOpen(k, i - 1)
  PROVE  Read(k, Stop) = IF k.starts = 0
                         THEN [k EXCEPT !.ended = TRUE, !.faults = @ \cup {NeverBegun}]
                         ELSE [k EXCEPT !.ended = TRUE]
<1>1. Fault(k, k.ended, "after the end") = k BY NoFault DEF Clients
<1> DEFINE d == Fault([k EXCEPT !.ended = TRUE], k.starts = 0, "end without a start")
<1>2. Stop.type = "stop" BY DEF Stop
<1>3. Read(k, Stop) = Fault(d, \E i \in DOMAIN k.kinds : IsOpen(k, i - 1), "block left open")
  BY <1>1, <1>2 DEF Read
<1>4. Read(k, Stop) = d BY <1>3 DEF Fault
<1> QED BY <1>4 DEF Fault, Clients, NeverBegun

\* The start of the stream.
LEMMA ReadStart ==
  ASSUME NEW k \in Clients, ~k.ended
  PROVE  Read(k, Start) = IF k.starts > 0
                          THEN [k EXCEPT !.starts = 1, !.faults = @ \cup {SecondStart}]
                          ELSE [k EXCEPT !.starts = 1]
<1>1. Fault(k, k.ended, "after the end") = k BY NoFault DEF Clients
<1>2. Start.type = "start" BY DEF Start
<1>3. Read(k, Start) = Fault([k EXCEPT !.starts = 1], k.starts > 0, "second start")
  BY <1>1, <1>2 DEF Read
<1> QED BY <1>3 DEF Fault, Clients, SecondStart

\* A chunk that is passed on as it is, and the mark of the end.
LEMMA ReadChunk ==
  ASSUME NEW k \in Clients, ~k.ended, NEW n \in Nat
  PROVE  /\ Read(k, Chunk(n)) = [k EXCEPT !.got = @ + n]
         /\ Read(k, DoneMark) = [k EXCEPT !.ended = TRUE]
<1>1. Fault(k, k.ended, "after the end") = k BY NoFault DEF Clients
<1>2. Chunk(n).type = "chunk" /\ Chunk(n).parts = n /\ DoneMark.type = "done" BY DEF Chunk, DoneMark
<1>3. Read(k, DoneMark) = [k EXCEPT !.ended = TRUE] BY <1>1, <1>2 DEF Read
<1> DEFINE e == Chunk(n)
<1>4. e.type = "chunk" /\ e.parts = n BY <1>2
<1> HIDE DEF e
<1>5. Read(k, e) = [k EXCEPT !.got = @ + n] BY <1>1, <1>4 DEF Read
<1> QED BY <1>3, <1>5 DEF e

\* What is no event is a fault and changes nothing else.
LEMMA ReadForeign ==
  ASSUME NEW k \in Clients
  PROVE  Seen(k, <<Foreign>>) = [k EXCEPT !.faults = @ \cup {NoEvent}]
<1>1. Append(<< >>, Foreign) = <<Foreign>> /\ << >> \in Seq({Foreign}) OBVIOUS
<1>2. Seen(k, Append(<< >>, Foreign)) = Read(Seen(k, << >>), Foreign) BY <1>1, ReadOneMore
<1>3. Foreign.type = "foreign" BY DEF Foreign
<1>4. Read(k, Foreign) = Fault(k, TRUE, "foreign data")
  <2> DEFINE e == Foreign
  <2>1. e.type = "foreign" BY <1>3
  <2> HIDE DEF e
  <2>2. Read(k, e) = Fault(k, TRUE, "foreign data") BY <2>1 DEF Read
  <2> QED BY <2>2 DEF e
<1> QED BY <1>1, <1>2, <1>4, ReadNothing DEF Fault, NoEvent

-----------------------------------------------------------------------------
(* The converter at work.                                                    *)

LEMMA KindsOfSlots ==
  ASSUME NEW s \in DeltaSlots
  PROVE  Kind(s) \in AnswerKinds
BY DEF Kind, DeltaSlots, Contents, AnswerKinds

\* A block just opened, on both sides.
LEMMA AgreeOpened ==
  ASSUME NEW c \in Converters, NEW k \in Clients, Agree(c, k), NEW s \in DeltaSlots,
         NEW d, NEW l, d.next = c.next + 1, d.open = Append(c.open, c.next),
         d.at[s] = c.next, \A z \in DeltaSlots : z # s => d.at[z] = c.at[z],
         l.kinds = Append(k.kinds, Kind(s)), l.stopped = k.stopped
  PROVE  Agree(d, l)
<1> DEFINE n == Len(c.open)
<1>1. /\ c.next \in Nat /\ c.open \in Seq(Nat) /\ c.at \in [DeltaSlots -> Nat \cup {-1}]
      /\ k.kinds \in Seq(AnswerKinds) /\ k.stopped \in SUBSET Nat /\ c.next = Len(k.kinds)
  BY DEF Converters, Clients, Agree
<1>2. n \in Nat /\ DOMAIN c.open = 1..n /\ DOMAIN d.open = 1..(n + 1) /\ n + 1 \in DOMAIN d.open
      /\ d.open[n + 1] = c.next /\ \A j \in DOMAIN c.open : j \in DOMAIN d.open /\ d.open[j] = c.open[j]
  BY <1>1
<1>3. \A j \in DOMAIN d.open : j = n + 1 \/ j \in DOMAIN c.open BY <1>2
<1> HIDE DEF n
<1>4. d.next = Len(l.kinds) BY <1>1
<1>5. \A i \in l.stopped : i < d.next
  <2> TAKE i \in l.stopped
  <2>1. i \in Nat /\ i < c.next BY <1>1 DEF Agree
  <2> QED BY <1>1, <2>1
<1>6. \A j \in DOMAIN d.open : d.open[j] < d.next /\ d.open[j] \notin l.stopped
  <2> TAKE j \in DOMAIN d.open
  <2>1. CASE j = n + 1
    <3>1. c.next \notin k.stopped BY <1>1 DEF Agree
    <3> QED BY <1>1, <1>2, <2>1, <3>1
  <2>2. CASE j \in DOMAIN c.open
    <3>1. c.open[j] \in Nat /\ c.open[j] < c.next /\ c.open[j] \notin k.stopped BY <1>1, <2>2 DEF Agree
    <3> QED BY <1>1, <1>2, <2>2, <3>1
  <2> QED BY <1>3, <2>1, <2>2
<1>7. \A i, j \in DOMAIN d.open : d.open[i] = d.open[j] => i = j
  <2> TAKE i, j \in DOMAIN d.open
  <2>1. \A m \in DOMAIN c.open : d.open[m] # c.next
    <3> TAKE m \in DOMAIN c.open
    <3>1. c.open[m] \in Nat /\ c.open[m] < c.next BY <1>1 DEF Agree
    <3> QED BY <1>1, <1>2, <3>1
  <2> QED BY <1>2, <1>3, <2>1 DEF Agree
<1>8. \A i \in 0..(d.next - 1) : i \notin l.stopped => \E j \in DOMAIN d.open : d.open[j] = i
  <2> TAKE i \in 0..(d.next - 1)
  <2> SUFFICES ASSUME i \notin k.stopped PROVE \E j \in DOMAIN d.open : d.open[j] = i OBVIOUS
  <2>1. i = c.next \/ i \in 0..(c.next - 1) BY <1>1
  <2>2. CASE i = c.next BY <1>2, <2>2
  <2>3. CASE i \in 0..(c.next - 1)
    <3>1. PICK j \in DOMAIN c.open : c.open[j] = i BY <2>3 DEF Agree
    <3> QED BY <1>2, <3>1
  <2> QED BY <2>1, <2>2, <2>3
<1>9. \A z \in DeltaSlots : d.at[z] # -1 =>
        /\ \E j \in DOMAIN d.open : d.open[j] = d.at[z]
        /\ l.kinds[d.at[z] + 1] = Kind(z)
  <2> TAKE z \in DeltaSlots
  <2> SUFFICES ASSUME d.at[z] # -1
               PROVE  /\ \E j \in DOMAIN d.open : d.open[j] = d.at[z]
                      /\ l.kinds[d.at[z] + 1] = Kind(z)
    OBVIOUS
  <2>1. CASE z = s
    <3>1. d.at[z] = c.next BY <1>1, <2>1
    <3>2. l.kinds[c.next + 1] = Kind(s) BY <1>1
    <3> QED BY <1>2, <2>1, <3>1, <3>2
  <2>2. CASE z # s
    <3>1. d.at[z] = c.at[z] /\ c.at[z] \in Nat BY <1>1, <2>2
    <3>2. PICK j \in DOMAIN c.open : c.open[j] = c.at[z] BY <3>1 DEF Agree
    <3>3. k.kinds[c.at[z] + 1] = Kind(z) BY <3>1 DEF Agree
    <3>4. c.at[z] < c.next BY <3>2 DEF Agree
    <3>5. c.at[z] + 1 \in 1..Len(k.kinds)
      <4>1. PICK a \in Nat, m \in Nat : a = c.at[z] /\ m = Len(k.kinds) /\ a < m
        BY <1>1, <3>1, <3>4
      <4> QED BY <4>1
    <3>6. l.kinds[c.at[z] + 1] = k.kinds[c.at[z] + 1] BY <1>1, <3>5
    <3> QED BY <1>2, <3>1, <3>2, <3>3, <3>6
  <2> QED BY <2>1, <2>2
<1> QED BY <1>4, <1>5, <1>6, <1>7, <1>8, <1>9 DEF Agree

Events ==
  {Start, Stop, DoneMark} \cup {BlockStart(i, s) : i \in Nat, s \in DeltaSlots}
  \cup {Delta(i, s) : i \in Nat, s \in DeltaSlots}
  \cup {BlockStop(i) : i \in Nat} \cup {Chunk(n) : n \in Nat}

\* Amid a chunk: what the client will have made of the events so far agrees
\* with the converter, n pieces have arrived, and no fault is beyond A.
Writing(b, c, acc, n, t, A) ==
  /\ acc \in [c : Converters, out : Seq(Events)]
  /\ acc.c.started = c.started /\ acc.c.done = c.done
  /\ acc.c.finish = c.finish /\ acc.c.usage = c.usage
  /\ LET k == Seen(b, acc.out)
     IN  /\ k \in Clients /\ ~k.ended /\ k.gone = b.gone /\ k.got = n /\ k.starts = t
         /\ k.faults \subseteq A /\ Agree(acc.c, k)

LEMMA OpenedFields ==
  ASSUME NEW acc, acc.c \in Converters, NEW s \in DeltaSlots, NEW o, o = OpenBlock(acc, s)
  PROVE  /\ o.c.open = Append(acc.c.open, acc.c.next)
         /\ o.c.at \in [DeltaSlots -> Nat \cup {-1}]
         /\ o.c.at[s] = acc.c.next /\ \A z \in DeltaSlots : z # s => o.c.at[z] = acc.c.at[z]
         /\ o.c.at[s] # -1
<1>1. acc.c.next \in Nat /\ acc.c.at \in [DeltaSlots -> Nat \cup {-1}] BY DEF Converters
<1>2. o.c = [acc.c EXCEPT !.open = Append(@, acc.c.next), !.next = @ + 1, !.at[s] = acc.c.next]
  BY DEF OpenBlock
<1>3. o.c.open = Append(acc.c.open, acc.c.next) /\ o.c.at = [acc.c.at EXCEPT ![s] = acc.c.next]
  BY <1>2 DEF Converters
<1> QED BY <1>1, <1>3

LEMMA WritingOpens ==
  ASSUME NEW b, NEW c, NEW acc, NEW n \in Nat, NEW t, NEW A, Writing(b, c, acc, n, t, A),
         NEW s \in DeltaSlots
  PROVE  Writing(b, c, OpenBlock(acc, s), n, t, A)
<1> DEFINE o == OpenBlock(acc, s)  k == Seen(b, acc.out)  l == Seen(b, o.out)
           d == o.c  e == BlockStart(acc.c.next, s)
<1>1. acc.c \in Converters /\ acc.out \in Seq(Events) BY DEF Writing
<1>2. /\ acc.c.next \in Nat /\ acc.c.open \in Seq(Nat) /\ acc.c.at \in [DeltaSlots -> Nat \cup {-1}]
  BY <1>1 DEF Converters
<1>3. e \in Events BY <1>2 DEF Events
<1>4. o = [c |-> d, out |-> Append(acc.out, e)] /\ o.out = Append(acc.out, e) BY DEF OpenBlock
<1>5. d = [acc.c EXCEPT !.open = Append(@, acc.c.next), !.next = @ + 1, !.at[s] = acc.c.next]
  BY DEF OpenBlock
<1>6. /\ d.next = acc.c.next + 1 /\ d.open = Append(acc.c.open, acc.c.next)
      /\ d.at = [acc.c.at EXCEPT ![s] = acc.c.next]
      /\ d.started = acc.c.started /\ d.done = acc.c.done
      /\ d.finish = acc.c.finish /\ d.usage = acc.c.usage
  BY <1>1, <1>5 DEF Converters
<1>7. d \in Converters
  <2>1. acc.c.next + 1 \in Nat /\ Append(acc.c.open, acc.c.next) \in Seq(Nat)
        /\ [acc.c.at EXCEPT ![s] = acc.c.next] \in [DeltaSlots -> Nat \cup {-1}]
    BY <1>2
  <2> QED BY <1>1, <1>5, <2>1 DEF Converters
<1> HIDE DEF o, d, e
<1>8. l = Read(k, e)
  <2>1. Seen(b, Append(acc.out, e)) = Read(Seen(b, acc.out), e) BY <1>1, <1>3, ReadOneMore
  <2> QED BY <1>4, <2>1
<1>9. k \in Clients /\ ~k.ended /\ Agree(acc.c, k) /\ k.gone = b.gone /\ k.got = n /\ k.starts = t
      /\ k.faults \subseteq A
  BY DEF Writing
<1>10. acc.c.next = Len(k.kinds) BY <1>9 DEF Agree
<1>11. Kind(s) \in AnswerKinds BY KindsOfSlots
<1>12. l = [k EXCEPT !.kinds = Append(@, Kind(s))]
  BY <1>2, <1>8, <1>9, <1>10, <1>11, ReadBlockStart DEF e
<1> HIDE DEF k, l
<1>13. /\ l \in Clients /\ l.kinds = Append(k.kinds, Kind(s)) /\ l.stopped = k.stopped
       /\ ~l.ended /\ l.gone = b.gone /\ l.got = n /\ l.starts = t /\ l.faults \subseteq A
  <2>1. k.kinds \in Seq(AnswerKinds) BY <1>9 DEF Clients
  <2>2. Append(k.kinds, Kind(s)) \in Seq(AnswerKinds) BY <1>11, <2>1
  <2>3. l \in Clients BY <1>9, <1>12, <2>2 DEF Clients
  <2>4. /\ l.kinds = Append(k.kinds, Kind(s)) /\ l.stopped = k.stopped
        /\ l.ended = k.ended /\ l.gone = k.gone /\ l.got = k.got /\ l.starts = k.starts
        /\ l.faults = k.faults
    BY <1>9, <1>12 DEF Clients
  <2> QED BY <1>9, <2>3, <2>4
<1>14. Agree(d, l)
  <2>1. PICK cc : cc = acc.c OBVIOUS
  <2>2. cc \in Converters /\ k \in Clients /\ Agree(cc, k) BY <1>1, <1>9, <2>1
  <2>3. d.next = cc.next + 1 /\ d.open = Append(cc.open, cc.next) BY <1>6, <2>1
  <2>4. d.at[s] = cc.next /\ \A z \in DeltaSlots : z # s => d.at[z] = cc.at[z] BY <1>2, <1>6, <2>1
  <2>5. l.kinds = Append(k.kinds, Kind(s)) /\ l.stopped = k.stopped BY <1>13
  <2>6. PICK dd, ll : dd = d /\ ll = l OBVIOUS
  <2> QED BY <2>2, <2>3, <2>4, <2>5, <2>6, AgreeOpened
<1>15. o \in [c : Converters, out : Seq(Events)] BY <1>1, <1>3, <1>4, <1>7
<1>17. Writing(b, c, o, n, t, A)
  <2>1. o.c = d BY DEF d
  <2>2. d.started = c.started /\ d.done = c.done /\ d.finish = c.finish /\ d.usage = c.usage
    BY <1>6 DEF Writing
  <2> QED BY <1>13, <1>14, <1>15, <2>1, <2>2 DEF Writing, l
<1> QED BY <1>17 DEF o

\* The ends of the first m blocks of a list.
Stops(open, m) == [i \in 1..m |-> BlockStop(open[i])]

LEMMA AppendLast ==
  ASSUME NEW S, NEW x \in Seq(S), NEW p \in Seq(S), NEW e \in S
  PROVE  x \o Append(p, e) = Append(x \o p, e)
OBVIOUS

\* One more end is appended to those before it.
LEMMA StopsAppend ==
  ASSUME NEW out \in Seq(Events), NEW open \in Seq(Nat), NEW m \in Nat, m + 1 <= Len(open)
  PROVE  /\ BlockStop(open[m + 1]) \in Events
         /\ out \o Stops(open, m) \in Seq(Events)
         /\ out \o Stops(open, m + 1) = Append(out \o Stops(open, m), BlockStop(open[m + 1]))
<1>1. \A i \in 1..(m + 1) : BlockStop(open[i]) \in Events
  <2> TAKE i \in 1..(m + 1)
  <2>1. i \in 1..Len(open) OBVIOUS
  <2>2. open[i] \in Nat BY <2>1
  <2> QED BY <2>2 DEF Events
<1> DEFINE e == BlockStop(open[m + 1])  p == Stops(open, m)  q == Stops(open, m + 1)
<1>2. p \in Seq(Events) /\ Len(p) = m /\ \A i \in 1..m : p[i] = BlockStop(open[i])
  <2>1. \A i \in 1..m : BlockStop(open[i]) \in Events BY <1>1
  <2> QED BY <2>1 DEF Stops
<1>3. q \in Seq(Events) /\ Len(q) = m + 1 /\ \A i \in 1..(m + 1) : q[i] = BlockStop(open[i])
  <2>1. m + 1 \in Nat OBVIOUS
  <2> QED BY <1>1, <2>1 DEF Stops
<1>4. e \in Events BY <1>1
<1>5. q[m + 1] = e BY <1>3
<1>6. \A i \in 1..m : q[i] = p[i] BY <1>2, <1>3
<1> HIDE DEF e, p, q
<1>7. q = Append(p, e)
  <2>1. Append(p, e) \in Seq(Events) /\ Len(Append(p, e)) = m + 1 BY <1>2, <1>4
  <2>2. ASSUME NEW i \in 1..Len(q) PROVE q[i] = Append(p, e)[i]
    <3>1. i \in 1..m \/ i = m + 1 BY <1>3
    <3>2. CASE i \in 1..m BY <1>2, <1>4, <1>6, <3>2
    <3>3. CASE i = m + 1 BY <1>2, <1>4, <1>5, <3>3
    <3> QED BY <3>1, <3>2, <3>3
  <2> QED BY <1>3, <2>1, <2>2, SeqEqual
<1>8. out \o p \in Seq(Events) BY <1>2, ConcatProperties
<1>9. out \o q = Append(out \o p, e) BY <1>2, <1>4, <1>7, AppendLast
<1> QED BY <1>4, <1>8, <1>9 DEF e, p, q

\* A client that agrees with the converter sees the first m open blocks closed.
LEMMA SeenStops ==
  ASSUME NEW b, NEW out \in Seq(Events), NEW c \in Converters, NEW k, k = Seen(b, out),
         k \in Clients, ~k.ended, Agree(c, k), NEW m \in Nat, m <= Len(c.open)
  PROVE  Seen(b, out \o Stops(c.open, m)) =
           [k EXCEPT !.stopped = @ \cup {c.open[i] : i \in 1..m}]
<1> DEFINE open == c.open
           N == {j \in Nat : j <= Len(open) =>
                   Seen(b, out \o Stops(open, j)) = [k EXCEPT !.stopped = @ \cup {open[i] : i \in 1..j}]}
<1>1. open \in Seq(Nat) /\ Len(open) \in Nat /\ DOMAIN open = 1..Len(open) BY DEF Converters
<1>2. \A j \in DOMAIN open : open[j] \in Nat /\ open[j] < Len(k.kinds) /\ open[j] \notin k.stopped
  <2> TAKE j \in DOMAIN open
  <2>1. open[j] \in Nat BY <1>1
  <2> QED BY <2>1 DEF Agree
<1>3. \A i, j \in DOMAIN open : open[i] = open[j] => i = j BY DEF Agree
<1> HIDE DEF open
<1>4. 0 \in N
  <2>1. Stops(open, 0) = << >> BY DEF Stops
  <2>2. out \o Stops(open, 0) = out BY <2>1, ConcatEmptySeq
  <2>3. {open[i] : i \in 1..0} = {} OBVIOUS
  <2>4. k = [k EXCEPT !.stopped = @ \cup {open[i] : i \in 1..0}] BY <2>3 DEF Clients
  <2> QED BY <2>2, <2>4
<1>5. ASSUME NEW j \in N PROVE j + 1 \in N
  <2>1. j \in Nat /\ j + 1 \in Nat OBVIOUS
  <2>2. SUFFICES ASSUME j + 1 <= Len(open)
                 PROVE  Seen(b, out \o Stops(open, j + 1)) =
                          [k EXCEPT !.stopped = @ \cup {open[i] : i \in 1..(j + 1)}]
    BY <2>1
  <2> DEFINE l == Seen(b, out \o Stops(open, j))  e == BlockStop(open[j + 1])
  <2>3. l = [k EXCEPT !.stopped = @ \cup {open[i] : i \in 1..j}] BY <1>1, <2>1, <2>2
  <2>4. /\ e \in Events /\ out \o Stops(open, j) \in Seq(Events)
        /\ out \o Stops(open, j + 1) = Append(out \o Stops(open, j), e)
    BY <1>1, <2>1, <2>2, StopsAppend
  <2>5. Seen(b, out \o Stops(open, j + 1)) = Read(l, e)
    <3> HIDE DEF e, l
    <3>1. PICK x : x = out \o Stops(open, j) OBVIOUS
    <3>2. x \in Seq(Events) /\ e \in Events BY <2>4, <3>1
    <3>3. Seen(b, Append(x, e)) = Read(Seen(b, x), e) BY <3>2, ReadOneMore
    <3> QED BY <2>4, <3>1, <3>3 DEF l
  <2> HIDE DEF l, e
  <2>6. j + 1 \in DOMAIN open BY <1>1, <2>1, <2>2
  <2>7. \A i \in 1..j : i \in DOMAIN open /\ i # j + 1 BY <1>1, <2>1, <2>2
  <2>8. l.stopped = k.stopped \cup {open[i] : i \in 1..j} BY <2>3 DEF Clients
  <2>9. {open[i] : i \in 1..j} \in SUBSET Nat BY <1>2, <2>7
  <2>10. l \in Clients /\ l.kinds = k.kinds /\ ~l.ended
    <3>1. k.stopped \cup {open[i] : i \in 1..j} \in SUBSET Nat BY <2>9 DEF Clients
    <3> QED BY <2>3, <3>1 DEF Clients
  <2>11. open[j + 1] \notin {open[i] : i \in 1..j} BY <1>3, <2>6, <2>7
  <2>12. IsOpen(l, open[j + 1])
    <3>1. open[j + 1] \in Nat /\ open[j + 1] < Len(k.kinds) /\ open[j + 1] \notin k.stopped
      BY <1>2, <2>6
    <3>2. k.kinds \in Seq(AnswerKinds) BY DEF Clients
    <3>3. open[j + 1] + 1 \in DOMAIN k.kinds BY <3>1, <3>2
    <3> QED BY <2>8, <2>10, <2>11, <3>1, <3>3 DEF IsOpen
  <2>13. open[j + 1] \in Nat BY <1>2, <2>6
  <2>14. Read(l, e) = [l EXCEPT !.stopped = @ \cup {open[j + 1]}]
    BY <2>10, <2>12, <2>13, ReadBlockStop DEF e
  <2>15. {open[i] : i \in 1..(j + 1)} = {open[i] : i \in 1..j} \cup {open[j + 1]}
    <3>1. 1..(j + 1) = (1..j) \cup {j + 1} BY <2>1
    <3> QED BY <3>1
  <2>16. Read(l, e) = [k EXCEPT !.stopped = @ \cup {open[i] : i \in 1..(j + 1)}]
    <3>1. PICK X, o : X = {open[i] : i \in 1..j} /\ o = open[j + 1] OBVIOUS
    <3>2. l = [k EXCEPT !.stopped = @ \cup X] BY <2>3, <3>1
    <3>3. PICK w, v : w = k.stopped \cup X /\ v = w \cup {o} OBVIOUS
    <3>4. v = l.stopped \cup {o} /\ v = k.stopped \cup (X \cup {o}) BY <2>8, <3>1, <3>3
    <3>5. l = [k EXCEPT !.stopped = w] BY <3>2, <3>3
    <3>6. [l EXCEPT !.stopped = v] = [k EXCEPT !.stopped = v] BY <3>5
    <3> QED BY <2>14, <2>15, <3>1, <3>4, <3>6
  <2> QED BY <2>5, <2>16
<1>6. N \in SUBSET Nat OBVIOUS
<1> HIDE DEF N
<1>7. m \in N BY <1>4, <1>5, <1>6, EveryNatural
<1> QED BY <1>7 DEF N, open

\* Everything open is closed, on both sides.
LEMMA WritingCloses ==
  ASSUME NEW b, NEW c, NEW acc, NEW n \in Nat, NEW t, NEW A, Writing(b, c, acc, n, t, A)
  PROVE  /\ Writing(b, c, CloseOpenBlocks(acc), n, t, A)
         /\ CloseOpenBlocks(acc).c.open = << >> /\ CloseOpenBlocks(acc).c.at = Nowhere
<1> DEFINE o == CloseOpenBlocks(acc)  k == Seen(b, acc.out)  l == Seen(b, o.out)
           d == o.c  m == Len(acc.c.open)
<1>1. acc.c \in Converters /\ acc.out \in Seq(Events) BY DEF Writing
<1>2. acc.c.next \in Nat /\ acc.c.open \in Seq(Nat) /\ m \in Nat /\ DOMAIN acc.c.open = 1..m
  BY <1>1 DEF Converters
<1>3. o = [c |-> d, out |-> acc.out \o Stops(acc.c.open, m)] /\ o.out = acc.out \o Stops(acc.c.open, m)
  BY <1>2 DEF CloseOpenBlocks, Stops
<1>4. d = [acc.c EXCEPT !.open = << >>, !.at = Nowhere] BY DEF CloseOpenBlocks
<1>5. /\ d.next = acc.c.next /\ d.open = << >> /\ d.at = Nowhere
      /\ d.started = acc.c.started /\ d.done = acc.c.done
      /\ d.finish = acc.c.finish /\ d.usage = acc.c.usage
  BY <1>1, <1>4 DEF Converters
<1>6. d \in Converters
  <2>1. << >> \in Seq(Nat) /\ Nowhere \in [DeltaSlots -> Nat \cup {-1}] BY DEF Nowhere
  <2> QED BY <1>1, <1>4, <2>1 DEF Converters
<1> HIDE DEF o, d, m
<1>7. k \in Clients /\ ~k.ended /\ Agree(acc.c, k) /\ k.gone = b.gone /\ k.got = n /\ k.starts = t
      /\ k.faults \subseteq A
  BY DEF Writing
<1>8. l = [k EXCEPT !.stopped = @ \cup {acc.c.open[i] : i \in 1..m}]
  <2>1. m <= Len(acc.c.open) BY <1>2 DEF m
  <2>2. PICK cc : cc = acc.c OBVIOUS
  <2>3. cc \in Converters /\ Agree(cc, k) /\ m <= Len(cc.open) BY <1>1, <1>7, <2>1, <2>2
  <2>4. Seen(b, acc.out \o Stops(cc.open, m)) = [k EXCEPT !.stopped = @ \cup {cc.open[i] : i \in 1..m}]
    BY <1>1, <1>2, <1>7, <2>3, SeenStops
  <2> QED BY <1>3, <2>2, <2>4
<1> HIDE DEF k, l
<1>9. l \in Clients /\ l.kinds = k.kinds /\ l.stopped = k.stopped \cup {acc.c.open[i] : i \in 1..m}
      /\ ~l.ended /\ l.gone = b.gone /\ l.got = n /\ l.starts = t /\ l.faults \subseteq A
  <2>1. {acc.c.open[i] : i \in 1..m} \in SUBSET Nat BY <1>2
  <2>2. k.stopped \cup {acc.c.open[i] : i \in 1..m} \in SUBSET Nat BY <1>7, <2>1 DEF Clients
  <2>3. l \in Clients BY <1>7, <1>8, <2>2 DEF Clients
  <2>4. /\ l.kinds = k.kinds /\ l.stopped = k.stopped \cup {acc.c.open[i] : i \in 1..m}
        /\ l.ended = k.ended /\ l.gone = k.gone /\ l.got = k.got /\ l.starts = k.starts
        /\ l.faults = k.faults
    BY <1>7, <1>8 DEF Clients
  <2> QED BY <1>7, <2>3, <2>4
<1>10. Agree(d, l)
  <2>1. d.next = Len(l.kinds) BY <1>5, <1>7, <1>9 DEF Agree
  <2>2. \A i \in l.stopped : i < d.next
    <3> TAKE i \in l.stopped
    <3>1. CASE i \in k.stopped BY <1>5, <1>7, <3>1 DEF Agree
    <3>2. CASE i \in {acc.c.open[j] : j \in 1..m}
      <4>1. PICK j \in 1..m : i = acc.c.open[j] BY <3>2
      <4> QED BY <1>2, <1>5, <1>7, <4>1 DEF Agree
    <3> QED BY <1>9, <3>1, <3>2
  <2>3. \A i \in 0..(d.next - 1) : i \in l.stopped
    <3> TAKE i \in 0..(d.next - 1)
    <3>1. i \in 0..(acc.c.next - 1) BY <1>5
    <3>2. i \in k.stopped \/ \E j \in DOMAIN acc.c.open : acc.c.open[j] = i BY <1>7, <3>1 DEF Agree
    <3>3. i \in k.stopped \/ i \in {acc.c.open[j] : j \in 1..m} BY <1>2, <3>2
    <3> QED BY <1>9, <3>3
  <2>4. DOMAIN d.open = {} BY <1>5
  <2>5. \A s \in DeltaSlots : d.at[s] = -1 BY <1>5 DEF Nowhere
  <2> QED BY <2>1, <2>2, <2>3, <2>4, <2>5 DEF Agree
<1>11. o \in [c : Converters, out : Seq(Events)]
  <2>1. acc.out \o Stops(acc.c.open, m) \in Seq(Events)
    <3>1. \A i \in 1..m : BlockStop(acc.c.open[i]) \in Events
      <4> TAKE i \in 1..m
      <4>1. acc.c.open[i] \in Nat BY <1>2
      <4> QED BY <4>1 DEF Events
    <3>2. Stops(acc.c.open, m) \in Seq(Events) BY <1>2, <3>1 DEF Stops
    <3> QED BY <1>1, <3>2, ConcatProperties
  <2> QED BY <1>3, <1>6, <2>1
<1>12. Writing(b, c, o, n, t, A)
  <2>1. o.c = d BY DEF d
  <2>2. d.started = c.started /\ d.done = c.done /\ d.finish = c.finish /\ d.usage = c.usage
    BY <1>5 DEF Writing
  <2> QED BY <1>9, <1>10, <1>11, <2>1, <2>2 DEF Writing, l
<1> QED BY <1>5, <1>12 DEF o, d

\* A delta is written to an open block: that of its slot, or any if A allows.
LEMMA WritingDelta ==
  ASSUME NEW b, NEW c, NEW acc, NEW n \in Nat, NEW t, NEW A, Writing(b, c, acc, n, t, A),
         NEW s \in DeltaSlots, NEW j \in DOMAIN acc.c.open, NEW i, i = acc.c.open[j],
         acc.c.at[s] = i \/ OtherKind \in A
  PROVE  Writing(b, c, Emit(acc, Delta(i, s)), n + 1, t, A)
<1> DEFINE e == Delta(i, s)  o == Emit(acc, e)  k == Seen(b, acc.out)  l == Seen(b, o.out)
<1>1. acc.c \in Converters /\ acc.out \in Seq(Events) /\ acc \in [c : Converters, out : Seq(Events)]
  BY DEF Writing
<1>2. acc.c.open \in Seq(Nat) /\ i \in Nat BY <1>1 DEF Converters
<1>3. e \in Events BY <1>2 DEF Events
<1>4. o.c = acc.c /\ o.out = Append(acc.out, e) /\ o \in [c : Converters, out : Seq(Events)]
  BY <1>1, <1>3 DEF Emit
<1> HIDE DEF e, o
<1>5. k \in Clients /\ ~k.ended /\ Agree(acc.c, k) /\ k.gone = b.gone /\ k.got = n /\ k.starts = t
      /\ k.faults \subseteq A
  BY DEF Writing
<1>6. l = Read(k, e)
  <2>1. Seen(b, Append(acc.out, e)) = Read(Seen(b, acc.out), e) BY <1>1, <1>3, ReadOneMore
  <2> QED BY <1>4, <2>1
<1> HIDE DEF k, l
<1>7. IsOpen(k, i)
  <2>1. i < Len(k.kinds) /\ i \notin k.stopped BY <1>5 DEF Agree
  <2>2. k.kinds \in Seq(AnswerKinds) BY <1>5 DEF Clients
  <2>3. i + 1 \in DOMAIN k.kinds BY <1>2, <2>1, <2>2
  <2> QED BY <2>1, <2>3 DEF IsOpen
<1>8. l = IF k.kinds[i + 1] = Kind(s) THEN [k EXCEPT !.got = @ + 1]
          ELSE [k EXCEPT !.got = @ + 1, !.faults = @ \cup {OtherKind}]
  BY <1>2, <1>5, <1>6, <1>7, ReadDelta DEF e
<1>9. k.got \in Nat /\ k.faults \in SUBSET FaultNames /\ OtherKind \in FaultNames
  BY <1>5 DEF Clients, FaultNames, OtherKind
<1>10. /\ l \in Clients /\ l.kinds = k.kinds /\ l.stopped = k.stopped /\ l.ended = k.ended
       /\ l.gone = k.gone /\ l.got = k.got + 1 /\ l.starts = k.starts
       /\ l.faults = k.faults \/ (k.kinds[i + 1] # Kind(s) /\ l.faults = k.faults \cup {OtherKind})
  <2>1. CASE k.kinds[i + 1] = Kind(s)
    <3>1. l = [k EXCEPT !.got = @ + 1] BY <1>8, <2>1
    <3> QED BY <1>5, <1>9, <3>1 DEF Clients
  <2>2. CASE k.kinds[i + 1] # Kind(s)
    <3>1. l = [k EXCEPT !.got = @ + 1, !.faults = @ \cup {OtherKind}] BY <1>8, <2>2
    <3>2. k.faults \cup {OtherKind} \in SUBSET FaultNames /\ k.got + 1 \in Nat BY <1>9
    <3>3. l \in Clients BY <1>5, <3>1, <3>2 DEF Clients
    <3>4. /\ l.kinds = k.kinds /\ l.stopped = k.stopped /\ l.ended = k.ended
          /\ l.gone = k.gone /\ l.got = k.got + 1 /\ l.starts = k.starts
      BY <1>5, <3>1 DEF Clients
    <3>5. l.faults = k.faults \cup {OtherKind} BY <1>5, <3>1 DEF Clients
    <3> QED BY <2>2, <3>3, <3>4, <3>5
  <2> QED BY <2>1, <2>2
<1>11. acc.c.at[s] = i => k.kinds[i + 1] = Kind(s)
  <2>1. i # -1 BY <1>2
  <2> QED BY <1>5, <2>1 DEF Agree
<1>12. l.faults \subseteq A BY <1>5, <1>10, <1>11
<1>13. Agree(acc.c, l) BY <1>5, <1>10 DEF Agree
<1>14. Writing(b, c, o, n + 1, t, A)
  <2>1. o.c.started = c.started /\ o.c.done = c.done /\ o.c.finish = c.finish /\ o.c.usage = c.usage
    BY <1>4 DEF Writing
  <2>2. Agree(o.c, l) BY <1>4, <1>13
  <2> QED BY <1>4, <1>5, <1>10, <1>12, <2>1, <2>2 DEF Writing, l
<1> QED BY <1>14 DEF o, e

Parts == [slot : DeltaSlots, text : BOOLEAN]

Piece(part) == IF part.text THEN 1 ELSE 0

\* A slot that holds no block gets one.
Ready(acc, s) == IF acc.c.at[s] # -1 THEN acc ELSE OpenBlock(acc, s)

LEMMA WritingReady ==
  ASSUME NEW b, NEW c, NEW acc, NEW n \in Nat, NEW t, NEW A, Writing(b, c, acc, n, t, A),
         NEW s \in DeltaSlots
  PROVE  Writing(b, c, Ready(acc, s), n, t, A) /\ Ready(acc, s).c.at[s] # -1
<1>1. CASE acc.c.at[s] # -1 BY <1>1 DEF Ready
<1>2. CASE acc.c.at[s] = -1
  <2>1. Writing(b, c, OpenBlock(acc, s), n, t, A) BY WritingOpens
  <2>2. OpenBlock(acc, s).c.at[s] # -1
    <3>1. acc.c \in Converters BY DEF Writing
    <3> QED BY <3>1, OpenedFields
  <2>3. Ready(acc, s) = OpenBlock(acc, s) BY <1>2 DEF Ready
  <2> QED BY <2>1, <2>2, <2>3
<1> QED BY <1>1, <1>2

\* One part of a delta, converted for a Messages client.
LEMMA ClaudePartWritten ==
  ASSUME NEW b, NEW c, NEW acc, NEW n \in Nat, NEW t, NEW A, Writing(b, c, acc, n, t, A),
         NEW part \in Parts,
         part.slot \in Contents => part.text = TRUE /\ (Latest(acc.c) \/ OtherKind \in A),
         Contents \cap ToolCalls = {}
  PROVE  /\ Writing(b, c, ClaudePart(acc, part), n + Piece(part), t, A)
         /\ part.slot \in Contents /\ Latest(acc.c) => Latest(ClaudePart(acc, part).c)
<1> DEFINE s == part.slot  held == acc.c.at[s] # -1
<1>1. s \in DeltaSlots /\ part.text \in BOOLEAN BY DEF Parts
<1>2. acc.c \in Converters BY DEF Writing
<1>3. acc.c.open \in Seq(Nat) /\ acc.c.at \in [DeltaSlots -> Nat \cup {-1}] /\ acc.c.next \in Nat
  BY <1>2 DEF Converters
<1>4. held => \E j \in DOMAIN acc.c.open : acc.c.open[j] = acc.c.at[s] BY <1>1 DEF Writing, Agree
<1>5. CASE s \in Contents /\ held
  <2>1. DOMAIN acc.c.open = 1..Len(acc.c.open) /\ Len(acc.c.open) \in Nat BY <1>3
  <2>2. Len(acc.c.open) \in DOMAIN acc.c.open BY <1>4, <1>5, <2>1
  <2> DEFINE i == acc.c.open[Len(acc.c.open)]
  <2>3. acc.c.at[s] = i \/ OtherKind \in A BY <1>5 DEF Latest
  <2>4. ClaudePart(acc, part) = Emit(acc, Delta(i, s)) BY <1>5 DEF ClaudePart, Last
  <2> HIDE DEF i
  <2>5. Writing(b, c, Emit(acc, Delta(i, s)), n + 1, t, A)
    <3>1. PICK j \in DOMAIN acc.c.open : i = acc.c.open[j] BY <2>2 DEF i
    <3> QED BY <1>1, <2>3, <3>1, WritingDelta
  <2>7. acc \in [c : Converters, out : Seq(Events)] BY DEF Writing
  <2>8. Emit(acc, Delta(i, s)).c = acc.c BY <2>7 DEF Emit
  <2>6. Piece(part) = 1 BY <1>5 DEF Piece
  <2> QED BY <2>4, <2>5, <2>6, <2>8
<1>6. CASE s \in Contents /\ ~held
  <2> DEFINE z == CloseOpenBlocks(acc)  o == OpenBlock(z, s)
  <2>1. Writing(b, c, z, n, t, A) /\ z.c.open = << >> /\ z.c.at = Nowhere BY WritingCloses
  <2>2. z.c \in Converters BY <2>1 DEF Writing
  <2>3. z.c.next \in Nat BY <2>2 DEF Converters
  <2> HIDE DEF z
  <2>4. /\ Writing(b, c, o, n, t, A)
        /\ o.c.open = Append(z.c.open, z.c.next)
        /\ o.c.at[s] = z.c.next /\ \A y \in DeltaSlots : y # s => o.c.at[y] = z.c.at[y]
    BY <1>1, <2>1, <2>2, WritingOpens, OpenedFields
  <2> DEFINE i == o.c.open[Len(o.c.open)]
  <2>5. ClaudePart(acc, part) = Emit(o, Delta(i, s)) BY <1>6 DEF ClaudePart, Last, z
  <2> HIDE DEF o
  <2>6. Len(o.c.open) \in DOMAIN o.c.open /\ i = z.c.next /\ o.c.open # << >> BY <2>1, <2>3, <2>4
  <2>7. o.c.at[s] = i BY <1>1, <2>1, <2>4, <2>6 DEF Nowhere
  <2>8. Latest(o.c)
    <3> SUFFICES ASSUME NEW y \in Contents, o.c.at[y] # -1
                 PROVE  o.c.open # << >> /\ i = o.c.at[y]
      BY DEF Latest
    <3>1. y \in DeltaSlots BY DEF DeltaSlots
    <3>2. y = s BY <1>1, <2>1, <2>4, <3>1 DEF Nowhere
    <3> QED BY <2>6, <2>7, <3>2
  <2> HIDE DEF i
  <2>9. Writing(b, c, Emit(o, Delta(i, s)), n + 1, t, A)
    <3>1. PICK j \in DOMAIN o.c.open : i = o.c.open[j] BY <2>6 DEF i
    <3> QED BY <1>1, <2>4, <2>7, <3>1, WritingDelta
  <2>11. o \in [c : Converters, out : Seq(Events)] BY <2>4 DEF Writing
  <2>12. Emit(o, Delta(i, s)).c = o.c BY <2>11 DEF Emit
  <2>10. Piece(part) = 1 BY <1>6 DEF Piece
  <2> QED BY <2>5, <2>8, <2>9, <2>10, <2>12
<1>7. CASE s \notin Contents
  <2> DEFINE o == Ready(acc, s)
  <2>1. Writing(b, c, o, n, t, A) /\ o.c.at[s] # -1 BY <1>1, WritingReady
  <2>2. ClaudePart(acc, part) = IF part.text THEN Emit(o, Delta(o.c.at[s], s)) ELSE o
    BY <1>7 DEF ClaudePart, Ready
  <2> HIDE DEF o
  <2>3. PICK j \in DOMAIN o.c.open : o.c.open[j] = o.c.at[s] BY <1>1, <2>1 DEF Writing, Agree
  <2>4. CASE part.text
    <3> DEFINE i == o.c.at[s]
    <3>1. i = o.c.open[j] BY <2>3
    <3>2. Writing(b, c, Emit(o, Delta(i, s)), n + 1, t, A) BY <1>1, <2>1, <3>1, WritingDelta
    <3>3. Piece(part) = 1 BY <2>4 DEF Piece
    <3> QED BY <1>7, <2>2, <2>4, <3>2, <3>3
  <2>5. CASE ~part.text
    <3>1. Piece(part) = 0 BY <2>5 DEF Piece
    <3>2. n + 0 = n OBVIOUS
    <3> QED BY <1>7, <2>1, <2>2, <2>5, <3>1, <3>2
  <2> QED BY <1>1, <2>4, <2>5
<1> QED BY <1>5, <1>6, <1>7

\* One part of a delta, converted for a Responses client.
LEMMA ResponsesPartWritten ==
  ASSUME NEW b, NEW c, NEW acc, NEW n \in Nat, NEW t, NEW A, Writing(b, c, acc, n, t, A),
         NEW part \in Parts
  PROVE  Writing(b, c, ResponsesPart(acc, part), n + Piece(part), t, A)
<1> DEFINE s == part.slot  o == Ready(acc, s)
<1>1. s \in DeltaSlots /\ part.text \in BOOLEAN BY DEF Parts
<1>2. Writing(b, c, o, n, t, A) /\ o.c.at[s] # -1 BY <1>1, WritingReady
<1>3. ResponsesPart(acc, part) = IF part.text THEN Emit(o, Delta(o.c.at[s], s)) ELSE o
  BY DEF ResponsesPart, Ready
<1> HIDE DEF o
<1>4. PICK j \in DOMAIN o.c.open : o.c.open[j] = o.c.at[s] BY <1>1, <1>2 DEF Writing, Agree
<1>5. CASE part.text
  <2> DEFINE i == o.c.at[s]
  <2>1. i = o.c.open[j] BY <1>4
  <2>2. Writing(b, c, Emit(o, Delta(i, s)), n + 1, t, A) BY <1>1, <1>2, <2>1, WritingDelta
  <2>3. Piece(part) = 1 BY <1>5 DEF Piece
  <2> QED BY <1>3, <1>5, <2>2, <2>3
<1>6. CASE ~part.text
  <2>1. Piece(part) = 0 BY <1>6 DEF Piece
  <2>2. n + 0 = n OBVIOUS
  <2> QED BY <1>2, <1>3, <1>6, <2>1, <2>2
<1> QED BY <1>1, <1>5, <1>6

-----------------------------------------------------------------------------
(* A whole chunk.                                                            *)

\* The pieces among the first parts of a delta.
UpTo(parts, i) == Cardinality({j \in 1..i : parts[j].text})

LEMMA UpToSteps ==
  ASSUME NEW parts \in Seq(Parts)
  PROVE  /\ UpTo(parts, 0) = 0
         /\ \A i \in 0..Len(parts) : UpTo(parts, i) \in Nat
         /\ \A i \in 0..(Len(parts) - 1) : UpTo(parts, i + 1) = UpTo(parts, i) + Piece(parts[i + 1])
<1> DEFINE J(i) == {j \in 1..i : parts[j].text}
<1>1. J(0) = {} OBVIOUS
<1>2. ASSUME NEW i \in Nat PROVE IsFiniteSet(J(i)) /\ Cardinality(J(i)) \in Nat
  <2>1. IsFiniteSet(1..i) BY FS_Interval
  <2>2. J(i) \in SUBSET (1..i) OBVIOUS
  <2>3. IsFiniteSet(J(i)) BY <2>1, <2>2, FS_Subset
  <2> QED BY <2>3, FS_CardinalityType
<1>3. ASSUME NEW i \in 0..(Len(parts) - 1)
      PROVE  Cardinality(J(i + 1)) = Cardinality(J(i)) + Piece(parts[i + 1])
  <2>1. i \in Nat /\ 1..(i + 1) = (1..i) \cup {i + 1} /\ i + 1 \notin 1..i OBVIOUS
  <2>4. parts[i + 1].text = TRUE \/ parts[i + 1].text = FALSE
    <3>1. i + 1 \in DOMAIN parts OBVIOUS
    <3>2. parts[i + 1] \in Parts BY <3>1
    <3> QED BY <3>2 DEF Parts
  <2>2. CASE parts[i + 1].text = TRUE
    <3>1. J(i + 1) = J(i) \cup {i + 1} BY <2>1, <2>2
    <3>2. i + 1 \notin J(i) BY <2>1
    <3>3. Cardinality(J(i) \cup {i + 1}) = Cardinality(J(i)) + 1 BY <1>2, <2>1, <3>2, FS_AddElement
    <3> QED BY <2>2, <3>1, <3>3 DEF Piece
  <2>3. CASE parts[i + 1].text = FALSE
    <3>1. J(i + 1) = J(i) BY <2>1, <2>3
    <3>2. Piece(parts[i + 1]) = 0 BY <2>3 DEF Piece
    <3>3. PICK x \in Nat : x = Cardinality(J(i)) BY <1>2, <2>1
    <3>4. x = x + 0 OBVIOUS
    <3>5. Cardinality(J(i + 1)) = x BY <3>1, <3>3
    <3> HIDE DEF J
    <3> QED BY <3>2, <3>3, <3>4, <3>5
  <2> QED BY <2>2, <2>3, <2>4
<1>4. \A i : UpTo(parts, i) = Cardinality(J(i)) BY DEF UpTo
<1>5. \A i \in 0..Len(parts) : i \in Nat OBVIOUS
<1> HIDE DEF J
<1>6. UpTo(parts, 0) = 0 BY <1>1, <1>4, FS_EmptySet
<1>7. \A i \in 0..Len(parts) : UpTo(parts, i) \in Nat BY <1>2, <1>4, <1>5
<1> QED BY <1>3, <1>4, <1>6, <1>7

\* The parts of a delta, converted for a Messages client.
LEMMA ClaudePartsWritten ==
  ASSUME NEW b, NEW c, NEW acc, NEW n \in Nat, NEW t, NEW A, Writing(b, c, acc, n, t, A),
         NEW parts \in Seq(Parts), ContentsFirst(parts), Contents \cap ToolCalls = {},
         \A i \in DOMAIN parts : parts[i].slot \in Contents => Latest(acc.c) \/ OtherKind \in A
  PROVE  LET r == FoldLeft(ClaudePart, acc, parts)
         IN  /\ Writing(b, c, r, n + UpTo(parts, Len(parts)), t, A)
             /\ Latest(acc.c) /\ (\A i \in DOMAIN parts : parts[i].slot \in Contents) => Latest(r.c)
<1> DEFINE m == Len(parts)
<1>1. m \in Nat /\ DOMAIN parts = 1..m OBVIOUS
<1>2. PICK r : IsRun("claude", 0, acc, parts, m, r) /\ FoldLeft(ClaudePart, acc, parts) = r[m]
  BY <1>1, ClaudeRuns
<1> DEFINE Good(i) == /\ Writing(b, c, r[i], n + UpTo(parts, i), t, A)
                      /\ Latest(acc.c) /\ (\A j \in 1..i : parts[j].slot \in Contents) => Latest(r[i].c)
           N == {i \in Nat : i <= m => Good(i)}
<1>3. 0 \in N
  <2>1. r[0] = acc BY <1>2 DEF IsRun
  <2>2. UpTo(parts, 0) = 0 BY UpToSteps
  <2>3. n + UpTo(parts, 0) = n BY <2>2
  <2> QED BY <2>1, <2>3
<1>4. ASSUME NEW i \in N PROVE i + 1 \in N
  <2>1. i \in Nat /\ i + 1 \in Nat /\ (i + 1) - 1 = i OBVIOUS
  <2>2. SUFFICES ASSUME i + 1 <= m PROVE Good(i + 1) BY <2>1
  <2>3. i + 1 \in 1..m /\ i \in 0..m /\ i \in 0..(m - 1) /\ Good(i) BY <1>1, <2>1, <2>2
  <2> DEFINE part == parts[i + 1]  u == UpTo(parts, i)
  <2>4. part \in Parts BY <1>1, <2>3
  <2>5. r[i + 1] = ClaudePart(r[i], part)
    <3>1. r[i + 1] = Applied("claude", 0, r[(i + 1) - 1], part) BY <1>2, <2>3 DEF IsRun
    <3> QED BY <2>1, <3>1 DEF Applied
  <2>6. u \in Nat /\ UpTo(parts, i + 1) = u + Piece(part) BY <2>3, UpToSteps
  <2>7. Piece(part) \in Nat BY DEF Piece
  <2> HIDE DEF u
  <2>8. part.slot \in Contents => part.text = TRUE /\ \A j \in 1..(i + 1) : parts[j].slot \in Contents
    BY <1>1, <2>3, <2>4 DEF ContentsFirst, Parts
  <2>9. \A j \in 1..i : j \in 1..(i + 1) BY <2>1
  <2>10. part.slot \in Contents => part.text = TRUE /\ (Latest(r[i].c) \/ OtherKind \in A)
    <3>1. part.slot \in Contents => Latest(acc.c) \/ OtherKind \in A BY <1>1, <2>3
    <3> QED BY <2>3, <2>8, <2>9, <3>1
  <2> HIDE DEF part
  <2>11. Writing(b, c, r[i], n + u, t, A) BY <2>3 DEF u
  <2>12. PICK q : q = r[i] OBVIOUS
  <2>13. PICK nu \in Nat : nu = n + u BY <2>6
  <2>14. Writing(b, c, q, nu, t, A) BY <2>11, <2>12, <2>13
  <2>15. part.slot \in Contents => part.text = TRUE /\ (Latest(q.c) \/ OtherKind \in A)
    BY <2>10, <2>12
  <2>16. /\ Writing(b, c, ClaudePart(q, part), nu + Piece(part), t, A)
         /\ part.slot \in Contents /\ Latest(q.c) => Latest(ClaudePart(q, part).c)
    BY <2>4, <2>14, <2>15, ClaudePartWritten
  <2>17. nu + Piece(part) = n + UpTo(parts, i + 1) BY <2>6, <2>7, <2>13
  <2>18. ASSUME Latest(acc.c), \A j \in 1..(i + 1) : parts[j].slot \in Contents
         PROVE  Latest(r[i + 1].c)
    <3>1. Latest(q.c) BY <2>3, <2>9, <2>12, <2>18
    <3>2. part.slot \in Contents BY <2>1, <2>18 DEF part
    <3> QED BY <2>5, <2>12, <2>16, <3>1, <3>2
  <2> QED BY <2>5, <2>12, <2>16, <2>17, <2>18
<1>5. N \in SUBSET Nat OBVIOUS
<1> HIDE DEF N, Good
<1>6. m \in N BY <1>1, <1>3, <1>4, <1>5, EveryNatural
<1>7. Good(m) BY <1>1, <1>6 DEF N
<1> QED BY <1>1, <1>2, <1>7 DEF Good

\* The parts of a delta, converted for a Responses client.
LEMMA ResponsesPartsWritten ==
  ASSUME NEW b, NEW c, NEW acc, NEW n \in Nat, NEW t, NEW A, Writing(b, c, acc, n, t, A),
         NEW parts \in Seq(Parts)
  PROVE  Writing(b, c, FoldLeft(ResponsesPart, acc, parts), n + UpTo(parts, Len(parts)), t, A)
<1> DEFINE m == Len(parts)
<1>1. m \in Nat /\ DOMAIN parts = 1..m OBVIOUS
<1>2. PICK r : IsRun("responses", 0, acc, parts, m, r) /\ FoldLeft(ResponsesPart, acc, parts) = r[m]
  BY <1>1, ResponsesRuns
<1> DEFINE Good(i) == Writing(b, c, r[i], n + UpTo(parts, i), t, A)
           N == {i \in Nat : i <= m => Good(i)}
<1>3. 0 \in N
  <2>1. r[0] = acc BY <1>2 DEF IsRun
  <2>2. UpTo(parts, 0) = 0 BY UpToSteps
  <2>3. n + UpTo(parts, 0) = n BY <2>2
  <2> QED BY <2>1, <2>3
<1>4. ASSUME NEW i \in N PROVE i + 1 \in N
  <2>1. i \in Nat /\ i + 1 \in Nat /\ (i + 1) - 1 = i OBVIOUS
  <2>2. SUFFICES ASSUME i + 1 <= m PROVE Good(i + 1) BY <2>1
  <2>3. i + 1 \in 1..m /\ i \in 0..m /\ i \in 0..(m - 1) /\ Good(i) BY <1>1, <2>1, <2>2
  <2> DEFINE part == parts[i + 1]  u == UpTo(parts, i)
  <2>4. part \in Parts BY <1>1, <2>3
  <2>5. r[i + 1] = ResponsesPart(r[i], part)
    <3>1. r[i + 1] = Applied("responses", 0, r[(i + 1) - 1], part) BY <1>2, <2>3 DEF IsRun
    <3> QED BY <2>1, <3>1 DEF Applied
  <2>6. u \in Nat /\ UpTo(parts, i + 1) = u + Piece(part) BY <2>3, UpToSteps
  <2>7. Piece(part) \in Nat BY DEF Piece
  <2> HIDE DEF u, part
  <2>8. PICK q : q = r[i] OBVIOUS
  <2>9. PICK nu \in Nat : nu = n + u BY <2>6
  <2>10. Writing(b, c, q, nu, t, A) BY <2>3, <2>8, <2>9 DEF u
  <2>11. Writing(b, c, ResponsesPart(q, part), nu + Piece(part), t, A)
    BY <2>4, <2>10, ResponsesPartWritten
  <2>12. nu + Piece(part) = n + UpTo(parts, i + 1) BY <2>6, <2>7, <2>9
  <2> QED BY <2>5, <2>8, <2>11, <2>12
<1>5. N \in SUBSET Nat OBVIOUS
<1> HIDE DEF N, Good
<1>6. m \in N BY <1>1, <1>3, <1>4, <1>5, EveryNatural
<1>7. Good(m) BY <1>1, <1>6 DEF N
<1> QED BY <1>1, <1>2, <1>7 DEF Good

\* The pieces of a chunk are those of its parts.
LEMMA PiecesCounted ==
  ASSUME NEW ch, ch.parts \in Seq(Parts)
  PROVE  Pieces(ch) = UpTo(ch.parts, Len(ch.parts)) /\ Pieces(ch) \in Nat
<1>1. DOMAIN ch.parts = 1..Len(ch.parts) /\ Len(ch.parts) \in 0..Len(ch.parts) OBVIOUS
<1>2. Pieces(ch) = UpTo(ch.parts, Len(ch.parts)) BY <1>1 DEF Pieces, UpTo
<1>3. UpTo(ch.parts, Len(ch.parts)) \in Nat
  <2>1. PICK parts \in Seq(Parts) : parts = ch.parts OBVIOUS
  <2>2. UpTo(parts, Len(parts)) \in Nat BY <1>1, <2>1, UpToSteps
  <2> QED BY <2>1, <2>2
<1> QED BY <1>2, <1>3

\* After a chunk: as amid one, or else both sides know of the end.
AnsweredPart(b, z, n, t, A) ==
  /\ z \in [c : Converters, out : Seq(Events)]
  /\ LET k == Seen(b, z.out)
     IN  /\ k \in Clients /\ k.gone = b.gone /\ k.got = n /\ k.starts = t
         /\ k.faults \subseteq A /\ k.ended = z.c.done
         /\ z.c.done = FALSE => Agree(z.c, k)

\* The flags of a converter that survive its end.
SameFlags(d, c) == d.started = c.started /\ d.finish = c.finish /\ d.usage = c.usage

\* The flags after a chunk.
FlagsAfter(d, started, c, ch) ==
  /\ d.started = started
  /\ d.done => d.finish /\ d.usage
  /\ d.usage => c.usage \/ ch.usage

\* The end closes what is open and is read as the end.
LEMMA WritingEnds ==
  ASSUME NEW b, NEW c, NEW acc, NEW n \in Nat, NEW t \in Nat, NEW A, Writing(b, c, acc, n, t, A),
         t = 0 => NeverBegun \in A
  PROVE  /\ AnsweredPart(b, Terminal(acc), n, t, A)
         /\ SameFlags(Terminal(acc).c, c) /\ Latest(Terminal(acc).c)
         /\ Terminal(acc).c.done = TRUE
<1> DEFINE z == CloseOpenBlocks(acc)  o == Terminal(acc)  k == Seen(b, z.out)  l == Seen(b, o.out)
<1>1. Writing(b, c, z, n, t, A) /\ z.c.open = << >> /\ z.c.at = Nowhere BY WritingCloses
<1>2. o = [Emit(z, Stop) EXCEPT !.c.done = TRUE] BY DEF Terminal
<1> HIDE DEF z, o
<1>3. z \in [c : Converters, out : Seq(Events)] BY <1>1 DEF Writing
<1>4. Stop \in Events BY DEF Events
<1>5. o.out = Append(z.out, Stop) /\ o.c = [z.c EXCEPT !.done = TRUE]
      /\ o = [c |-> o.c, out |-> o.out]
  BY <1>2, <1>3 DEF Emit
<1>6. /\ o.c \in Converters /\ o.c.done = TRUE /\ o.c.started = z.c.started
      /\ o.c.finish = z.c.finish /\ o.c.usage = z.c.usage /\ o.c.at = z.c.at
  BY <1>3, <1>5 DEF Converters
<1>7. o \in [c : Converters, out : Seq(Events)]
  <2>1. z.out \in Seq(Events) BY <1>3
  <2>2. o.out \in Seq(Events) BY <1>4, <1>5, <2>1
  <2>3. PICK x, y : x = o.c /\ y = o.out OBVIOUS
  <2>4. x \in Converters /\ y \in Seq(Events) BY <1>6, <2>2, <2>3
  <2>5. [c |-> x, out |-> y] \in [c : Converters, out : Seq(Events)] BY <2>4
  <2> QED BY <1>5, <2>3, <2>5
<1>8. k \in Clients /\ ~k.ended /\ Agree(z.c, k) /\ k.gone = b.gone /\ k.got = n /\ k.starts = t
      /\ k.faults \subseteq A
  BY <1>1 DEF Writing
<1>9. l = Read(k, Stop)
  <2>1. Seen(b, Append(z.out, Stop)) = Read(Seen(b, z.out), Stop) BY <1>3, <1>4, ReadOneMore
  <2> QED BY <1>5, <2>1
<1> HIDE DEF k, l
<1>10. \A i \in DOMAIN k.kinds : ~IsOpen(k, i - 1)
  <2> TAKE i \in DOMAIN k.kinds
  <2>1. k.kinds \in Seq(AnswerKinds) /\ z.c.next = Len(k.kinds) BY <1>8 DEF Clients, Agree
  <2>2. i - 1 \in 0..(z.c.next - 1) BY <2>1
  <2>3. DOMAIN z.c.open = {} BY <1>1
  <2>4. i - 1 \in k.stopped BY <1>8, <2>2, <2>3 DEF Agree
  <2> QED BY <2>4 DEF IsOpen
<1>11. l = IF k.starts = 0 THEN [k EXCEPT !.ended = TRUE, !.faults = @ \cup {NeverBegun}]
           ELSE [k EXCEPT !.ended = TRUE]
  BY <1>8, <1>9, <1>10, ReadStop
<1>12. NeverBegun \in FaultNames BY DEF NeverBegun, FaultNames
<1>13. /\ l \in Clients /\ l.ended = TRUE /\ l.gone = b.gone /\ l.got = n /\ l.starts = t
       /\ l.faults \subseteq A
  <2>1. CASE k.starts = 0
    <3>1. l = [k EXCEPT !.ended = TRUE, !.faults = @ \cup {NeverBegun}] BY <1>11, <2>1
    <3>2. k.faults \cup {NeverBegun} \in SUBSET FaultNames BY <1>8, <1>12 DEF Clients
    <3>3. l \in Clients BY <1>8, <3>1, <3>2 DEF Clients
    <3>4. /\ l.ended = TRUE /\ l.gone = k.gone /\ l.got = k.got /\ l.starts = k.starts
          /\ l.faults = k.faults \cup {NeverBegun}
      BY <1>8, <3>1 DEF Clients
    <3> QED BY <1>8, <2>1, <3>3, <3>4
  <2>2. CASE k.starts # 0
    <3>1. l = [k EXCEPT !.ended = TRUE] BY <1>11, <2>2
    <3> QED BY <1>8, <3>1 DEF Clients
  <2> QED BY <2>1, <2>2
<1>14. AnsweredPart(b, o, n, t, A) BY <1>6, <1>7, <1>13 DEF AnsweredPart, l
<1>15. z.c.started = c.started /\ z.c.finish = c.finish /\ z.c.usage = c.usage BY <1>1 DEF Writing
<1>16. Latest(o.c)
  <2>1. \A s \in Contents : s \in DeltaSlots BY DEF DeltaSlots
  <2> QED BY <1>1, <1>6, <2>1 DEF Latest, Nowhere
<1>17. SameFlags(o.c, c) BY <1>6, <1>15 DEF SameFlags
<1> QED BY <1>6, <1>14, <1>16, <1>17 DEF o

\* The start of the stream, before the parts of a chunk: once, or as A allows.
LEMMA WritingBegins ==
  ASSUME NEW b \in Clients, ~b.ended, NEW c \in Converters, Agree(c, b), NEW A, b.faults \subseteq A,
         NEW v \in BOOLEAN, b.starts = 0 \/ b.starts = 1, c.started => b.starts = 1,
         ~c.started /\ b.starts = 1 => SecondStart \in A
  PROVE  LET d == [c EXCEPT !.started = v]
         IN  Writing(b, d, [c |-> d, out |-> IF c.started THEN << >> ELSE <<Start>>], b.got, 1, A)
<1> DEFINE d == [c EXCEPT !.started = v]  out == IF c.started THEN << >> ELSE <<Start>>
           acc == [c |-> d, out |-> out]  k == Seen(b, out)
<1>1. /\ d \in Converters /\ d.next = c.next /\ d.open = c.open /\ d.at = c.at
      /\ c.started \in BOOLEAN
  BY DEF Converters
<1>2. out \in Seq(Events)
  <2>1. Start \in Events BY DEF Events
  <2> QED BY <2>1
<1>3. /\ k \in Clients /\ ~k.ended /\ k.gone = b.gone /\ k.got = b.got /\ k.starts = 1
      /\ k.faults \subseteq A /\ k.kinds = b.kinds /\ k.stopped = b.stopped
  <2>1. CASE c.started
    <3>1. k = b BY <2>1, ReadNothing
    <3> QED BY <2>1, <3>1
  <2>2. CASE ~c.started
    <3>1. k = Read(b, Start)
      <4>1. Start \in Events /\ << >> \in Seq(Events) BY DEF Events
      <4>2. Append(<< >>, Start) = <<Start>> OBVIOUS
      <4>3. Seen(b, Append(<< >>, Start)) = Read(Seen(b, << >>), Start) BY <4>1, ReadOneMore
      <4> QED BY <2>2, <4>2, <4>3, ReadNothing
    <3> HIDE DEF k
    <3>2. k = IF b.starts > 0 THEN [b EXCEPT !.starts = 1, !.faults = @ \cup {SecondStart}]
              ELSE [b EXCEPT !.starts = 1]
      BY <3>1, ReadStart
    <3>3. CASE b.starts = 0
      <4>1. k = [b EXCEPT !.starts = 1] BY <3>2, <3>3
      <4> QED BY <4>1 DEF Clients
    <3>4. CASE b.starts = 1
      <4>1. k = [b EXCEPT !.starts = 1, !.faults = @ \cup {SecondStart}] BY <3>2, <3>4
      <4>2. SecondStart \in A BY <2>2, <3>4
      <4>3. b.faults \cup {SecondStart} \in SUBSET FaultNames
        BY DEF Clients, SecondStart, FaultNames
      <4>4. k \in Clients BY <4>1, <4>3 DEF Clients
      <4>5. /\ k.ended = b.ended /\ k.gone = b.gone /\ k.got = b.got /\ k.starts = 1
            /\ k.faults = b.faults \cup {SecondStart} /\ k.kinds = b.kinds /\ k.stopped = b.stopped
        BY <4>1 DEF Clients
      <4> QED BY <4>2, <4>4, <4>5
    <3> QED BY <3>3, <3>4
  <2> QED BY <1>1, <2>1, <2>2
<1> HIDE DEF d, out, k
<1>4. acc.c = d /\ acc.out = out /\ acc \in [c : Converters, out : Seq(Events)] BY <1>1, <1>2
<1>5. Agree(d, k) BY <1>1, <1>3 DEF Agree
<1>6. Writing(b, d, acc, b.got, 1, A) BY <1>3, <1>4, <1>5 DEF Writing, k
<1> QED BY <1>6 DEF d, out
\* The end comes with a chunk that completes what is to be known.
LEMMA WritingNotes ==
  ASSUME NEW b, NEW c, NEW acc, NEW n \in Nat, NEW t \in Nat, NEW A, Writing(b, c, acc, n, t, A),
         t # 0, ~c.done, NEW ch, ch.finish \in BOOLEAN, ch.usage \in BOOLEAN
  PROVE  /\ AnsweredPart(b, Noted(acc, ch), n, t, A)
         /\ FlagsAfter(Noted(acc, ch).c, c.started, c, ch)
         /\ Latest(acc.c) => Latest(Noted(acc, ch).c)
<1> DEFINE a == [acc EXCEPT !.c.finish = @ \/ ch.finish, !.c.usage = @ \/ ch.usage]
           d == a.c  k == Seen(b, acc.out)  z == Noted(acc, ch)
<1>1. acc \in [c : Converters, out : Seq(Events)] /\ acc.c \in Converters BY DEF Writing
<1>2. /\ d = [acc.c EXCEPT !.finish = @ \/ ch.finish, !.usage = @ \/ ch.usage]
      /\ a.out = acc.out /\ a = [c |-> d, out |-> acc.out]
  <2>1. PICK f, u : f = (acc.c.finish \/ ch.finish) /\ u = (acc.c.usage \/ ch.usage) OBVIOUS
  <2>2. a = [acc EXCEPT !.c.finish = f, !.c.usage = u] BY <2>1
  <2>3. d = a.c OBVIOUS
  <2> HIDE DEF a, d
  <2>4. d = [acc.c EXCEPT !.finish = f, !.usage = u] BY <1>1, <2>2, <2>3
  <2>5. a.out = acc.out /\ a = [c |-> d, out |-> acc.out] BY <1>1, <2>2, <2>3
  <2> QED BY <2>1, <2>4, <2>5
<1>3. acc.c.finish \in BOOLEAN /\ acc.c.usage \in BOOLEAN BY <1>1 DEF Converters
<1>4. /\ d \in Converters /\ d.started = acc.c.started /\ d.done = acc.c.done
      /\ d.next = acc.c.next /\ d.open = acc.c.open /\ d.at = acc.c.at
      /\ d.finish = (acc.c.finish \/ ch.finish) /\ d.usage = (acc.c.usage \/ ch.usage)
  <2>1. (acc.c.finish \/ ch.finish) \in BOOLEAN /\ (acc.c.usage \/ ch.usage) \in BOOLEAN OBVIOUS
  <2> QED BY <1>1, <1>2, <2>1 DEF Converters
<1>5. z = IF d.finish /\ d.usage THEN Terminal(a) ELSE a BY DEF Noted
<1> HIDE DEF a, d, z
<1>6. k \in Clients /\ ~k.ended /\ Agree(acc.c, k) /\ k.gone = b.gone /\ k.got = n /\ k.starts = t
      /\ k.faults \subseteq A
  BY DEF Writing
<1>7. Agree(d, k) BY <1>4, <1>6 DEF Agree
<1>8. a \in [c : Converters, out : Seq(Events)] /\ a.c = d
  <2>1. PICK x, y : x = d /\ y = acc.out OBVIOUS
  <2>2. x \in Converters /\ y \in Seq(Events) BY <1>1, <1>4, <2>1
  <2>3. [c |-> x, out |-> y] \in [c : Converters, out : Seq(Events)] BY <2>2
  <2> QED BY <1>2, <2>1, <2>3
<1>9. acc.c.started = c.started /\ acc.c.done = c.done /\ acc.c.finish = c.finish
      /\ acc.c.usage = c.usage
  BY DEF Writing
<1>10. CASE d.finish /\ d.usage
  <2>1. PICK dd : dd = d OBVIOUS
  <2>2. Writing(b, dd, a, n, t, A) BY <1>2, <1>6, <1>7, <1>8, <2>1 DEF Writing, k
  <2>9. t = 0 => NeverBegun \in A OBVIOUS
  <2>3. /\ AnsweredPart(b, Terminal(a), n, t, A) /\ SameFlags(Terminal(a).c, dd)
        /\ Latest(Terminal(a).c)
    BY <2>2, <2>9, WritingEnds
  <2>4. z = Terminal(a) BY <1>5, <1>10
  <2>5. dd.started = c.started BY <1>4, <1>9, <2>1
  <2>6. dd.finish /\ dd.usage BY <1>10, <2>1
  <2>7. c.usage \/ ch.usage BY <1>4, <1>9, <1>10
  <2>8. AnsweredPart(b, z, n, t, A) /\ SameFlags(z.c, dd) /\ Latest(z.c)
    BY <2>3, <2>4
  <2>10. FlagsAfter(z.c, c.started, c, ch) BY <2>5, <2>6, <2>7, <2>8 DEF SameFlags, FlagsAfter
  <2> QED BY <2>8, <2>10 DEF z
<1>11. CASE ~(d.finish /\ d.usage)
  <2>1. z = a BY <1>5, <1>11
  <2>2. d.done = FALSE BY <1>4, <1>9
  <2>3. AnsweredPart(b, a, n, t, A)
    <3>1. k = Seen(b, a.out) BY <1>2 DEF k
    <3>2. k.ended = a.c.done
      <4>1. k.ended \in BOOLEAN BY <1>6 DEF Clients
      <4> QED BY <1>6, <1>8, <2>2, <4>1
    <3>3. Agree(a.c, k) BY <1>7, <1>8
    <3> QED BY <1>6, <1>8, <3>1, <3>2, <3>3 DEF AnsweredPart
  <2>4. Latest(acc.c) => Latest(d) BY <1>4 DEF Latest
  <2>5. d.usage => c.usage \/ ch.usage BY <1>4, <1>9
  <2>6. d.started = c.started BY <1>4, <1>9
  <2>7. FlagsAfter(z.c, c.started, c, ch) BY <1>8, <2>1, <2>2, <2>5, <2>6 DEF FlagsAfter
  <2> QED BY <1>8, <2>1, <2>3, <2>4, <2>7 DEF z
<1> QED BY <1>10, <1>11

\* A chunk, converted for a Messages client that has read all before it.
LEMMA ClaudeChunkWritten ==
  ASSUME NEW b \in Clients, ~b.ended, NEW c \in Converters, ~c.done, Agree(c, b), NEW A,
         b.faults \subseteq A, b.starts = IF c.started THEN 1 ELSE 0,
         NEW ch, ch.parts \in Seq(Parts), ContentsFirst(ch.parts), Contents \cap ToolCalls = {},
         ch.finish \in BOOLEAN, ch.usage \in BOOLEAN,
         \A i \in DOMAIN ch.parts : ch.parts[i].slot \in Contents => Latest(c) \/ OtherKind \in A
  PROVE  /\ AnsweredPart(b, ClaudeChunk(c, ch), b.got + Pieces(ch), 1, A)
         /\ FlagsAfter(ClaudeChunk(c, ch).c, TRUE, c, ch)
         /\ Latest(c) /\ (\A i \in DOMAIN ch.parts : ch.parts[i].slot \in Contents) =>
              Latest(ClaudeChunk(c, ch).c)
<1> DEFINE d == [c EXCEPT !.started = TRUE]
           opened == [c |-> d, out |-> IF c.started THEN << >> ELSE <<Start>>]
           r == FoldLeft(ClaudePart, opened, ch.parts)
<1>1. /\ d \in Converters /\ d.started = TRUE /\ d.done = FALSE /\ d.usage = c.usage
      /\ d.open = c.open /\ d.at = c.at
  BY DEF Converters
<1>2. ClaudeChunk(c, ch) = Noted(r, ch) BY DEF ClaudeChunk
<1>3. Writing(b, d, opened, b.got, 1, A)
  <2>1. TRUE \in BOOLEAN /\ (b.starts = 0 \/ b.starts = 1) /\ (c.started => b.starts = 1)
        /\ (~c.started /\ b.starts = 1 => SecondStart \in A)
    OBVIOUS
  <2>2. PICK v \in BOOLEAN : v = TRUE OBVIOUS
  <2>3. LET e == [c EXCEPT !.started = v]
        IN  Writing(b, e, [c |-> e, out |-> IF c.started THEN << >> ELSE <<Start>>], b.got, 1, A)
    BY <2>1, WritingBegins
  <2> QED BY <2>2, <2>3
<1>4. opened.c = d OBVIOUS
<1> HIDE DEF opened
<1>5. PICK parts \in Seq(Parts) : parts = ch.parts OBVIOUS
<1>6. PICK dd \in Converters : dd = d BY <1>1
<1>7. Latest(c) => Latest(dd) BY <1>1, <1>6 DEF Latest
<1> HIDE DEF d
<1>8. b.got \in Nat BY DEF Clients
<1>9. PICK q : q = FoldLeft(ClaudePart, opened, parts) OBVIOUS
<1>10. /\ Writing(b, dd, q, b.got + UpTo(parts, Len(parts)), 1, A)
       /\ Latest(opened.c) /\ (\A i \in DOMAIN parts : parts[i].slot \in Contents) => Latest(q.c)
  <2>1. Writing(b, dd, opened, b.got, 1, A) BY <1>3, <1>6
  <2>2. \A i \in DOMAIN parts : parts[i].slot \in Contents => Latest(opened.c) \/ OtherKind \in A
    BY <1>4, <1>5, <1>6, <1>7
  <2>3. ContentsFirst(parts) BY <1>5
  <2>4. PICK g \in Nat : g = b.got BY <1>8
  <2>5. Writing(b, dd, opened, g, 1, A) BY <2>1, <2>4
  <2>6. LET rr == FoldLeft(ClaudePart, opened, parts)
        IN  /\ Writing(b, dd, rr, g + UpTo(parts, Len(parts)), 1, A)
            /\ Latest(opened.c) /\ (\A i \in DOMAIN parts : parts[i].slot \in Contents) => Latest(rr.c)
    BY <2>2, <2>3, <2>5, ClaudePartsWritten
  <2> QED BY <1>9, <2>4, <2>6
<1>11. PICK m \in Nat : m = b.got + UpTo(parts, Len(parts)) /\ m = b.got + Pieces(ch)
  BY <1>5, <1>8, PiecesCounted
<1>12. /\ AnsweredPart(b, Noted(q, ch), m, 1, A)
       /\ FlagsAfter(Noted(q, ch).c, dd.started, dd, ch)
       /\ Latest(q.c) => Latest(Noted(q, ch).c)
  <2>1. Writing(b, dd, q, m, 1, A) BY <1>10, <1>11
  <2>2. ~dd.done BY <1>1, <1>6
  <2>3. PICK t \in Nat : t = 1 OBVIOUS
  <2>4. Writing(b, dd, q, m, t, A) /\ t # 0 BY <2>1, <2>3
  <2>5. /\ AnsweredPart(b, Noted(q, ch), m, t, A) /\ FlagsAfter(Noted(q, ch).c, dd.started, dd, ch)
        /\ Latest(q.c) => Latest(Noted(q, ch).c)
    BY <2>2, <2>4, WritingNotes
  <2> QED BY <2>3, <2>5
<1>13. PICK z : z = Noted(q, ch) OBVIOUS
<1>14. ClaudeChunk(c, ch) = z BY <1>2, <1>5, <1>9, <1>13
<1>15. AnsweredPart(b, z, b.got + Pieces(ch), 1, A) BY <1>11, <1>12, <1>13
<1>16. FlagsAfter(z.c, TRUE, c, ch) BY <1>1, <1>6, <1>12, <1>13 DEF FlagsAfter
<1>17. Latest(c) /\ (\A i \in DOMAIN ch.parts : ch.parts[i].slot \in Contents) => Latest(z.c)
  BY <1>4, <1>5, <1>6, <1>7, <1>10, <1>12, <1>13
<1> QED BY <1>14, <1>15, <1>16, <1>17
\* A chunk, converted for a Responses client that has read all before it.
LEMMA ResponsesChunkWritten ==
  ASSUME NEW b \in Clients, ~b.ended, NEW c \in Converters, ~c.done, Agree(c, b), NEW A,
         b.faults \subseteq A, b.starts = 0 \/ b.starts = 1, c.started => b.starts = 1,
         ~c.started /\ b.starts = 1 => SecondStart \in A, call.named \in BOOLEAN,
         NEW ch, ch.parts \in Seq(Parts), ch.finish \in BOOLEAN, ch.usage \in BOOLEAN
  PROVE  /\ AnsweredPart(b, ResponsesChunk(c, ch), b.got + Pieces(ch), 1, A)
         /\ FlagsAfter(ResponsesChunk(c, ch).c, call.named, c, ch)
<1> DEFINE d == [c EXCEPT !.started = call.named]
           opened == [c |-> d, out |-> IF c.started THEN << >> ELSE <<Start>>]
           r == FoldLeft(ResponsesPart, opened, ch.parts)
<1>1. /\ d \in Converters /\ d.started = call.named /\ d.done = FALSE /\ d.usage = c.usage
  BY DEF Converters
<1>2. ResponsesChunk(c, ch) = Noted(r, ch) BY DEF ResponsesChunk
<1>3. Writing(b, d, opened, b.got, 1, A)
  <2>1. PICK v \in BOOLEAN : v = call.named OBVIOUS
  <2>2. LET e == [c EXCEPT !.started = v]
        IN  Writing(b, e, [c |-> e, out |-> IF c.started THEN << >> ELSE <<Start>>], b.got, 1, A)
    BY WritingBegins
  <2> QED BY <2>1, <2>2
<1> HIDE DEF opened
<1>5. PICK parts \in Seq(Parts) : parts = ch.parts OBVIOUS
<1>6. PICK dd \in Converters : dd = d BY <1>1
<1> HIDE DEF d
<1>8. b.got \in Nat BY DEF Clients
<1>9. PICK q : q = FoldLeft(ResponsesPart, opened, parts) OBVIOUS
<1>10. Writing(b, dd, q, b.got + UpTo(parts, Len(parts)), 1, A)
  <2>1. PICK g \in Nat : g = b.got BY <1>8
  <2>2. Writing(b, dd, opened, g, 1, A) BY <1>3, <1>6, <2>1
  <2>3. Writing(b, dd, FoldLeft(ResponsesPart, opened, parts), g + UpTo(parts, Len(parts)), 1, A)
    BY <2>2, ResponsesPartsWritten
  <2> QED BY <1>9, <2>1, <2>3
<1>11. PICK m \in Nat : m = b.got + UpTo(parts, Len(parts)) /\ m = b.got + Pieces(ch)
  BY <1>5, <1>8, PiecesCounted
<1>12. /\ AnsweredPart(b, Noted(q, ch), m, 1, A)
       /\ FlagsAfter(Noted(q, ch).c, dd.started, dd, ch)
  <2>1. Writing(b, dd, q, m, 1, A) BY <1>10, <1>11
  <2>2. ~dd.done BY <1>1, <1>6
  <2>3. PICK t \in Nat : t = 1 OBVIOUS
  <2>4. Writing(b, dd, q, m, t, A) /\ t # 0 BY <2>1, <2>3
  <2>5. /\ AnsweredPart(b, Noted(q, ch), m, t, A)
        /\ FlagsAfter(Noted(q, ch).c, dd.started, dd, ch)
    BY <2>2, <2>4, WritingNotes
  <2> QED BY <2>3, <2>5
<1>13. PICK z : z = Noted(q, ch) OBVIOUS
<1>14. ResponsesChunk(c, ch) = z BY <1>2, <1>5, <1>9, <1>13
<1>15. AnsweredPart(b, z, b.got + Pieces(ch), 1, A) BY <1>11, <1>12, <1>13
<1>16. FlagsAfter(z.c, call.named, c, ch) BY <1>1, <1>6, <1>12, <1>13 DEF FlagsAfter
<1> QED BY <1>14, <1>15, <1>16
\* The end an unfinished stream is brought to.
ForcedEnd(c) == Terminal([c |-> [c EXCEPT !.finish = TRUE], out |-> << >>])

\* The flags at that end.
FlagsAtEnd(d, c) == d.done = TRUE /\ d.started = c.started /\ d.usage = c.usage

LEMMA EndWritten ==
  ASSUME NEW b \in Clients, ~b.ended, NEW c \in Converters, Agree(c, b), NEW A, b.faults \subseteq A,
         b.starts = 0 => NeverBegun \in A
  PROVE  /\ AnsweredPart(b, ForcedEnd(c), b.got, b.starts, A) /\ Latest(ForcedEnd(c).c)
         /\ FlagsAtEnd(ForcedEnd(c).c, c)
<1> DEFINE z == ForcedEnd(c)  d == [c EXCEPT !.finish = TRUE]  acc == [c |-> d, out |-> << >>]
<1>1. /\ d \in Converters /\ d.started = c.started /\ d.usage = c.usage
      /\ d.next = c.next /\ d.open = c.open /\ d.at = c.at
  BY DEF Converters
<1>2. acc.c = d /\ acc.out = << >> /\ z = Terminal(acc) BY DEF ForcedEnd
<1> HIDE DEF d, z
<1>3. acc \in [c : Converters, out : Seq(Events)]
  <2>1. << >> \in Seq(Events) OBVIOUS
  <2>2. [c |-> d, out |-> << >>] \in [c : Converters, out : Seq(Events)] BY <1>1, <2>1
  <2> QED BY <2>2
<1> HIDE DEF acc
<1>4. Seen(b, acc.out) = b BY <1>2, ReadNothing
<1>5. Agree(d, b) BY <1>1 DEF Agree
<1>6. PICK dd \in Converters : dd = d BY <1>1
<1>7. b.got \in Nat /\ b.starts \in Nat BY DEF Clients
<1>8. Writing(b, dd, acc, b.got, b.starts, A)
  <2>1. acc.c = dd /\ Agree(acc.c, b) BY <1>2, <1>5, <1>6
  <2> QED BY <1>3, <1>4, <2>1 DEF Writing
<1>9. PICK g, t \in Nat : g = b.got /\ t = b.starts BY <1>7
<1>10. Writing(b, dd, acc, g, t, A) /\ (t = 0 => NeverBegun \in A) BY <1>8, <1>9
<1>11. /\ AnsweredPart(b, Terminal(acc), g, t, A)
       /\ SameFlags(Terminal(acc).c, dd) /\ Latest(Terminal(acc).c)
       /\ Terminal(acc).c.done = TRUE
  BY <1>10, WritingEnds
<1>12. /\ AnsweredPart(b, z, b.got, b.starts, A) /\ SameFlags(z.c, dd) /\ Latest(z.c)
       /\ z.c.done = TRUE
  BY <1>2, <1>9, <1>11
<1>13. FlagsAtEnd(z.c, c) BY <1>1, <1>6, <1>12 DEF SameFlags, FlagsAtEnd
<1> QED BY <1>12, <1>13 DEF z

-----------------------------------------------------------------------------
(* The steps of a call.                                                      *)

\* A client that stayed, after a chunk.
ChunkRead(k, z, ch, A) ==
  /\ z.c \in Converters
  /\ LET l == Seen(k, z.out)
     IN  /\ l \in Clients /\ ~l.gone /\ l.faults \subseteq A
         /\ l.got = k.got + (IF conv.done THEN 0 ELSE Pieces(ch))
         /\ l.ended <=> call.out # "openai" /\ z.c.done
         /\ call.out # "openai" => l.starts = 1 /\ (~z.c.done => Agree(z.c, l))
  /\ call.out = "openai" => z.c = conv
  /\ call.out # "openai" =>
       /\ z.c.started <=> call.out = "claude" \/ call.named
       /\ conv.done => z.c.done
       /\ z.c.done => z.c.finish /\ z.c.usage
       /\ z.c.usage => conv.usage \/ ch.usage
       /\ call.out = "claude" /\ ~up.tooled
            /\ (\A i \in DOMAIN ch.parts : ch.parts[i].slot \notin ToolCalls) => Latest(z.c)

LEMMA ChunkTyped ==
  ASSUME call \in RelayCalls, NEW ch \in Chunks[call.sends]
  PROVE  /\ ch.parts \in Seq(Parts) /\ ContentsFirst(ch.parts) /\ Contents \cap ToolCalls = {}
         /\ ch.finish \in BOOLEAN /\ ch.usage \in BOOLEAN
         /\ call.named \in BOOLEAN /\ call.out \in {"openai", "claude", "responses"}
BY ChunksAssumption, RelayCallsAssumption DEF Parts

\* A chunk, converted and read.
LEMMA ChunkIsRead ==
  ASSUME RelayTyped, ConverterFollows, phase = "streaming", NEW k \in Clients, Follows(k),
         NEW ch \in Chunks[call.sends], NEW A, Allowed \subseteq A,
         call.out = "claude" /\ up.tooled /\ (\E i \in DOMAIN ch.parts : ch.parts[i].slot \in Contents)
           => OtherKind \in A
  PROVE  ChunkRead(k, Converted(ch), ch, A)
<1> DEFINE z == Converted(ch)
<1>1. /\ call \in RelayCalls /\ conv \in Converters /\ up \in Sendings
  BY DEF RelayTyped
<1>2. /\ ch.parts \in Seq(Parts) /\ ContentsFirst(ch.parts) /\ Contents \cap ToolCalls = {}
      /\ ch.finish \in BOOLEAN /\ ch.usage \in BOOLEAN
      /\ call.named \in BOOLEAN /\ call.out \in {"openai", "claude", "responses"}
  BY <1>1, ChunkTyped
<1>3. /\ ~k.gone /\ k.faults \subseteq A /\ k.got = up.parts /\ k.got \in Nat /\ k.ended \in BOOLEAN
      /\ conv.done \in BOOLEAN /\ up.chunked \in BOOLEAN /\ conv.started \in BOOLEAN
  BY <1>1 DEF Follows, Clients, Converters, Sendings
<1>4. k.ended <=> call.out # "openai" /\ conv.done BY DEF Follows, Over
<1>5. CASE call.out = "openai"
  <2>1. z.c = conv /\ z.out = <<Chunk(Pieces(ch))>> BY <1>5 DEF Converted
  <2>2. Pieces(ch) \in Nat BY <1>2, PiecesCounted
  <2>3. Seen(k, z.out) = Read(k, Chunk(Pieces(ch)))
    <3> DEFINE e == Chunk(Pieces(ch))
    <3>1. e \in Events /\ << >> \in Seq(Events) BY <2>2 DEF Events
    <3> HIDE DEF e
    <3>2. Append(<< >>, e) = <<e>> OBVIOUS
    <3>3. Seen(k, Append(<< >>, e)) = Read(Seen(k, << >>), e) BY <3>1, ReadOneMore
    <3>4. Seen(k, <<e>>) = Read(k, e) BY <3>2, <3>3, ReadNothing
    <3> QED BY <2>1, <3>4 DEF e
  <2>4. Read(k, Chunk(Pieces(ch))) = [k EXCEPT !.got = @ + Pieces(ch)]
    <3>1. ~k.ended BY <1>4, <1>5
    <3> QED BY <2>2, <3>1, ReadChunk
  <2> DEFINE l == Seen(k, z.out)
  <2>5. l = [k EXCEPT !.got = @ + Pieces(ch)] BY <2>3, <2>4
  <2> HIDE DEF l, z
  <2>6. /\ l \in Clients /\ l.gone = k.gone /\ l.faults = k.faults /\ l.ended = k.ended
        /\ l.got = k.got + Pieces(ch)
    <3>1. k.got + Pieces(ch) \in Nat BY <1>3, <2>2
    <3> QED BY <2>5, <3>1 DEF Clients
  <2>7. ~conv.done BY <1>5 DEF ConverterFollows
  <2>8. /\ l \in Clients /\ ~l.gone /\ l.faults \subseteq A
        /\ l.got = k.got + (IF conv.done THEN 0 ELSE Pieces(ch)) /\ ~l.ended
    BY <1>3, <1>4, <1>5, <2>6, <2>7
  <2> QED BY <1>1, <1>5, <2>1, <2>8 DEF ChunkRead, l, z
<1>6. CASE call.out # "openai" /\ conv.done
  <2>1. z.c = conv /\ z.out = << >>
    BY <1>2, <1>6 DEF Converted, ClaudeChunk, ResponsesChunk
  <2>2. Seen(k, z.out) = k BY <2>1, ReadNothing
  <2>3. up.chunked BY <1>6 DEF ConverterFollows
  <2>4. k.starts = 1 BY <1>6, <2>3 DEF Follows
  <2>5. k.got = k.got + (IF conv.done THEN 0 ELSE Pieces(ch)) BY <1>3, <1>6
  <2>6. k.ended BY <1>4, <1>6
  <2>7. (conv.started <=> call.out = "claude" \/ call.named) /\ conv.finish /\ conv.usage
    BY <1>6, <2>3 DEF ConverterFollows
  <2>8. call.out = "claude" /\ ~up.tooled => Latest(conv) BY DEF ConverterFollows
  <2> HIDE DEF z
  <2> QED BY <1>1, <1>3, <1>6, <2>1, <2>2, <2>4, <2>5, <2>6, <2>7, <2>8 DEF ChunkRead, z
<1>7. CASE call.out = "claude" /\ ~conv.done
  <2>1. z = ClaudeChunk(conv, ch) BY <1>7 DEF Converted
  <2> HIDE DEF z
  <2>2. PICK c \in Converters : c = conv BY <1>1
  <2>3. ~k.ended /\ ~c.done /\ Agree(c, k) BY <1>4, <1>7, <2>2 DEF Follows
  <2>4. k.starts = IF c.started THEN 1 ELSE 0
    <3>1. conv.started <=> up.chunked BY <1>7 DEF ConverterFollows
    <3>2. k.starts = IF up.chunked THEN 1 ELSE 0 BY <1>7 DEF Follows
    <3> QED BY <2>2, <3>1, <3>2
  <2>5. \A i \in DOMAIN ch.parts : ch.parts[i].slot \in Contents => Latest(c) \/ OtherKind \in A
    <3>1. ~up.tooled => Latest(conv) BY <1>7 DEF ConverterFollows
    <3> QED BY <1>7, <2>2, <3>1
  <2>6. /\ AnsweredPart(k, ClaudeChunk(c, ch), k.got + Pieces(ch), 1, A)
        /\ FlagsAfter(ClaudeChunk(c, ch).c, TRUE, c, ch)
        /\ Latest(c) /\ (\A i \in DOMAIN ch.parts : ch.parts[i].slot \in Contents) =>
             Latest(ClaudeChunk(c, ch).c)
    BY <1>2, <1>3, <2>3, <2>4, <2>5, ClaudeChunkWritten
  <2>7. AnsweredPart(k, z, k.got + Pieces(ch), 1, A) /\ FlagsAfter(z.c, TRUE, conv, ch)
    BY <2>1, <2>2, <2>6
  <2>8. ~up.tooled /\ (\A i \in DOMAIN ch.parts : ch.parts[i].slot \notin ToolCalls) => Latest(z.c)
    <3> SUFFICES ASSUME ~up.tooled, \A i \in DOMAIN ch.parts : ch.parts[i].slot \notin ToolCalls
                 PROVE  Latest(z.c)
      OBVIOUS
    <3>1. Latest(c) BY <1>7, <2>2 DEF ConverterFollows
    <3>2. \A i \in DOMAIN ch.parts : ch.parts[i].slot \in Contents
      <4> TAKE i \in DOMAIN ch.parts
      <4>1. PICK parts \in Seq(Parts) : parts = ch.parts BY <1>2
      <4>2. parts[i] \in Parts BY <4>1
      <4>3. ch.parts[i].slot \in DeltaSlots BY <4>1, <4>2 DEF Parts
      <4> QED BY <4>3 DEF DeltaSlots
    <3> QED BY <2>1, <2>2, <2>6, <3>1, <3>2
  <2>9. /\ z.c \in Converters /\ z.c.done \in BOOLEAN /\ z.c.started \in BOOLEAN
    BY <2>7 DEF AnsweredPart, Converters
  <2> DEFINE l == Seen(k, z.out)
  <2>10. /\ l \in Clients /\ l.gone = k.gone /\ l.got = k.got + Pieces(ch) /\ l.starts = 1
         /\ l.faults \subseteq A /\ (l.ended <=> z.c.done) /\ (~z.c.done => Agree(z.c, l))
    BY <2>7, <2>9 DEF AnsweredPart
  <2> HIDE DEF l
  <2>11. l.got = k.got + (IF conv.done THEN 0 ELSE Pieces(ch)) BY <1>7, <2>10
  <2>12. /\ z.c.started = TRUE /\ (z.c.done => z.c.finish /\ z.c.usage)
         /\ (z.c.usage => conv.usage \/ ch.usage)
    BY <2>7 DEF FlagsAfter
  <2> QED BY <1>3, <1>7, <2>8, <2>9, <2>10, <2>11, <2>12 DEF ChunkRead, l, z
<1>8. CASE call.out = "responses" /\ ~conv.done
  <2>1. z = ResponsesChunk(conv, ch) BY <1>8 DEF Converted
  <2> HIDE DEF z
  <2>2. PICK c \in Converters : c = conv BY <1>1
  <2>3. ~k.ended /\ ~c.done /\ Agree(c, k) BY <1>4, <1>8, <2>2 DEF Follows
  <2>4. /\ k.starts = 0 \/ k.starts = 1
        /\ c.started => k.starts = 1
        /\ ~c.started /\ k.starts = 1 => SecondStart \in A
    <3>1. conv.started <=> up.chunked /\ call.named BY <1>8 DEF ConverterFollows
    <3>2. k.starts = IF up.chunked THEN 1 ELSE 0 BY <1>8 DEF Follows
    <3>3. ~call.named => SecondStart \in A BY <1>8 DEF Allowed
    <3>4. c.started <=> up.chunked /\ call.named BY <2>2, <3>1
    <3> QED BY <3>2, <3>3, <3>4
  <2>6. /\ AnsweredPart(k, ResponsesChunk(c, ch), k.got + Pieces(ch), 1, A)
        /\ FlagsAfter(ResponsesChunk(c, ch).c, call.named, c, ch)
    BY <1>2, <1>3, <2>3, <2>4, ResponsesChunkWritten
  <2>7. AnsweredPart(k, z, k.got + Pieces(ch), 1, A) /\ FlagsAfter(z.c, call.named, conv, ch)
    BY <2>1, <2>2, <2>6
  <2>9. /\ z.c \in Converters /\ z.c.done \in BOOLEAN /\ z.c.started \in BOOLEAN
    BY <2>7 DEF AnsweredPart, Converters
  <2> DEFINE l == Seen(k, z.out)
  <2>10. /\ l \in Clients /\ l.gone = k.gone /\ l.got = k.got + Pieces(ch) /\ l.starts = 1
         /\ l.faults \subseteq A /\ (l.ended <=> z.c.done) /\ (~z.c.done => Agree(z.c, l))
    BY <2>7, <2>9 DEF AnsweredPart
  <2> HIDE DEF l
  <2>11. l.got = k.got + (IF conv.done THEN 0 ELSE Pieces(ch)) BY <1>8, <2>10
  <2>12. /\ z.c.started = call.named /\ (z.c.done => z.c.finish /\ z.c.usage)
         /\ (z.c.usage => conv.usage \/ ch.usage)
    BY <2>7 DEF FlagsAfter
  <2> QED BY <1>2, <1>3, <1>8, <2>9, <2>10, <2>11, <2>12 DEF ChunkRead, l, z
<1> QED BY <1>2, <1>3, <1>5, <1>6, <1>7, <1>8

\* The end, written and read.
EndRead(k, z, A) ==
  /\ z.c \in Converters
  /\ LET l == Seen(k, z.out)
     IN  /\ l \in Clients /\ ~l.gone /\ l.faults \subseteq A /\ l.got = k.got /\ l.ended
         /\ call.out # "openai" => l.starts = k.starts
  /\ call.out = "openai" => z.c = conv
  /\ call.out # "openai" => z.c.done /\ (z.c.started <=> conv.started) /\ (Latest(conv) => Latest(z.c))
  /\ z.c.usage <=> conv.usage

LEMMA EndIsRead ==
  ASSUME RelayTyped, ConverterFollows, phase = "streaming", NEW k \in Clients, Follows(k),
         NEW A, Allowed \subseteq A, ~up.chunked => NeverBegun \in A
  PROVE  EndRead(k, Finished, A)
<1> DEFINE z == Finished
<1>1. /\ call \in RelayCalls /\ conv \in Converters /\ up \in Sendings
  BY DEF RelayTyped
<1>3. /\ ~k.gone /\ k.faults \subseteq A /\ k.got = up.parts /\ k.got \in Nat /\ k.ended \in BOOLEAN
      /\ conv.done \in BOOLEAN /\ up.chunked \in BOOLEAN /\ conv.started \in BOOLEAN
      /\ conv.usage \in BOOLEAN
  BY <1>1 DEF Follows, Clients, Converters, Sendings
<1>4. k.ended <=> call.out # "openai" /\ conv.done BY DEF Follows, Over
<1>5. CASE call.out = "openai"
  <2>1. z.c = conv /\ z.out = <<DoneMark>> BY <1>5 DEF Finished
  <2>3. Seen(k, z.out) = Read(k, DoneMark)
    <3>1. DoneMark \in Events /\ << >> \in Seq(Events) BY DEF Events
    <3>2. Append(<< >>, DoneMark) = <<DoneMark>> OBVIOUS
    <3>3. Seen(k, Append(<< >>, DoneMark)) = Read(Seen(k, << >>), DoneMark) BY <3>1, ReadOneMore
    <3> QED BY <2>1, <3>2, <3>3, ReadNothing
  <2>4. Read(k, DoneMark) = [k EXCEPT !.ended = TRUE]
    <3>1. ~k.ended /\ 0 \in Nat BY <1>4, <1>5
    <3> QED BY <3>1, ReadChunk
  <2> DEFINE l == Seen(k, z.out)
  <2>5. l = [k EXCEPT !.ended = TRUE] BY <2>3, <2>4
  <2> HIDE DEF l, z
  <2>6. /\ l \in Clients /\ l.gone = k.gone /\ l.faults = k.faults /\ l.ended = TRUE
        /\ l.got = k.got
    BY <2>5 DEF Clients
  <2> QED BY <1>1, <1>3, <1>5, <2>1, <2>6 DEF EndRead, l, z
<1>6. CASE call.out # "openai" /\ conv.done
  <2>1. z.c = conv /\ z.out = << >> BY <1>6 DEF Finished
  <2>2. Seen(k, z.out) = k BY <2>1, ReadNothing
  <2>3. k.ended BY <1>4, <1>6
  <2> HIDE DEF z
  <2> QED BY <1>1, <1>3, <1>6, <2>1, <2>2, <2>3 DEF EndRead, z
<1>7. CASE call.out # "openai" /\ ~conv.done
  <2>1. z = Terminal([c |-> [conv EXCEPT !.finish = TRUE], out |-> << >>])
    BY <1>7 DEF Finished, ForceFinishEvents
  <2> HIDE DEF z
  <2>2. PICK c \in Converters : c = conv BY <1>1
  <2>3. PICK y : y = ForcedEnd(c) OBVIOUS
  <2>4. y = z BY <2>1, <2>2, <2>3 DEF ForcedEnd
  <2>5. ~k.ended /\ Agree(c, k) BY <1>4, <1>7, <2>2 DEF Follows
  <2>6. k.starts = 0 => NeverBegun \in A
    <3>1. k.starts = IF up.chunked THEN 1 ELSE 0 BY <1>7 DEF Follows
    <3> QED BY <3>1
  <2>7. AnsweredPart(k, y, k.got, k.starts, A) /\ Latest(y.c) /\ FlagsAtEnd(y.c, c)
    BY <1>3, <2>3, <2>5, <2>6, EndWritten
  <2>8. y.c \in Converters BY <2>7 DEF AnsweredPart
  <2> DEFINE l == Seen(k, y.out)
  <2>9. /\ l \in Clients /\ l.gone = k.gone /\ l.got = k.got /\ l.starts = k.starts
        /\ l.faults \subseteq A /\ l.ended
    BY <2>7 DEF AnsweredPart, FlagsAtEnd
  <2> HIDE DEF l
  <2>10. /\ z.c \in Converters /\ z.c.done /\ z.c.started = conv.started
         /\ z.c.usage = conv.usage /\ Latest(z.c) /\ l = Seen(k, z.out)
    BY <2>2, <2>4, <2>7, <2>8 DEF l, FlagsAtEnd
  <2> QED BY <1>3, <1>7, <2>9, <2>10 DEF EndRead, z
<1> QED BY <1>3, <1>5, <1>6, <1>7

\* A step that writes nothing and sends nothing.
LEMMA NothingIsWritten ==
  ASSUME RelayInv, call' = call, conv' = conv, client' = client, up' = up,
         (phase' = "done") <=> (phase = "done")
  PROVE  /\ RelayTyped' /\ client'.faults \subseteq Allowed' /\ ClientFollows' /\ ConverterFollows'
         /\ (client'.ended => Over')
<1>1. Allowed' = Allowed BY DEF Allowed
<1>2. Over' <=> Over BY DEF Over
<1>3. RelayTyped' BY DEF RelayInv, RelayTyped
<1>4. \A k \in Clients : Follows(k) => Follows(k)' BY <1>1, <1>2 DEF Follows
<1>5. ClientFollows' BY <1>4 DEF RelayInv, ClientFollows
<1>6. ConverterFollows' BY DEF RelayInv, ConverterFollows
<1> QED BY <1>1, <1>2, <1>3, <1>5, <1>6 DEF RelayInv, EndsAgree

LEMMA RelayInitially == RelayInit => RelayInv
<1> SUFFICES ASSUME RelayInit PROVE RelayInv OBVIOUS
<1>1. NewConverter \in Converters
  <2>1. << >> \in Seq(Nat) /\ Nowhere \in [DeltaSlots -> Nat \cup {-1}] BY DEF Nowhere
  <2> QED BY <2>1 DEF NewConverter, Converters
<1>2. NewClient \in Clients
  <2>1. << >> \in Seq(AnswerKinds) OBVIOUS
  <2> QED BY <2>1 DEF NewClient, Clients
<1>3. up \in Sendings BY DEF RelayInit, Sendings
<1>4. RelayTyped BY <1>1, <1>2, <1>3 DEF RelayInit, RelayTyped
<1>5. /\ ~conv.done /\ ~conv.started /\ ~conv.usage /\ conv.next = 0 /\ conv.open = << >>
      /\ conv.at = Nowhere
  BY DEF RelayInit, NewConverter
<1>6. /\ ~client.gone /\ ~client.ended /\ client.got = 0 /\ client.starts = 0
      /\ client.faults = {} /\ client.kinds = << >> /\ client.stopped = {}
  BY DEF RelayInit, NewClient
<1>7. /\ phase = "asked" /\ up.chunked = FALSE /\ up.parts = 0 /\ up.tooled = FALSE
      /\ money = "none" /\ source = "none" /\ tail = "none" /\ ~up.reported
  BY DEF RelayInit
<1>8. \A s \in DeltaSlots : conv.at[s] = -1 BY <1>5 DEF Nowhere
<1>9. Agree(conv, client)
  <2>1. Len(client.kinds) = 0 /\ DOMAIN conv.open = {} /\ 0..(conv.next - 1) = {} BY <1>5, <1>6
  <2> QED BY <1>5, <1>6, <1>8, <2>1 DEF Agree
<1>10. Latest(conv)
  <2>1. \A s \in Contents : s \in DeltaSlots BY DEF DeltaSlots
  <2> QED BY <1>8, <2>1 DEF Latest
<1>11. Follows(client) BY <1>5, <1>6, <1>7, <1>9 DEF Follows, Over
<1>12. ClientFollows BY <1>2, <1>11 DEF ClientFollows, RelayInit
<1>13. ConverterFollows BY <1>5, <1>7, <1>10 DEF ConverterFollows
<1>14. EndsAgree BY <1>5, <1>6, <1>7 DEF EndsAgree
<1> QED BY <1>4, <1>6, <1>12, <1>13, <1>14 DEF RelayInv

\* A line with a chunk.
LEMMA RelayDataLine ==
  ASSUME RelayInv, NEW ch \in Chunks[call.sends], DataLine(ch)
  PROVE  RelayInv'
<1> DEFINE z == Converted(ch)
<1>1. /\ RelayTyped /\ ConverterFollows /\ ClientFollows /\ EndsAgree /\ client.faults \subseteq Allowed
  BY DEF RelayInv
<1>2. /\ call \in RelayCalls /\ conv \in Converters /\ client \in Clients /\ up \in Sendings
  BY <1>1 DEF RelayTyped
<1>3. /\ ch.parts \in Seq(Parts) /\ ch.finish \in BOOLEAN /\ ch.usage \in BOOLEAN
      /\ call.out \in {"openai", "claude", "responses"} /\ Contents \cap ToolCalls = {}
      /\ call.named \in BOOLEAN
  BY <1>2, ChunkTyped
<1>4. Pieces(ch) \in Nat BY <1>3, PiecesCounted
<1>5. /\ phase = "streaming" /\ phase' = phase /\ call' = call /\ money' = money /\ source' = source
      /\ conv' = z.c /\ client' = Received(z.out)
      /\ tail' = IF ch.usage THEN "usage" ELSE "plain"
  BY DEF DataLine
<1> DEFINE tools == \E i \in DOMAIN ch.parts : ch.parts[i].slot \in ToolCalls
           words == \E i \in DOMAIN ch.parts : ch.parts[i].slot \in Contents
<1>6. /\ up'.lines = up.lines + 1 /\ up'.chunked = TRUE
      /\ up'.parts = up.parts + (IF conv.done THEN 0 ELSE Pieces(ch))
      /\ up'.reported = (up.reported \/ ch.usage) /\ up'.tooled = (up.tooled \/ tools)
      /\ up'.resumed = (up.resumed \/ (up.tooled /\ words))
      /\ up'.foreign = up.foreign
      /\ up' \in Sendings
  <2>1. up' = [lines    |-> up.lines + 1, chunked |-> TRUE, foreign |-> up.foreign,
               parts    |-> up.parts + (IF conv.done THEN 0 ELSE Pieces(ch)),
               reported |-> up.reported \/ ch.usage, tooled |-> up.tooled \/ tools,
               resumed  |-> up.resumed \/ (up.tooled /\ words)]
    BY DEF DataLine
  <2>2. up.lines \in Nat /\ up.parts \in Nat /\ up.foreign \in BOOLEAN BY <1>2 DEF Sendings
  <2>3. PICK n, m \in Nat : n = up.lines + 1 /\ m = up.parts + (IF conv.done THEN 0 ELSE Pieces(ch))
    BY <1>4, <2>2
  <2>4. PICK f, g, h \in BOOLEAN : /\ f = (up.reported \/ ch.usage) /\ g = (up.tooled \/ tools)
                                   /\ h = (up.resumed \/ (up.tooled /\ words))
    OBVIOUS
  <2>5. up' = [lines |-> n, chunked |-> TRUE, parts |-> m, reported |-> f, tooled |-> g, resumed |-> h,
               foreign |-> up.foreign]
    BY <2>1, <2>3, <2>4
  <2> QED BY <2>2, <2>3, <2>4, <2>5 DEF Sendings
<1> HIDE DEF tools, words, z
<1>7. Allowed \subseteq Allowed' BY <1>5, <1>6 DEF Allowed
<1>8. call.out = "claude" /\ up.tooled /\ words => OtherKind \in Allowed'
  BY <1>5, <1>6 DEF Allowed
<1>9. PICK k \in Clients : Follows(k) /\ (client.gone \/ client = k) BY <1>1 DEF ClientFollows
<1>10. PICK A : A = Allowed' OBVIOUS
<1>11. ChunkRead(k, z, ch, A)
  <2>1. Allowed \subseteq A /\ (call.out = "claude" /\ up.tooled /\ words => OtherKind \in A)
    BY <1>7, <1>8, <1>10
  <2> QED BY <1>1, <1>5, <1>9, <2>1, ChunkIsRead DEF words, z
<1>12. PICK l \in Clients : l = Seen(k, z.out) BY <1>11 DEF ChunkRead
<1>13. client' = IF client.gone THEN client ELSE l
  BY <1>5, <1>9, <1>12 DEF Received, Seen
<1>14. RelayTyped' BY <1>2, <1>5, <1>6, <1>11, <1>13 DEF RelayTyped, ChunkRead
<1>15. Over <=> call.out # "openai" /\ conv.done BY <1>5 DEF Over
<1>16. Over' <=> call.out # "openai" /\ z.c.done BY <1>5 DEF Over
<1>17. Over => Over'
  <2>1. CASE Over
    <3>2. z.c.done BY <1>11, <1>15, <2>1 DEF ChunkRead
    <3> QED BY <1>15, <1>16, <2>1, <3>2
  <2> QED BY <2>1
<1>18. Follows(l)'
  <2>1. ~l.gone /\ l.faults \subseteq Allowed' BY <1>10, <1>11, <1>12 DEF ChunkRead
  <2>2. l.got = up'.parts
    <3>1. k.got = up.parts BY <1>9 DEF Follows
    <3> QED BY <1>6, <1>11, <1>12, <3>1 DEF ChunkRead
  <2>3. l.ended <=> Over' BY <1>11, <1>12, <1>16 DEF ChunkRead
  <2>4. call'.out # "openai" => /\ l.starts = IF up'.chunked THEN 1 ELSE 0
                                /\ ~conv'.done => Agree(conv', l)
    BY <1>5, <1>6, <1>11, <1>12 DEF ChunkRead
  <2> QED BY <2>1, <2>2, <2>3, <2>4 DEF Follows
<1>19. ClientFollows' BY <1>13, <1>18 DEF ClientFollows
<1>20. client'.faults \subseteq Allowed'
  BY <1>1, <1>7, <1>10, <1>11, <1>12, <1>13 DEF ChunkRead
<1>21. ConverterFollows'
  <2>1. CASE call.out = "openai"
    <3>1. ~conv.done /\ conv' = conv BY <1>1, <1>5, <1>11, <2>1 DEF ConverterFollows, ChunkRead
    <3> QED BY <1>5, <2>1, <3>1 DEF ConverterFollows
  <2>2. CASE call.out # "openai"
    <3>1. /\ conv'.started <=> call.out = "claude" \/ call.named
          /\ conv'.done => conv'.finish /\ conv'.usage
          /\ call.out = "claude" /\ ~up.tooled
               /\ (\A i \in DOMAIN ch.parts : ch.parts[i].slot \notin ToolCalls) => Latest(conv')
      BY <1>5, <1>11, <2>2 DEF ChunkRead
    <3>2. call.out = "claude" /\ ~up'.tooled => Latest(conv') BY <1>6, <3>1 DEF tools
    <3> QED BY <1>5, <1>6, <2>2, <3>1, <3>2 DEF ConverterFollows
  <2> QED BY <2>1, <2>2
<1>22. EndsAgree'
  <2>1. client'.ended => Over'
    <3>1. client.ended => Over BY <1>1 DEF EndsAgree
    <3>2. l.ended => Over' BY <1>18 DEF Follows
    <3> QED BY <1>13, <1>17, <3>1, <3>2
  <2>2. conv'.usage => up'.reported
    <3>1. conv.usage => up.reported BY <1>1 DEF EndsAgree
    <3>2. conv'.usage => conv.usage \/ ch.usage BY <1>5, <1>11 DEF ChunkRead
    <3> QED BY <1>6, <3>1, <3>2
  <2>3. tail' \in {"plain", "usage"} /\ (tail' = "usage" => up'.reported) BY <1>5, <1>6
  <2>4. source' = "none" BY <1>1, <1>5 DEF EndsAgree
  <2> QED BY <1>1, <1>5, <1>6, <2>1, <2>2, <2>3, <2>4 DEF EndsAgree
<1> QED BY <1>14, <1>19, <1>20, <1>21, <1>22 DEF RelayInv

\* The end of the body.
LEMMA RelayComplete ==
  ASSUME RelayInv, Complete
  PROVE  RelayInv'
<1> DEFINE z == Finished
<1>1. /\ RelayTyped /\ ConverterFollows /\ ClientFollows /\ EndsAgree /\ client.faults \subseteq Allowed
  BY DEF RelayInv
<1>2. /\ call \in RelayCalls /\ conv \in Converters /\ client \in Clients /\ up \in Sendings
  BY <1>1 DEF RelayTyped
<1>3. /\ phase = "streaming" /\ phase' = "done" /\ call' = call /\ up' = up /\ tail' = tail
      /\ conv' = z.c /\ client' = Received(z.out) /\ money' = "settled"
      /\ source' = IF tail = "usage" /\ HasUsage(Parsed(call.report)) THEN "final_chunk"
                   ELSE "estimated"
  BY DEF Complete
<1> HIDE DEF z
<1>4. Allowed \subseteq Allowed' /\ (~up.chunked => NeverBegun \in Allowed')
  BY <1>3 DEF Allowed
<1>5. PICK k \in Clients : Follows(k) /\ (client.gone \/ client = k) BY <1>1 DEF ClientFollows
<1>6. PICK A : A = Allowed' OBVIOUS
<1>7. EndRead(k, z, A)
  <2>1. Allowed \subseteq A /\ (~up.chunked => NeverBegun \in A) BY <1>4, <1>6
  <2> QED BY <1>1, <1>3, <1>5, <2>1, EndIsRead DEF z
<1>8. PICK l \in Clients : l = Seen(k, z.out) BY <1>7 DEF EndRead
<1>9. client' = IF client.gone THEN client ELSE l
  BY <1>3, <1>5, <1>8 DEF Received, Seen
<1>10. RelayTyped' BY <1>2, <1>3, <1>7, <1>9 DEF RelayTyped, EndRead
<1>11. Over' BY <1>3 DEF Over
<1>12. Follows(l)'
  <2>1. ~l.gone /\ l.faults \subseteq Allowed' /\ l.ended BY <1>6, <1>7, <1>8 DEF EndRead
  <2>2. l.got = up'.parts
    <3>1. k.got = up.parts BY <1>5 DEF Follows
    <3> QED BY <1>3, <1>7, <1>8, <3>1 DEF EndRead
  <2>3. call'.out # "openai" => /\ l.starts = IF up'.chunked THEN 1 ELSE 0
                                /\ conv'.done
    <3>1. call.out # "openai" => k.starts = IF up.chunked THEN 1 ELSE 0 BY <1>5 DEF Follows
    <3> QED BY <1>3, <1>7, <1>8, <3>1 DEF EndRead
  <2> QED BY <1>11, <2>1, <2>2, <2>3 DEF Follows
<1>13. ClientFollows' BY <1>9, <1>12 DEF ClientFollows
<1>14. client'.faults \subseteq Allowed' BY <1>1, <1>4, <1>9, <1>12 DEF Follows
<1>15. ConverterFollows'
  <2>1. CASE call.out = "openai"
    <3>1. ~conv.done /\ conv' = conv BY <1>1, <1>3, <1>7, <2>1 DEF ConverterFollows, EndRead
    <3> QED BY <1>3, <2>1, <3>1 DEF ConverterFollows
  <2>2. CASE call.out # "openai"
    <3>1. conv'.done /\ (conv'.started <=> conv.started) /\ (Latest(conv) => Latest(conv'))
      BY <1>3, <1>7, <2>2 DEF EndRead
    <3>2. /\ conv.started <=> up.chunked /\ (call.out = "claude" \/ call.named)
          /\ call.out = "claude" /\ ~up.tooled => Latest(conv)
      BY <1>1, <2>2 DEF ConverterFollows
    <3> QED BY <1>3, <2>2, <3>1, <3>2 DEF ConverterFollows
  <2> QED BY <2>1, <2>2
<1>16. EndsAgree'
  <2>1. (conv.usage => up.reported) /\ (tail = "usage" => up.reported) BY <1>1 DEF EndsAgree
  <2>2. conv'.usage <=> conv.usage BY <1>3, <1>7 DEF EndRead
  <2>3. up.reported => tail \in {"plain", "usage"} BY <1>1 DEF EndsAgree
  <2>4. source' = "final_chunk" => up'.reported BY <1>3, <2>1
  <2>5. source' = "estimated" => ~(tail' = "usage" /\ HasUsage(Parsed(call'.report))) BY <1>3
  <2> QED BY <1>3, <1>11, <2>1, <2>2, <2>3, <2>4, <2>5 DEF EndsAgree
<1> QED BY <1>10, <1>13, <1>14, <1>15, <1>16 DEF RelayInv

\* The client goes away.
LEMMA RelayLeave ==
  ASSUME RelayInv, Leave
  PROVE  RelayInv'
<1>1. /\ call' = call /\ phase' = phase /\ conv' = conv /\ up' = up /\ money' = money
      /\ tail' = tail /\ source' = source /\ client' = [client EXCEPT !.gone = TRUE]
  BY DEF Leave
<1>2. /\ client' \in Clients /\ client'.gone /\ client'.faults = client.faults
      /\ client'.ended = client.ended
  BY <1>1 DEF RelayInv, RelayTyped, Clients
<1>3. Allowed' = Allowed BY <1>1 DEF Allowed
<1>4. Over' <=> Over BY <1>1 DEF Over
<1>5. \A k \in Clients : Follows(k) => Follows(k)' BY <1>1, <1>3, <1>4 DEF Follows
<1>6. ClientFollows' BY <1>2, <1>5 DEF RelayInv, ClientFollows
<1>7. ConverterFollows' BY <1>1 DEF RelayInv, ConverterFollows
<1>8. EndsAgree' BY <1>1, <1>2, <1>4 DEF RelayInv, EndsAgree
<1>9. RelayTyped' BY <1>1, <1>2 DEF RelayInv, RelayTyped
<1> QED BY <1>2, <1>3, <1>6, <1>7, <1>8, <1>9 DEF RelayInv

\* A line that is no chunk: the client gets it as it is.
LEMMA RelayForeignLine ==
  ASSUME RelayInv, RawLine \/ BareLine
  PROVE  RelayInv'
<1>1. /\ call' = call /\ phase' = phase /\ conv' = conv /\ client' = Received(<<Foreign>>)
      /\ money' = money /\ source' = source /\ tail' \in {tail, "plain"} /\ phase = "streaming"
      /\ up' = [up EXCEPT !.lines = @ + 1, !.foreign = TRUE]
  BY DEF RawLine, BareLine
<1>2. /\ up' \in Sendings /\ up'.chunked = up.chunked /\ up'.parts = up.parts
      /\ up'.reported = up.reported /\ up'.tooled = up.tooled /\ up'.resumed = up.resumed
      /\ up'.foreign
  <2>1. up \in Sendings BY DEF RelayInv, RelayTyped
  <2>2. up.lines + 1 \in Nat BY <2>1 DEF Sendings
  <2> QED BY <1>1, <2>1, <2>2 DEF Sendings
<1>3. Allowed \subseteq Allowed' /\ NoEvent \in Allowed' BY <1>1, <1>2 DEF Allowed
<1>4. Over' <=> Over BY <1>1 DEF Over
<1>5. PICK k \in Clients : Follows(k) /\ (client.gone \/ client = k) BY DEF RelayInv, ClientFollows
<1>6. PICK l : l = Seen(k, <<Foreign>>) OBVIOUS
<1>7. l = [k EXCEPT !.faults = @ \cup {NoEvent}] BY <1>6, ReadForeign
<1>8. /\ l \in Clients /\ l.faults = k.faults \cup {NoEvent} /\ l.gone = k.gone /\ l.got = k.got
      /\ l.ended = k.ended /\ l.starts = k.starts /\ l.kinds = k.kinds /\ l.stopped = k.stopped
  BY <1>7 DEF Clients, FaultNames, NoEvent
<1>9. client' = IF client.gone THEN client ELSE l
  BY <1>1, <1>5, <1>6 DEF Received, Seen
<1>10. Follows(l)'
  <2>1. Agree(conv, k) => Agree(conv, l) BY <1>8 DEF Agree
  <2> QED BY <1>1, <1>2, <1>3, <1>4, <1>5, <1>8, <2>1 DEF Follows
<1>11. ClientFollows' BY <1>8, <1>9, <1>10 DEF ClientFollows
<1>12. client'.faults \subseteq Allowed'
  <2>1. client.faults \subseteq Allowed BY DEF RelayInv
  <2>2. l.faults \subseteq Allowed' BY <1>10 DEF Follows
  <2> QED BY <1>3, <1>9, <2>1, <2>2
<1>13. ConverterFollows' BY <1>1, <1>2 DEF RelayInv, ConverterFollows
<1>14. EndsAgree'
  <2>1. client'.ended => Over'
    <3>1. client.ended => Over BY DEF RelayInv, EndsAgree
    <3>2. l.ended => Over' BY <1>10 DEF Follows
    <3> QED BY <1>4, <1>9, <3>1, <3>2
  <2> QED BY <1>1, <1>2, <2>1 DEF RelayInv, EndsAgree
<1>15. RelayTyped' BY <1>1, <1>2, <1>8, <1>9 DEF RelayInv, RelayTyped
<1> QED BY <1>11, <1>12, <1>13, <1>14, <1>15 DEF RelayInv

LEMMA RelayStep == RelayInv /\ [RelayNext]_relayVars => RelayInv'
<1> SUFFICES ASSUME RelayInv, [RelayNext]_relayVars PROVE RelayInv' OBVIOUS
<1> DEFINE Still == /\ call' = call /\ conv' = conv /\ client' = client /\ up' = up
                    /\ tail' = tail /\ source' = source
                    /\ (phase' = "done") <=> (phase = "done")
<1>1. ASSUME Still,
             money' = "settled" => phase' = "done",
             money' = "released" => phase' \in {"failed", "interrupted"}
      PROVE  RelayInv'
  <2>1. /\ RelayTyped' /\ client'.faults \subseteq Allowed' /\ ClientFollows' /\ ConverterFollows'
        /\ (client'.ended => Over')
    BY <1>1, NothingIsWritten
  <2>2. EndsAgree' BY <1>1, <2>1 DEF RelayInv, EndsAgree
  <2> QED BY <2>1, <2>2 DEF RelayInv
<1>2. /\ money = "settled" => phase = "done"
      /\ money = "released" => phase \in {"failed", "interrupted"}
  BY DEF RelayInv, EndsAgree
<1>3. CASE Judge
  <2>1. Still /\ money' = money /\ money # "settled" /\ money # "released" BY <1>2, <1>3 DEF Judge
  <2> QED BY <1>1, <2>1
<1>4. CASE ConvertRequest
  <2>1. Still /\ money' = money /\ money # "settled" /\ money # "released"
    BY <1>2, <1>4 DEF ConvertRequest
  <2> QED BY <1>1, <2>1
<1>5. CASE ReserveMaximum
  <2>1. Still /\ (money' = "held" \/ money' = money) /\ money # "settled" /\ money # "released"
    BY <1>2, <1>5 DEF ReserveMaximum
  <2> QED BY <1>1, <2>1
<1>6. CASE Connect
  <2>1. /\ Still /\ (money' = money \/ (money' = "released" /\ phase' = "failed"))
        /\ money # "settled" /\ money # "released"
    BY <1>2, <1>6 DEF Connect
  <2> QED BY <1>1, <2>1
<1>7. CASE Interrupt
  <2>1. Still /\ money' = "released" /\ phase' = "interrupted" BY <1>7 DEF Interrupt
  <2> QED BY <1>1, <2>1
<1>8. CASE UNCHANGED relayVars
  <2>1. Still /\ money' = money /\ phase' = phase BY <1>8 DEF relayVars
  <2> QED BY <1>1, <1>2, <2>1
<1>9. CASE \E ch \in Chunks[call.sends] : DataLine(ch) BY <1>9, RelayDataLine
<1> QED BY <1>3, <1>4, <1>5, <1>6, <1>7, <1>8, <1>9, RelayComplete, RelayLeave, RelayForeignLine
  DEF RelayNext

LEMMA RelayInvariant == RelaySpec => []RelayInv
BY RelayInitially, RelayStep, PTL DEF RelaySpec

(* The protocol the client speaks is kept (handleStreaming's three outputs and *)
(* the stream converters): whatever the calls and whatever chunks the upstream *)
(* sends, in any number, the client of a conversion reads one start, blocks    *)
(* numbered in order, every delta inside an open block, every block closed     *)
(* once, nothing after the end, and every piece of the answer - but for the    *)
(* four exceptions of the code that AnswerArrivesWhole names.                  *)
THEOREM RelayKeepsTheAnswer == RelaySpec => []AnswerArrivesWhole
<1>1. RelayInv => AnswerArrivesWhole
  <2> SUFFICES ASSUME RelayInv PROVE AnswerArrivesWhole OBVIOUS
  <2>1. client.faults \subseteq Allowed BY DEF RelayInv
  <2>2. /\ OtherKind # SecondStart /\ OtherKind # NeverBegun /\ SecondStart # NeverBegun
        /\ NoEvent # OtherKind /\ NoEvent # SecondStart /\ NoEvent # NeverBegun
    BY DEF OtherKind, SecondStart, NeverBegun, NoEvent
  <2>3. /\ client.faults \subseteq {OtherKind, SecondStart, NeverBegun, NoEvent}
        /\ OtherKind \in client.faults => call.out = "claude" /\ up.resumed
        /\ SecondStart \in client.faults => call.out = "responses" /\ ~call.named
        /\ NeverBegun \in client.faults => ~up.chunked
        /\ NoEvent \in client.faults => up.foreign
    BY <2>1, <2>2 DEF Allowed
  <2>4. ~client.gone => client.got = up.parts BY DEF RelayInv, ClientFollows, Follows
  <2> QED BY <2>3, <2>4 DEF AnswerArrivesWhole, OtherKind, SecondStart, NeverBegun, NoEvent
<1> QED BY <1>1, RelayInvariant, PTL

(* The end and the money agree (chat.go's success and error paths after the    *)
(* scanner): a settled call was brought to its end, a released one was not     *)
(* unless the converter had ended it on finish and usage, a settlement from    *)
(* the last chunk had a report to settle from, and an estimate replaces a      *)
(* report only if that counts nothing or other data came after it.             *)
THEOREM RelaySettlesTheEnd == RelaySpec => []MoneyFollowsTheEnd
<1>1. RelayInv => MoneyFollowsTheEnd
  <2> SUFFICES ASSUME RelayInv PROVE MoneyFollowsTheEnd OBVIOUS
  <2>1. money = "settled" => client.ended \/ client.gone
    BY DEF RelayInv, ClientFollows, Follows, EndsAgree, Over
  <2>2. money = "released" /\ client.ended => conv.finish /\ conv.usage /\ up.reported
    <3> SUFFICES ASSUME money = "released", client.ended
                 PROVE  conv.finish /\ conv.usage /\ up.reported
      OBVIOUS
    <3>1. phase # "done" BY DEF RelayInv, EndsAgree
    <3>2. call.out # "openai" /\ conv.done BY <3>1 DEF RelayInv, EndsAgree, Over
    <3>3. conv.finish /\ conv.usage BY <3>1, <3>2 DEF RelayInv, ConverterFollows
    <3> QED BY <3>3 DEF RelayInv, EndsAgree
  <2>3. source = "final_chunk" => up.reported BY DEF RelayInv, EndsAgree
  <2>4. source = "estimated" /\ up.reported => tail = "plain" \/ ~HasUsage(Parsed(call.report))
    BY DEF RelayInv, EndsAgree
  <2> QED BY <2>1, <2>2, <2>3, <2>4 DEF MoneyFollowsTheEnd
<1> QED BY <1>1, RelayInvariant, PTL
-----------------------------------------------------------------------------
(* The hold and the charge.                                                  *)

PromptParts == [kind : PartKinds, tokens : Nat]

\* The message a conversion leaves where it keeps nothing.
LEMMA EmptyMessageTyped == EmptyMessage \in PromptParts
BY DEF PromptParts, PartKinds, EmptyMessage

\* A list stays a list when an element is appended.
LEMMA Appended ==
  ASSUME NEW S, NEW s \in Seq(S), NEW e \in S
  PROVE  Append(s, e) \in Seq(S)
OBVIOUS

\* A prompt has a number of tokens.
LEMMA PromptCounted ==
  ASSUME NEW prompt \in Seq(PromptParts)
  PROVE  /\ Estimated(prompt).input \in Nat \ {0} /\ Estimated(prompt).output = FallbackOutput
         /\ Estimated(prompt) \in [Dims \cup {"total"} -> Nat]
<1> DEFINE n == Len(prompt)
<1>1. n \in Nat /\ DOMAIN prompt = 1..n OBVIOUS
<1>2. PICK r : IsRun("count", 0, 0, prompt, n, r) /\ FoldLeft(Counted, 0, prompt) = r[n]
  BY <1>1, CountRuns
<1> DEFINE N == {i \in Nat : i <= n => r[i] \in Nat}
<1>3. 0 \in N BY <1>2 DEF IsRun
<1>4. ASSUME NEW i \in N PROVE i + 1 \in N
  <2>1. i \in Nat /\ i + 1 \in Nat /\ (i + 1) - 1 = i OBVIOUS
  <2>2. SUFFICES ASSUME i + 1 <= n PROVE r[i + 1] \in Nat BY <2>1
  <2>3. i + 1 \in 1..n /\ r[i] \in Nat BY <1>1, <2>1, <2>2
  <2> DEFINE part == prompt[i + 1]
  <2>4. part \in PromptParts BY <1>1, <2>3
  <2>5. r[i + 1] = r[i] + PartTokens(part)
    <3>1. r[i + 1] = Applied("count", 0, r[(i + 1) - 1], part) BY <1>2, <2>3 DEF IsRun
    <3> QED BY <2>1, <3>1 DEF Applied, Counted
  <2> HIDE DEF part
  <2>6. PartTokens(part) \in Nat
    <3>1. part.tokens \in Nat BY <2>4 DEF PromptParts
    <3>2. ImageHold \in Nat /\ AudioHold \in Nat BY HoldAssumption
    <3> QED BY <3>1, <3>2 DEF PartTokens
  <2> QED BY <2>3, <2>5, <2>6
<1>5. N \in SUBSET Nat OBVIOUS
<1> HIDE DEF N
<1>6. n \in N BY <1>1, <1>3, <1>4, <1>5, EveryNatural
<1>7. r[n] \in Nat BY <1>1, <1>6 DEF N
<1> DEFINE in == IF r[n] = 0 THEN 1 ELSE r[n]
<1>8. in \in Nat \ {0} BY <1>7
<1>9. FallbackOutput \in Nat /\ FallbackOutput >= 2 BY HoldAssumption
<1> HIDE DEF in
<1>10. CASE prompt = << >>
  <2>1. PICK half \in Nat \ {0} : half = FallbackOutput \div 2 BY <1>9
  <2>2. PICK u : u = [Tokens(half, FallbackOutput) EXCEPT !.total = 0] OBVIOUS
  <2>3. Estimated(prompt) = u BY <1>10, <2>1, <2>2 DEF Estimated
  <2>4. u.input = half /\ u.output = FallbackOutput BY <2>2 DEF Tokens
  <2>5. u \in [Dims \cup {"total"} -> Nat] BY <1>9, <2>1, <2>2 DEF Tokens, Dims
  <2> QED BY <2>1, <2>3, <2>4, <2>5
<1>11. CASE prompt # << >>
  <2>1. Estimated(prompt) = Tokens(in, FallbackOutput) BY <1>2, <1>11 DEF Estimated, in
  <2>2. Tokens(in, FallbackOutput).input = in /\ Tokens(in, FallbackOutput).output = FallbackOutput
    BY DEF Tokens
  <2>3. Tokens(in, FallbackOutput) \in [Dims \cup {"total"} -> Nat]
    BY <1>8, <1>9 DEF Tokens, Dims
  <2> QED BY <1>8, <2>1, <2>2, <2>3
<1> QED BY <1>10, <1>11

\* What a conversion keeps of a prompt is a prompt.
LEMMA KeptOfMessagesTyped ==
  ASSUME NEW prompt \in Seq(PromptParts)
  PROVE  ClaudeToOpenAIRequest(prompt) \in Seq(PromptParts)
<1> DEFINE n == Len(prompt)
<1>1. n \in Nat /\ DOMAIN prompt = 1..n OBVIOUS
<1>2. PICK r : IsRun("keep_messages", 0, << >>, prompt, n, r) /\ FoldLeft(KeptOfMessages, << >>, prompt) = r[n]
  BY <1>1, MessagesRequestRuns
<1> DEFINE N == {i \in Nat : i <= n => r[i] \in Seq(PromptParts)}
<1>10. r[0] = << >> BY <1>2 DEF IsRun
<1>11. << >> \in Seq(PromptParts) OBVIOUS
<1>12. r[0] \in Seq(PromptParts) BY <1>10, <1>11
<1>3. 0 \in N BY <1>12
<1>4. ASSUME NEW i \in N PROVE i + 1 \in N
  <2>1. i \in Nat /\ i + 1 \in Nat /\ (i + 1) - 1 = i OBVIOUS
  <2>2. SUFFICES ASSUME i + 1 <= n PROVE r[i + 1] \in Seq(PromptParts) BY <2>1
  <2>3. i + 1 \in 1..n /\ r[i] \in Seq(PromptParts) BY <1>1, <2>1, <2>2
  <2>4. prompt[i + 1] \in PromptParts BY <1>1, <2>3
  <2>5. r[i + 1] = KeptOfMessages(r[i], prompt[i + 1])
    <3>1. r[i + 1] = Applied("keep_messages", 0, r[(i + 1) - 1], prompt[i + 1]) BY <1>2, <2>3 DEF IsRun
    <3> QED BY <2>1, <3>1 DEF Applied
  <2>6. EmptyMessage \in PromptParts BY EmptyMessageTyped
  <2>7. PICK e \in PromptParts : r[i + 1] = r[i] \/ r[i + 1] = Append(r[i], e)
    BY <2>4, <2>5, <2>6 DEF KeptOfMessages
  <2>8. PICK kept \in Seq(PromptParts) : kept = r[i] BY <2>3
  <2>9. Append(kept, e) \in Seq(PromptParts) BY Appended
  <2> QED BY <2>7, <2>8, <2>9
<1>5. N \in SUBSET Nat OBVIOUS
<1> HIDE DEF N
<1>6. n \in N BY <1>1, <1>3, <1>4, <1>5, EveryNatural
<1> QED BY <1>1, <1>2, <1>6 DEF N, ClaudeToOpenAIRequest

LEMMA KeptOfResponsesTyped ==
  ASSUME NEW prompt \in Seq(PromptParts)
  PROVE  ResponsesRequestToOpenAIChatRequest(prompt) \in Seq(PromptParts)
<1> DEFINE n == Len(prompt)
<1>1. n \in Nat /\ DOMAIN prompt = 1..n OBVIOUS
<1>2. PICK r : IsRun("keep_responses", 0, << >>, prompt, n, r) /\ FoldLeft(KeptOfResponses, << >>, prompt) = r[n]
  BY <1>1, ResponsesRequestRuns
<1> DEFINE N == {i \in Nat : i <= n => r[i] \in Seq(PromptParts)}
<1>10. r[0] = << >> BY <1>2 DEF IsRun
<1>11. << >> \in Seq(PromptParts) OBVIOUS
<1>12. r[0] \in Seq(PromptParts) BY <1>10, <1>11
<1>3. 0 \in N BY <1>12
<1>4. ASSUME NEW i \in N PROVE i + 1 \in N
  <2>1. i \in Nat /\ i + 1 \in Nat /\ (i + 1) - 1 = i OBVIOUS
  <2>2. SUFFICES ASSUME i + 1 <= n PROVE r[i + 1] \in Seq(PromptParts) BY <2>1
  <2>3. i + 1 \in 1..n /\ r[i] \in Seq(PromptParts) BY <1>1, <2>1, <2>2
  <2>4. prompt[i + 1] \in PromptParts BY <1>1, <2>3
  <2>5. r[i + 1] = KeptOfResponses(r[i], prompt[i + 1])
    <3>1. r[i + 1] = Applied("keep_responses", 0, r[(i + 1) - 1], prompt[i + 1]) BY <1>2, <2>3 DEF IsRun
    <3> QED BY <2>1, <3>1 DEF Applied
  <2>6. EmptyMessage \in PromptParts BY EmptyMessageTyped
  <2>7. PICK e \in PromptParts : r[i + 1] = Append(r[i], e)
    BY <2>4, <2>5, <2>6 DEF KeptOfResponses
  <2>8. PICK kept \in Seq(PromptParts) : kept = r[i] BY <2>3
  <2>9. Append(kept, e) \in Seq(PromptParts) BY Appended
  <2> QED BY <2>7, <2>8, <2>9
<1>5. N \in SUBSET Nat OBVIOUS
<1> HIDE DEF N
<1>6. n \in N BY <1>1, <1>3, <1>4, <1>5, EveryNatural
<1> QED BY <1>1, <1>2, <1>6 DEF N, ResponsesRequestToOpenAIChatRequest

\* The list cost of a set of dimensions.
Listed(rows, period, ratio, usage, S) ==
  FoldSet(LAMBDA d, sum : sum + Share(rows, d, period, ratio, usage), 0, S)

\* Over two dimensions it is the sum of two shares.
LEMMA CostOfTwo ==
  ASSUME NEW rows, NEW period, NEW ratio, NEW usage, NEW S \in SUBSET {"input", "output"},
         \A d \in S : Share(rows, d, period, ratio, usage) \in Nat
  PROVE  Listed(rows, period, ratio, usage, S)
         = (IF "input" \in S THEN Share(rows, "input", period, ratio, usage) ELSE 0)
           + (IF "output" \in S THEN Share(rows, "output", period, ratio, usage) ELSE 0)
<1> DEFINE sh(d) == Share(rows, d, period, ratio, usage)
           part(d, s) == IF d \in s THEN sh(d) ELSE 0
           iter[s \in SUBSET S] ==
             IF s = {} THEN 0 ELSE LET y == CHOOSE y \in s : TRUE IN iter[s \ {y}] + sh(y)
           g == [s \in SUBSET S |-> part("input", s) + part("output", s)]
<1>1. Listed(rows, period, ratio, usage, S) = iter[S]
  BY DEF Listed, FoldSet, MapThenFoldSet
<1>2. \A d \in S : sh(d) \in Nat OBVIOUS
<1> HIDE DEF sh
<1>3. ASSUME NEW s \in SUBSET S, s # {}
      PROVE  g[s] = g[s \ {CHOOSE y \in s : TRUE}] + sh(CHOOSE y \in s : TRUE)
  <2>1. PICK y : y = (CHOOSE z \in s : TRUE) /\ y \in s BY <1>3
  <2>2. y \in {"input", "output"} BY <2>1
  <2>3. sh(y) \in Nat BY <1>2, <2>1
  <2>4. s \ {y} \in SUBSET S OBVIOUS
  <2>5. g[s] = part("input", s) + part("output", s) OBVIOUS
  <2>6. g[s \ {y}] = part("input", s \ {y}) + part("output", s \ {y}) BY <2>4
  <2>7. CASE y = "input"
    <3>1. part("input", s) = sh(y) /\ part("input", s \ {y}) = 0 BY <2>1, <2>7
    <3>2. part("output", s) = part("output", s \ {y}) BY <2>7
    <3>3. part("output", s) \in Nat BY <1>2
    <3> QED BY <2>1, <2>3, <2>5, <2>6, <3>1, <3>2, <3>3
  <2>8. CASE y = "output"
    <3>1. part("output", s) = sh(y) /\ part("output", s \ {y}) = 0 BY <2>1, <2>8
    <3>2. part("input", s) = part("input", s \ {y}) BY <2>8
    <3>3. part("input", s) \in Nat BY <1>2
    <3> QED BY <2>1, <2>3, <2>5, <2>6, <3>1, <3>2, <3>3
  <2> QED BY <2>2, <2>7, <2>8
<1>4. {} \in SUBSET S /\ g[{}] = 0 OBVIOUS
<1>5. g = [s \in SUBSET S |->
            IF s = {} THEN 0 ELSE g[s \ {CHOOSE y \in s : TRUE}] + sh(CHOOSE y \in s : TRUE)]
  <2> DEFINE f == [s \in SUBSET S |->
               IF s = {} THEN 0 ELSE g[s \ {CHOOSE y \in s : TRUE}] + sh(CHOOSE y \in s : TRUE)]
  <2>1. DOMAIN g = SUBSET S /\ DOMAIN f = SUBSET S OBVIOUS
  <2>2. ASSUME NEW s \in SUBSET S PROVE g[s] = f[s]
    <3>1. CASE s = {} BY <1>4, <3>1
    <3>2. CASE s # {} BY <1>3, <3>2
    <3> QED BY <3>1, <3>2
  <2> QED BY <2>1, <2>2
<1>6. iter = [s \in SUBSET S |->
               IF s = {} THEN 0 ELSE iter[s \ {CHOOSE y \in s : TRUE}] + sh(CHOOSE y \in s : TRUE)]
  BY <1>5
<1> HIDE DEF iter
<1>7. iter[{}] = 0 BY <1>6
<1>8. ASSUME NEW d \in S PROVE iter[{d}] = sh(d)
  <2>1. (CHOOSE y \in {d} : TRUE) = d OBVIOUS
  <2>2. {d} \in SUBSET S /\ {d} # {} /\ {d} \ {d} = {} OBVIOUS
  <2>3. iter[{d}] = iter[{}] + sh(d) BY <1>6, <2>1, <2>2
  <2>4. PICK n \in Nat : n = sh(d) BY <1>2
  <2> QED BY <1>7, <2>3, <2>4
<1>9. CASE S = {}
  <2>1. iter[S] = 0 BY <1>7, <1>9
  <2>2. part("input", S) = 0 /\ part("output", S) = 0 BY <1>9
  <2>3. iter[S] = part("input", S) + part("output", S) BY <2>1, <2>2
  <2> QED BY <1>1, <2>3 DEF sh
<1>10. ASSUME NEW d, NEW e, S = {d}, {d, e} = {"input", "output"} PROVE iter[S] = part(d, S) + part(e, S)
  <2>1. d \in S /\ e \notin S BY <1>10
  <2>2. part(d, S) = sh(d) /\ part(e, S) = 0 BY <2>1
  <2>3. PICK n \in Nat : n = sh(d) BY <1>2, <2>1
  <2>4. n + 0 = n BY <2>3
  <2> QED BY <1>8, <1>10, <2>1, <2>2, <2>3, <2>4
<1>11. CASE S = {"input", "output"}
  <2>1. PICK y : y = (CHOOSE z \in S : TRUE) /\ y \in S BY <1>11
  <2>2. PICK e \in S : S \ {y} = {e} /\ {y, e} = {"input", "output"} BY <1>11, <2>1
  <2>3. S # {} /\ S \in SUBSET S BY <1>11
  <2>4. iter[S] = iter[S \ {y}] + sh(y) BY <1>6, <2>1, <2>3
  <2>5. iter[S] = sh(e) + sh(y) BY <1>8, <2>2, <2>4
  <2>6. PICK m \in Nat : m = sh(y) BY <1>2, <2>1
  <2>7. PICK n \in Nat : n = sh(e) BY <1>2, <2>2
  <2>8. iter[S] = m + n /\ m + n = n + m BY <2>5, <2>6, <2>7
  <2>9. part("input", S) = sh("input") /\ part("output", S) = sh("output") BY <1>11
  <2>10. CASE y = "input" /\ e = "output" BY <1>1, <2>6, <2>7, <2>8, <2>9, <2>10 DEF sh
  <2>11. CASE y = "output" /\ e = "input" BY <1>1, <2>6, <2>7, <2>8, <2>9, <2>11 DEF sh
  <2> QED BY <2>2, <2>10, <2>11
<1>12. CASE S = {"input"}
  <2>1. iter[S] = part("input", S) + part("output", S) BY <1>10, <1>12
  <2> QED BY <1>1, <2>1 DEF sh
<1>13. CASE S = {"output"}
  <2>1. iter[S] = part("output", S) + part("input", S) BY <1>10, <1>13
  <2>2. part("output", S) \in Nat /\ part("input", S) \in Nat BY <1>2
  <2>3. PICK m \in Nat, n \in Nat : m = part("output", S) /\ n = part("input", S) BY <2>2
  <2>4. iter[S] = part("input", S) + part("output", S) BY <2>1, <2>3
  <2> QED BY <1>1, <2>4 DEF sh
<1> QED BY <1>9, <1>11, <1>12, <1>13

\* Prices are natural numbers, and depend on no more of a usage than its total.
LEMMA PricesTyped ==
  ASSUME NEW c \in RelayCalls, NEW d, NEW period, NEW u
  PROVE  Prices(c.rows, d, period, u) \subseteq Nat
<1>1. \A i \in DOMAIN c.rows : c.rows[i].price \in Nat \cup {Malformed} BY RelayCallsAssumption
<1>2. \A type : Best(c.rows, type, d, period, u) \subseteq DOMAIN c.rows BY DEF Best
<1>3. \A type : {c.rows[i].price : i \in Best(c.rows, type, d, period, u)} \ {Malformed} \subseteq Nat
  BY <1>1, <1>2
<1> QED BY <1>3 DEF Prices

LEMMA PricesByTotal ==
  ASSUME NEW rows, NEW d, NEW period, NEW u, NEW v, u.total = v.total
  PROVE  Prices(rows, d, period, u) = Prices(rows, d, period, v)
<1>1. \A row : ConditionsMatch(row, u) <=> ConditionsMatch(row, v) BY DEF ConditionsMatch
<1>2. ASSUME NEW type PROVE Best(rows, type, d, period, u) = Best(rows, type, d, period, v)
  <2> DEFINE fit(w) == {i \in DOMAIN rows : rows[i].dim = d /\ rows[i].type = type /\ ConditionsMatch(rows[i], w)}
             top(F) == {i \in F : \A j \in F : \/ RowScore(rows[i], period) < RowScore(rows[j], period)
                                              \/ (RowScore(rows[i], period) = RowScore(rows[j], period) /\ i <= j)}
  <2>1. fit(u) = fit(v) BY <1>1
  <2>2. Best(rows, type, d, period, u) = top(fit(u)) /\ Best(rows, type, d, period, v) = top(fit(v))
    BY DEF Best
  <2> HIDE DEF fit, top
  <2> QED BY <2>1, <2>2
<1> DEFINE valid(w, type) == {rows[i].price : i \in Best(rows, type, d, period, w)} \ {Malformed}
<1>3. \A type : valid(u, type) = valid(v, type) BY <1>2
<1>4. \A w : Prices(rows, d, period, w) = IF valid(w, "sell") # {} THEN valid(w, "sell") ELSE valid(w, "cost")
  BY DEF Prices
<1> HIDE DEF valid
<1> QED BY <1>3, <1>4

\* A volume ratio is a natural number.
LEMMA RatioTyped ==
  ASSUME NEW c \in RelayCalls, NEW month
  PROVE  VolumeRatio(c.tiers, month) \in Nat
<1> DEFINE reached == {i \in DOMAIN c.tiers : c.tiers[i].min <= month}
<1> DEFINE T == [min : Nat, ratio : Nat \ {0}]
<1>1. c.tiers \in Seq(T) BY RelayCallsAssumption
<1>2. PICK n \in Nat : DOMAIN c.tiers = 1..n BY <1>1
<1>6. \A t \in T : t.ratio \in Nat OBVIOUS
<1> HIDE DEF T
<1>3. \A i \in DOMAIN c.tiers : c.tiers[i].ratio \in Nat
  <2> TAKE i \in DOMAIN c.tiers
  <2>1. PICK x : x = c.tiers OBVIOUS
  <2>2. x \in Seq(T) /\ i \in DOMAIN x BY <1>1, <2>1
  <2>3. x[i] \in T BY <2>2
  <2> QED BY <1>6, <2>1, <2>3
<1>4. CASE reached = {} BY <1>4 DEF VolumeRatio, One
<1>5. CASE reached # {}
  <2>1. reached \in SUBSET (1..n) BY <1>2
  <2>2. Max(reached) \in reached BY <1>5, <2>1, MaxIsMember
  <2>3. c.tiers[Max(reached)].ratio \in Nat BY <1>3, <2>2
  <2> QED BY <1>5, <2>3 DEF VolumeRatio
<1> QED BY <1>4, <1>5

\* What a dimension adds to the list cost, if anything.
Added(rows, d, period, ratio, u) ==
  IF Billable(rows, d, period, u) /\ Prices(rows, d, period, u) # {}
  THEN Share(rows, d, period, ratio, u) ELSE 0

LEMMA AddedTyped ==
  ASSUME NEW c \in RelayCalls, NEW d, NEW period, NEW ratio \in Nat, NEW u, u[d] \in Nat
  PROVE  Added(c.rows, d, period, ratio, u) \in Nat
<1>1. CASE Prices(c.rows, d, period, u) # {}
  <2>1. PICK p : p = (CHOOSE q \in Prices(c.rows, d, period, u) : TRUE) /\ p \in Nat
    BY <1>1, PricesTyped
  <2>2. PICK n \in Nat : n = u[d] OBVIOUS
  <2>3. ratio * n * p \in Nat BY <2>1
  <2>4. Share(c.rows, d, period, ratio, u) \in Nat BY <2>1, <2>2, <2>3 DEF Share
  <2> QED BY <2>4 DEF Added
<1>2. CASE Prices(c.rows, d, period, u) = {} BY <1>2 DEF Added
<1> QED BY <1>1, <1>2

\* A usage of no other dimensions costs what input and output add.
LEMMA CostOfUsage ==
  ASSUME NEW c \in RelayCalls, NEW period, NEW ratio \in Nat, NEW u,
         u["input"] \in Nat, u["output"] \in Nat,
         \A d \in Dims \ {"input", "output"} : ~Billable(c.rows, d, period, u)
  PROVE  Cost(c.rows, period, ratio, u).list
         = Added(c.rows, "input", period, ratio, u) + Added(c.rows, "output", period, ratio, u)
<1> DEFINE S == {d \in {e \in Dims : Billable(c.rows, e, period, u)} : Prices(c.rows, d, period, u) # {}}
<1>1. S \in SUBSET {"input", "output"} BY DEF Dims
<1>2. Cost(c.rows, period, ratio, u).list = Listed(c.rows, period, ratio, u, S)
  BY DEF Cost, Listed
<1>3. \A d \in {"input", "output"} :
        d \in S <=> Billable(c.rows, d, period, u) /\ Prices(c.rows, d, period, u) # {}
  BY DEF Dims
<1> HIDE DEF S
<1>4. \A d \in S : Share(c.rows, d, period, ratio, u) \in Nat
  <2> TAKE d \in S
  <2>1. d \in {"input", "output"} BY <1>1
  <2>2. u[d] \in Nat BY <2>1
  <2>3. Added(c.rows, d, period, ratio, u) \in Nat BY <2>2, AddedTyped
  <2>4. Added(c.rows, d, period, ratio, u) = Share(c.rows, d, period, ratio, u)
    BY <1>3, <2>1 DEF Added
  <2> QED BY <2>3, <2>4
<1>5. Listed(c.rows, period, ratio, u, S)
      = (IF "input" \in S THEN Share(c.rows, "input", period, ratio, u) ELSE 0)
        + (IF "output" \in S THEN Share(c.rows, "output", period, ratio, u) ELSE 0)
  BY <1>1, <1>4, CostOfTwo
<1>6. /\ (IF "input" \in S THEN Share(c.rows, "input", period, ratio, u) ELSE 0)
         = Added(c.rows, "input", period, ratio, u)
      /\ (IF "output" \in S THEN Share(c.rows, "output", period, ratio, u) ELSE 0)
         = Added(c.rows, "output", period, ratio, u)
  BY <1>3 DEF Added
<1> QED BY <1>2, <1>5, <1>6

LEMMA ProductRises ==
  ASSUME NEW r \in Nat, NEW a \in Nat, NEW b \in Nat, NEW p \in Nat, NEW q \in Nat,
         a <= b, p <= q
  PROVE  r * a * p <= r * b * q
<1>1. r * a <= r * b OBVIOUS
<1>2. PICK m \in Nat, n \in Nat : m = r * a /\ n = r * b /\ m <= n BY <1>1
<1>3. m * p <= n * p BY <1>2
<1>4. n * p <= n * q OBVIOUS
<1>5. m * p \in Nat /\ n * p \in Nat /\ n * q \in Nat OBVIOUS
<1>6. m * p <= n * q BY <1>3, <1>4, <1>5
<1> QED BY <1>2, <1>6

\* What is added rises with the tokens and the price.
LEMMA AddedRises ==
  ASSUME NEW c \in RelayCalls, NEW d, NEW period, NEW ratio \in Nat, NEW u, NEW h,
         u[d] \in Nat, h[d] \in Nat, u[d] <= h[d],
         Billable(c.rows, d, period, h), Prices(c.rows, d, period, h) # {},
         \A p \in Prices(c.rows, d, period, u), q \in Prices(c.rows, d, period, h) : p <= q
  PROVE  Added(c.rows, d, period, ratio, u) <= Added(c.rows, d, period, ratio, h)
<1>1. Added(c.rows, d, period, ratio, h) \in Nat BY AddedTyped
<1>2. CASE ~(Billable(c.rows, d, period, u) /\ Prices(c.rows, d, period, u) # {})
  <2>1. Added(c.rows, d, period, ratio, u) = 0 BY <1>2 DEF Added
  <2>2. PICK n \in Nat : n = Added(c.rows, d, period, ratio, h) BY <1>1
  <2> QED BY <2>1, <2>2
<1>3. CASE Billable(c.rows, d, period, u) /\ Prices(c.rows, d, period, u) # {}
  <2>1. PICK p : /\ p = (CHOOSE x \in Prices(c.rows, d, period, u) : TRUE)
                 /\ p \in Prices(c.rows, d, period, u) /\ p \in Nat
    BY <1>3, PricesTyped
  <2>2. PICK q : /\ q = (CHOOSE x \in Prices(c.rows, d, period, h) : TRUE)
                 /\ q \in Prices(c.rows, d, period, h) /\ q \in Nat
    BY PricesTyped
  <2>3. p <= q BY <2>1, <2>2
  <2>4. PICK a \in Nat, b \in Nat : a = u[d] /\ b = h[d] OBVIOUS
  <2>5. a <= b BY <2>4
  <2>6. ratio * a * p <= ratio * b * q BY <2>1, <2>2, <2>3, <2>5, ProductRises
  <2>7. Added(c.rows, d, period, ratio, u) = ratio * a * p BY <1>3, <2>1, <2>4 DEF Added, Share
  <2>8. Added(c.rows, d, period, ratio, h) = ratio * b * q BY <2>2, <2>4 DEF Added, Share
  <2> QED BY <2>6, <2>7, <2>8
<1> QED BY <1>2, <1>3

\* What the hold is computed from, for an output that did not overflow.
LEMMA HoldUsageTyped ==
  ASSUME NEW prompt \in Seq(PromptParts), NEW output \in Nat \ {0},
         NEW h, h = HoldUsage(prompt, output)
  PROVE  /\ h.input \in Nat \ {0} /\ h.input = Estimated(prompt).input
         /\ h.output = output /\ h.total = h.input + h.output
         /\ \A d \in Dims \ {"input", "output"} : h[d] = 0
<1>1. PICK n \in Nat \ {0} : n = Estimated(prompt).input BY PromptCounted
<1>2. h = Tokens(n, output) BY <1>1 DEF HoldUsage
<1>3. h.input = n /\ h.output = output /\ h.total = n + output BY <1>2 DEF Tokens
<1>4. \A d \in Dims \ {"input", "output"} : h[d] = 0 BY <1>2 DEF Tokens, Dims
<1> QED BY <1>1, <1>3, <1>4

\* A declaration that int64 holds is capped and never lost.
LEMMA HoldOutputIs ==
  ASSUME NEW declared \in Int, declared < Int64Limit,
         NEW wanted, wanted = IF declared > 0 THEN declared ELSE FallbackOutput,
         NEW output, output = IF wanted > OutputCap THEN OutputCap ELSE wanted
  PROVE  output \in Nat \ {0} /\ \A n \in HoldOutput(declared) : n = output
<1>1. /\ OutputCap \in Nat /\ FallbackOutput \in Nat
      /\ 2 <= FallbackOutput /\ FallbackOutput <= OutputCap
  BY HoldAssumption
<1>2. CASE declared < 1
  <2>1. HoldOutput(declared) = {FallbackOutput} BY <1>2 DEF HoldOutput
  <2> QED BY <1>1, <1>2, <2>1
<1>3. CASE ~(declared < 1)
  <2>1. HoldOutput(declared) = {IF n > OutputCap THEN OutputCap ELSE n : n \in Int64(declared)}
    BY <1>3 DEF HoldOutput
  <2>2. Int64(declared) = {declared} BY DEF Int64
  <2>3. HoldOutput(declared) = {IF declared > OutputCap THEN OutputCap ELSE declared} BY <2>1, <2>2
  <2> QED BY <1>1, <1>3, <2>3
<1> QED BY <1>2, <1>3

\* A hold is at least what its usage costs, and a priced one prices both dimensions.
HeldFor(rows, period, ratio, asked, h) ==
  /\ asked.amount \in Nat
  /\ asked.amount >= Added(rows, "input", period, ratio, h) + Added(rows, "output", period, ratio, h)
  /\ asked.priced => \A d \in {"input", "output"} :
                      Billable(rows, d, period, h) /\ Prices(rows, d, period, h) # {}

LEMMA HoldTyped ==
  ASSUME NEW c \in RelayCalls, NEW prompt \in Seq(PromptParts), NEW period, NEW ratio \in Nat,
         NEW output \in Nat \ {0}, NEW h, h = HoldUsage(prompt, output)
  PROVE  HeldFor(c.rows, period, ratio, Hold(c.rows, period, ratio, prompt, output), h)
<1>2. /\ h.input \in Nat \ {0} /\ h.output \in Nat \ {0}
      /\ \A d \in Dims \ {"input", "output"} : h[d] = 0
  BY HoldUsageTyped
<1>3. \A d \in Dims \ {"input", "output"} : ~Billable(c.rows, d, period, h)
  BY <1>2 DEF Billable
<1>4. \A d \in {"input", "output"} : h[d] > 0 BY <1>2
<1>5. \A d \in {"input", "output"} : Billable(c.rows, d, period, h)
  BY <1>4 DEF Billable
<1>6. h["input"] \in Nat /\ h["output"] \in Nat BY <1>2
<1>7. PICK i \in Nat : i = Added(c.rows, "input", period, ratio, h) BY <1>6, AddedTyped
<1>8. PICK o \in Nat : o = Added(c.rows, "output", period, ratio, h) BY <1>6, AddedTyped
<1>14. Cost(c.rows, period, ratio, h).list
       = Added(c.rows, "input", period, ratio, h) + Added(c.rows, "output", period, ratio, h)
  BY <1>3, <1>6, CostOfUsage
<1>9. Cost(c.rows, period, ratio, h).list = i + o BY <1>7, <1>8, <1>14
<1>10. Hold(c.rows, period, ratio, prompt, output).amount = IF i + o < MinHold THEN MinHold ELSE i + o
  BY <1>9 DEF Hold
<1>11. MinHold \in Nat BY HoldAssumption
<1>12. /\ Hold(c.rows, period, ratio, prompt, output).amount \in Nat
       /\ Hold(c.rows, period, ratio, prompt, output).amount >= i + o
  BY <1>10, <1>11
<1>13. ASSUME Hold(c.rows, period, ratio, prompt, output).priced
       PROVE  \A d \in {"input", "output"} : Prices(c.rows, d, period, h) # {}
  <2>1. Cost(c.rows, period, ratio, h).missing = {} BY <1>13 DEF Hold
  <2>2. Cost(c.rows, period, ratio, h).missing
        = {d \in {e \in Dims : Billable(c.rows, e, period, h)} : Prices(c.rows, d, period, h) = {}}
    BY DEF Cost
  <2> QED BY <1>5, <2>1, <2>2 DEF Dims
<1> QED BY <1>5, <1>7, <1>8, <1>12, <1>13 DEF HeldFor

\* What a settlement is computed from.
LEMMA ParsedTyped ==
  ASSUME NEW c \in RelayCalls
  PROVE  /\ Parsed(c.report).input \in Nat /\ Parsed(c.report).output \in Nat
         /\ Parsed(c.report).total \in Nat
<1>1. PICK raw : raw = c.report /\ raw \in [Dims \cup {"total"} -> Int] BY RelayCallsAssumption
<1>2. PICK i \in Int, o \in Int, r \in Int, w \in Int, t \in Int :
        i = raw.input /\ o = raw.output /\ r = raw.cache_read /\ w = raw.cache_write /\ t = raw.total
  BY <1>1 DEF Dims
<1> DEFINE atLeast(n) == IF n < 0 THEN 0 ELSE n
           within(n, top) == IF n < 0 THEN 0 ELSE IF n > top THEN top ELSE n
           cached == within(r, atLeast(i))
           written == within(w, atLeast(atLeast(i) - cached))
<1>3. atLeast(i) \in Nat /\ atLeast(o) \in Nat OBVIOUS
<1>4. cached \in Nat OBVIOUS
<1>5. written \in Nat OBVIOUS
<1>6. /\ Parsed(raw).input = atLeast(i) /\ Parsed(raw).output = atLeast(o)
      /\ Parsed(raw).total = IF t > 0 THEN t ELSE atLeast(i) + atLeast(o) + cached + written
  BY <1>2 DEF Parsed
<1> HIDE DEF atLeast, cached, written
<1>7. Parsed(raw).total \in Nat BY <1>2, <1>3, <1>4, <1>5, <1>6
<1> QED BY <1>1, <1>3, <1>6, <1>7

LEMMA SettledTyped ==
  ASSUME call \in RelayCalls, sent \in Seq(PromptParts)
  PROVE  SettledUsage.input \in Nat /\ SettledUsage.output \in Nat /\ SettledUsage.total \in Nat
<1>1. CASE tail = "usage" /\ HasUsage(Parsed(call.report))
  BY <1>1, ParsedTyped DEF SettledUsage
<1>2. CASE ~(tail = "usage" /\ HasUsage(Parsed(call.report)))
  <2>1. SettledUsage = Estimated(sent) BY <1>2 DEF SettledUsage
  <2>2. FallbackOutput \in Nat BY HoldAssumption
  <2> QED BY <2>1, <2>2, PromptCounted
<1> QED BY <1>1, <1>2

\* The hold is the one computed before the call, the charge the one computed
\* after it.
HoldTaken ==
  \E output \in HoldOutput(call.declared) :
    LET most == Hold(call.rows, call.before.period, VolumeRatio(call.tiers, call.before.month),
                     sent, output)
    IN  most.priced /\ amount = most.amount

AskedFor ==
  LET cost == Cost(call.rows, call.after.period, VolumeRatio(call.tiers, call.after.month),
                   SettledUsage)
  IN  IF cost.missing # {} THEN amount ELSE cost.list

HoldInv ==
  /\ call \in RelayCalls /\ sent \in Seq(PromptParts)
  /\ money # "none" => phase \notin {"asked", "admitted"} /\ HoldTaken
  /\ phase \in {"held", "streaming"} => money = "held"
  /\ money = "settled" => phase = "done" /\ charge \in {0, AskedFor}

LEMMA HoldInitially == RelayInit => HoldInv
<1> SUFFICES ASSUME RelayInit PROVE HoldInv OBVIOUS
<1>1. << >> \in Seq(PromptParts) OBVIOUS
<1> QED BY <1>1 DEF RelayInit, HoldInv

LEMMA HoldStep == HoldInv /\ [RelayNext]_relayVars => HoldInv'
<1> SUFFICES ASSUME HoldInv, [RelayNext]_relayVars PROVE HoldInv' OBVIOUS
<1> USE DEF HoldInv
<1>1. ASSUME call' = call, sent' = sent, amount' = amount PROVE HoldTaken' = HoldTaken
  BY <1>1 DEF HoldTaken
<1>2. ASSUME call' = call, sent' = sent, amount' = amount, tail' = tail PROVE AskedFor' = AskedFor
  BY <1>2 DEF AskedFor, SettledUsage
<1>3. call.prompt \in Seq(PromptParts) BY RelayCallsAssumption DEF PromptParts
<1>4. CASE Judge
  <2>1. call' = call /\ sent' = call.prompt /\ money' = money /\ phase = "asked"
        /\ phase' \in {"refused", "admitted"}
    BY <1>4 DEF Judge
  <2>2. money = "none" BY <2>1
  <2> QED BY <1>3, <2>1, <2>2
<1>5. CASE ConvertRequest
  <2>1. /\ call' = call /\ money' = money /\ phase = "asked" /\ phase' \in {"refused", "admitted"}
        /\ \/ sent' = sent
           \/ sent' = ClaudeToOpenAIRequest(call.prompt)
           \/ sent' = ResponsesRequestToOpenAIChatRequest(call.prompt)
    BY <1>5 DEF ConvertRequest
  <2>2. money = "none" BY <2>1
  <2>3. sent' \in Seq(PromptParts) BY <1>3, <2>1, KeptOfMessagesTyped, KeptOfResponsesTyped
  <2> QED BY <2>1, <2>2, <2>3
<1>6. CASE ReserveMaximum
  <2>1. call' = call /\ sent' = sent /\ phase = "admitted" BY <1>6 DEF ReserveMaximum
  <2>2. money = "none" BY <2>1
  <2>3. CASE phase' = "held" /\ money' = "held" /\ HoldTaken' BY <2>1, <2>3
  <2>4. CASE phase' = "refused" /\ money' = money BY <2>1, <2>2, <2>4
  <2>5. \/ phase' = "held" /\ money' = "held" /\ HoldTaken'
        \/ phase' = "refused" /\ money' = money
    BY <1>6 DEF ReserveMaximum, HoldTaken
  <2> QED BY <2>3, <2>4, <2>5
<1>7. CASE Connect
  <2>1. call' = call /\ sent' = sent /\ amount' = amount /\ phase = "held" BY <1>7 DEF Connect
  <2>2. \/ phase' = "streaming" /\ money' = money
        \/ phase' = "failed" /\ money' = "released"
    BY <1>7 DEF Connect
  <2>3. money = "held" /\ HoldTaken' BY <1>1, <2>1
  <2> QED BY <2>1, <2>2, <2>3
<1>8. CASE \/ \E ch \in Chunks[call.sends] : DataLine(ch)
           \/ RawLine \/ BareLine \/ Leave
  <2>1. /\ call' = call /\ sent' = sent /\ amount' = amount /\ phase = "streaming"
        /\ phase' = phase /\ money' = money
    BY <1>8 DEF DataLine, RawLine, BareLine, Leave
  <2>2. money = "held" /\ HoldTaken' BY <1>1, <2>1
  <2> QED BY <2>1, <2>2
<1>9. CASE Interrupt
  <2>1. /\ call' = call /\ sent' = sent /\ amount' = amount /\ phase = "streaming"
        /\ phase' = "interrupted" /\ money' = "released"
    BY <1>9 DEF Interrupt
  <2>2. HoldTaken' BY <1>1, <2>1
  <2> QED BY <2>1, <2>2
<1>10. CASE Complete
  <2>1. /\ call' = call /\ sent' = sent /\ amount' = amount /\ tail' = tail /\ phase = "streaming"
        /\ phase' = "done" /\ money' = "settled" /\ charge' \in {0, AskedFor}
    BY <1>10 DEF Complete, AskedFor
  <2>2. HoldTaken' BY <1>1, <2>1
  <2>3. charge' \in {0, AskedFor'} BY <1>2, <2>1
  <2> QED BY <2>1, <2>2, <2>3
<1>11. CASE UNCHANGED relayVars
  <2>1. /\ call' = call /\ sent' = sent /\ amount' = amount /\ tail' = tail /\ phase' = phase
        /\ money' = money /\ charge' = charge
    BY <1>11 DEF relayVars
  <2> QED BY <1>1, <1>2, <2>1
<1> QED BY <1>4, <1>5, <1>6, <1>7, <1>8, <1>9, <1>10, <1>11 DEF RelayNext

\* A charge within the bounds the hold assumed does not pass it.
LEMMA ChargeIsCovered == HoldInv => HoldCoversCharge
<1> DEFINE prompt == Estimated(sent).input
           wanted == IF call.declared > 0 THEN call.declared ELSE FallbackOutput
           output == IF wanted > OutputCap THEN OutputCap ELSE wanted
<1> SUFFICES ASSUME HoldInv, money = "settled", call.before = call.after,
                    call.declared < Int64Limit, TiersRise(prompt + output),
                    SettledUsage.input <= prompt, SettledUsage.output <= output,
                    SettledUsage.total <= prompt + output,
                    \A d \in Dims \ {"input", "output"} :
                      ~Billable(call.rows, d, call.after.period, SettledUsage)
             PROVE  charge <= amount
  BY DEF HoldCoversCharge
<1>1. PICK c \in RelayCalls : c = call BY DEF HoldInv
<1>2. PICK u : u = SettledUsage OBVIOUS
<1>3. /\ output \in Nat \ {0} /\ \A n \in HoldOutput(c.declared) : n = output
  <2>1. c.declared \in Int BY RelayCallsAssumption
  <2> QED BY <1>1, <2>1, HoldOutputIs
<1> HIDE DEF wanted, output
<1>20. PICK out \in Nat \ {0} : out = output BY <1>3
<1>21. PICK h : h = HoldUsage(sent, out) OBVIOUS
<1>4. PICK period : period = c.before.period OBVIOUS
<1>5. PICK ratio \in Nat : ratio = VolumeRatio(c.tiers, c.before.month) BY RatioTyped
<1>6. PICK s \in Seq(PromptParts) : s = sent BY DEF HoldInv
<1>8. /\ h.input \in Nat \ {0} /\ h.input = prompt /\ h.output = out /\ h.output \in Nat \ {0}
      /\ h.total = h.input + h.output
  BY <1>6, <1>21, HoldUsageTyped
<1>9. u.input \in Nat /\ u.output \in Nat /\ u.total \in Nat BY <1>2, SettledTyped DEF HoldInv
<1>11. u.output <= h.output /\ u.total <= h.total
  <2>1. u.output <= output /\ u.total <= prompt + output BY <1>2
  <2>2. prompt + output = h.total BY <1>8, <1>20
  <2> QED BY <1>8, <1>20, <2>1, <2>2
<1>12. u.input <= h.input BY <1>2, <1>8
<1> HIDE DEF prompt
<1>13. ASSUME NEW d \in {"input", "output"}
       PROVE  \A p \in Prices(c.rows, d, period, u), q \in Prices(c.rows, d, period, h) : p <= q
  <2> DEFINE sized(n) == [Tokens(0, 0) EXCEPT !.total = n]
  <2>1. \A n : sized(n).total = n BY DEF Tokens
  <2>6. \A e \in {"input", "output"}, m, n \in 0..(prompt + output) : m <= n =>
          \A p \in Prices(call.rows, e, call.before.period, sized(m)),
             q \in Prices(call.rows, e, call.before.period, sized(n)) : p <= q
    BY DEF TiersRise
  <2> HIDE DEF sized
  <2>2. Prices(c.rows, d, period, u) = Prices(c.rows, d, period, sized(u.total)) BY <2>1, PricesByTotal
  <2>3. Prices(c.rows, d, period, h) = Prices(c.rows, d, period, sized(h.total)) BY <2>1, PricesByTotal
  <2>7. prompt + output = h.total /\ call.rows = c.rows /\ call.before.period = period
    BY <1>1, <1>4, <1>8, <1>20
  <2>8. \A m, n \in 0..(prompt + output) : m <= n =>
          \A p \in Prices(call.rows, d, call.before.period, sized(m)),
             q \in Prices(call.rows, d, call.before.period, sized(n)) : p <= q
    BY <1>13, <2>6
  <2>4. \A m, n \in 0..h.total : m <= n =>
          \A p \in Prices(c.rows, d, period, sized(m)), q \in Prices(c.rows, d, period, sized(n)) : p <= q
    BY <2>7, <2>8
  <2>5. u.total \in 0..h.total /\ h.total \in 0..h.total BY <1>8, <1>9, <1>11
  <2> QED BY <1>11, <2>2, <2>3, <2>4, <2>5
<1>14. HoldTaken /\ charge \in {0, AskedFor} BY DEF HoldInv
<1>15. /\ amount \in Nat
       /\ amount >= Added(c.rows, "input", period, ratio, h) + Added(c.rows, "output", period, ratio, h)
       /\ \A d \in {"input", "output"} :
            Billable(c.rows, d, period, h) /\ Prices(c.rows, d, period, h) # {}
  <2>1. PICK most : most = Hold(c.rows, period, ratio, s, out) OBVIOUS
  <2>2. most.priced /\ amount = most.amount
    <3>1. PICK n \in HoldOutput(call.declared) :
            /\ Hold(call.rows, call.before.period, VolumeRatio(call.tiers, call.before.month),
                    sent, n).priced
            /\ amount = Hold(call.rows, call.before.period,
                             VolumeRatio(call.tiers, call.before.month), sent, n).amount
      BY <1>14 DEF HoldTaken
    <3>2. n = out BY <1>1, <1>3, <1>20, <3>1
    <3> QED BY <1>1, <1>4, <1>5, <1>6, <2>1, <3>1, <3>2
  <2>3. h = HoldUsage(s, out) BY <1>6, <1>21
  <2>4. HeldFor(c.rows, period, ratio, most, h) BY <2>1, <2>3, HoldTyped
  <2> QED BY <2>2, <2>4 DEF HeldFor
<1>16. \A d \in Dims \ {"input", "output"} : ~Billable(c.rows, d, period, u)
  BY <1>1, <1>2, <1>4
<1>17. \/ charge = 0
       \/ charge = IF Cost(c.rows, period, ratio, u).missing # {} THEN amount
                   ELSE Cost(c.rows, period, ratio, u).list
  BY <1>1, <1>2, <1>4, <1>5, <1>14 DEF AskedFor
<1>18. CASE charge = amount BY <1>15, <1>18
<1>19. CASE charge = Cost(c.rows, period, ratio, u).list
  <2>1. u["input"] \in Nat /\ u["output"] \in Nat /\ h["input"] \in Nat /\ h["output"] \in Nat
    BY <1>8, <1>9
  <2>2. charge = Added(c.rows, "input", period, ratio, u) + Added(c.rows, "output", period, ratio, u)
    BY <1>16, <1>19, <2>1, CostOfUsage
  <2>3. ASSUME NEW d \in {"input", "output"}
        PROVE  /\ Added(c.rows, d, period, ratio, u) \in Nat
               /\ Added(c.rows, d, period, ratio, h) \in Nat
               /\ Added(c.rows, d, period, ratio, u) <= Added(c.rows, d, period, ratio, h)
    <3>1. u[d] \in Nat /\ h[d] \in Nat /\ u[d] <= h[d] BY <1>11, <1>12, <2>1
    <3> QED BY <1>13, <1>15, <3>1, AddedRises, AddedTyped
  <2>4. PICK i \in Nat, o \in Nat : /\ i = Added(c.rows, "input", period, ratio, u)
                                    /\ o = Added(c.rows, "output", period, ratio, u)
    BY <2>3
  <2>5. PICK j \in Nat, p \in Nat : /\ j = Added(c.rows, "input", period, ratio, h)
                                    /\ p = Added(c.rows, "output", period, ratio, h)
    BY <2>3
  <2>6. i <= j /\ o <= p BY <2>3, <2>4, <2>5
  <2>7. charge = i + o /\ amount >= j + p BY <1>15, <2>2, <2>4, <2>5
  <2> QED BY <1>15, <2>6, <2>7
<1>22. CASE charge = 0 BY <1>15, <1>22
<1> QED BY <1>17, <1>18, <1>19, <1>22

\* The hold is the maximum charge (reserve.go:30-33): while the prices stay what
\* they were and rise with the size, and the answer keeps within the prompt, the
\* declared output and the two dimensions, a settlement asks for no more than is
\* held, whatever the rows, tiers, prompts and reports are - as long as int64
\* holds the declaration; what a larger one is converted to is not capped.
THEOREM RelayChargesWithinHold == RelaySpec => []HoldCoversCharge
<1>1. RelaySpec => []HoldInv
  <2>1. HoldInv /\ [RelayNext]_relayVars => HoldInv' BY HoldStep
  <2> QED BY HoldInitially, <2>1, PTL DEF RelaySpec
<1>2. HoldInv => HoldCoversCharge BY ChargeIsCovered
<1> QED BY <1>1, <1>2, PTL

-----------------------------------------------------------------------------
(* The policies.                                                             *)

\* What is kept of a list.
LEMMA KeptRuns ==
  ASSUME NEW T, NEW x, NEW n \in Nat, DOMAIN x = 1..n
  PROVE  \E r : IsRun("keep", T, << >>, x, n, r) /\ Kept(x, T) = r[n]
<1> DEFINE iter[s \in SUBSET (DOMAIN x)] ==
       IF s = {} THEN << >> ELSE LET y == Max(s) IN (IF x[y] \in T THEN Append(iter[s \ {y}], x[y]) ELSE iter[s \ {y}])
<1>1. Kept(x, T) = iter[DOMAIN x] BY DEF Kept, FoldLeft, MapThenFoldSet
<1>2. \A a, e : Applied("keep", T, a, e) = (IF e \in T THEN Append(a, e) ELSE a) BY DEF Applied
<1>3. PICK g : IsFold("keep", T, << >>, x, n, g) BY FoldExists
<1>4. \A s \in SUBSET (DOMAIN x) :
        Applied("keep", T, g[s \ {Max(s)}], x[Max(s)])
          = (IF x[Max(s)] \in T THEN Append(g[s \ {Max(s)}], x[Max(s)]) ELSE g[s \ {Max(s)}])
  BY <1>2
<1>5. g = [s \in SUBSET (DOMAIN x) |->
            IF s = {} THEN << >> ELSE (IF x[Max(s)] \in T THEN Append(g[s \ {Max(s)}], x[Max(s)]) ELSE g[s \ {Max(s)}])]
  BY <1>3, <1>4 DEF IsFold
<1>6. iter = [s \in SUBSET (DOMAIN x) |->
               IF s = {} THEN << >> ELSE (IF x[Max(s)] \in T THEN Append(iter[s \ {Max(s)}], x[Max(s)]) ELSE iter[s \ {Max(s)}])]
  BY <1>5
<1> HIDE DEF iter
<1>7. \A s \in SUBSET (DOMAIN x) :
        Applied("keep", T, iter[s \ {Max(s)}], x[Max(s)])
          = (IF x[Max(s)] \in T THEN Append(iter[s \ {Max(s)}], x[Max(s)]) ELSE iter[s \ {Max(s)}])
  BY <1>2
<1>8. IsFold("keep", T, << >>, x, n, iter) BY <1>6, <1>7 DEF IsFold
<1> QED BY <1>1, <1>8, FoldRuns

\* The items of policies.
LEMMA ItemsRuns ==
  ASSUME NEW x, NEW n \in Nat, DOMAIN x = 1..n
  PROVE  \E r : IsRun("items", 0, << >>, x, n, r) /\ ItemsOf(x) = r[n]
<1> DEFINE iter[s \in SUBSET (DOMAIN x)] ==
       IF s = {} THEN << >> ELSE LET y == Max(s) IN iter[s \ {y}] \o x[y].items
<1>1. ItemsOf(x) = iter[DOMAIN x] BY DEF ItemsOf, FoldLeft, MapThenFoldSet
<1>2. \A a, e : Applied("items", 0, a, e) = a \o e.items BY DEF Applied
<1>3. PICK g : IsFold("items", 0, << >>, x, n, g) BY FoldExists
<1>4. \A s \in SUBSET (DOMAIN x) :
        Applied("items", 0, g[s \ {Max(s)}], x[Max(s)])
          = g[s \ {Max(s)}] \o x[Max(s)].items
  BY <1>2
<1>5. g = [s \in SUBSET (DOMAIN x) |->
            IF s = {} THEN << >> ELSE g[s \ {Max(s)}] \o x[Max(s)].items]
  BY <1>3, <1>4 DEF IsFold
<1>6. iter = [s \in SUBSET (DOMAIN x) |->
               IF s = {} THEN << >> ELSE iter[s \ {Max(s)}] \o x[Max(s)].items]
  BY <1>5
<1> HIDE DEF iter
<1>7. \A s \in SUBSET (DOMAIN x) :
        Applied("items", 0, iter[s \ {Max(s)}], x[Max(s)])
          = iter[s \ {Max(s)}] \o x[Max(s)].items
  BY <1>2
<1>8. IsFold("items", 0, << >>, x, n, iter) BY <1>6, <1>7 DEF IsFold
<1> QED BY <1>1, <1>8, FoldRuns

\* The fragments of a message.
LEMMA PartsRuns ==
  ASSUME NEW m, NEW b, NEW x, NEW n \in Nat, DOMAIN x = 1..n
  PROVE  \E r : IsRun("parts", m, b, x, n, r) /\ PartsOf(b, m, x) = r[n]
<1> DEFINE iter[s \in SUBSET (DOMAIN x)] ==
       IF s = {} THEN b ELSE LET y == Max(s) IN (IF x[y] = << >> THEN iter[s \ {y}] ELSE Append(iter[s \ {y}], [id |-> m, text |-> x[y]]))
<1>1. PartsOf(b, m, x) = iter[DOMAIN x] BY DEF PartsOf, FoldLeft, MapThenFoldSet
<1>2. \A a, e : Applied("parts", m, a, e) = (IF e = << >> THEN a ELSE Append(a, [id |-> m, text |-> e])) BY DEF Applied
<1>3. PICK g : IsFold("parts", m, b, x, n, g) BY FoldExists
<1>4. \A s \in SUBSET (DOMAIN x) :
        Applied("parts", m, g[s \ {Max(s)}], x[Max(s)])
          = (IF x[Max(s)] = << >> THEN g[s \ {Max(s)}] ELSE Append(g[s \ {Max(s)}], [id |-> m, text |-> x[Max(s)]]))
  BY <1>2
<1>5. g = [s \in SUBSET (DOMAIN x) |->
            IF s = {} THEN b ELSE (IF x[Max(s)] = << >> THEN g[s \ {Max(s)}] ELSE Append(g[s \ {Max(s)}], [id |-> m, text |-> x[Max(s)]]))]
  BY <1>3, <1>4 DEF IsFold
<1>6. iter = [s \in SUBSET (DOMAIN x) |->
               IF s = {} THEN b ELSE (IF x[Max(s)] = << >> THEN iter[s \ {Max(s)}] ELSE Append(iter[s \ {Max(s)}], [id |-> m, text |-> x[Max(s)]]))]
  BY <1>5
<1> HIDE DEF iter
<1>7. \A s \in SUBSET (DOMAIN x) :
        Applied("parts", m, iter[s \ {Max(s)}], x[Max(s)])
          = (IF x[Max(s)] = << >> THEN iter[s \ {Max(s)}] ELSE Append(iter[s \ {Max(s)}], [id |-> m, text |-> x[Max(s)]]))
  BY <1>2
<1>8. IsFold("parts", m, b, x, n, iter) BY <1>6, <1>7 DEF IsFold
<1> QED BY <1>1, <1>8, FoldRuns

\* The fragments of a request.
LEMMA MessagesRuns ==
  ASSUME NEW x, NEW n \in Nat, DOMAIN x = 1..n
  PROVE  \E r, y : /\ IsRun("messages", x, << >>, y, n, r) /\ ChatFragments(x) = r[n]
                  /\ y = [k \in 1..n |-> k]
<1> DEFINE y == [k \in DOMAIN x |-> k]
<1> DEFINE iter[s \in SUBSET (DOMAIN y)] ==
       IF s = {} THEN << >> ELSE LET k == Max(s) IN PartsOf(iter[s \ {k}], y[k], x[y[k]])
<1>1. ChatFragments(x) = iter[DOMAIN y] BY DEF ChatFragments, FoldLeft, MapThenFoldSet
<1>2. \A a, e : Applied("messages", x, a, e) = PartsOf(a, e, x[e]) BY DEF Applied
<1>3. DOMAIN y = 1..n OBVIOUS
<1>4. y = [k \in 1..n |-> k] OBVIOUS
<1> HIDE DEF y
<1>5. PICK g : IsFold("messages", x, << >>, y, n, g) BY FoldExists
<1>6. \A s \in SUBSET (DOMAIN y) :
        Applied("messages", x, g[s \ {Max(s)}], y[Max(s)])
          = PartsOf(g[s \ {Max(s)}], y[Max(s)], x[y[Max(s)]])
  BY <1>2
<1>7. g = [s \in SUBSET (DOMAIN y) |->
            IF s = {} THEN << >> ELSE PartsOf(g[s \ {Max(s)}], y[Max(s)], x[y[Max(s)]])]
  BY <1>3, <1>5, <1>6 DEF IsFold
<1>8. iter = [s \in SUBSET (DOMAIN y) |->
               IF s = {} THEN << >> ELSE PartsOf(iter[s \ {Max(s)}], y[Max(s)], x[y[Max(s)]])]
  BY <1>7
<1> HIDE DEF iter
<1>9. \A s \in SUBSET (DOMAIN y) :
        Applied("messages", x, iter[s \ {Max(s)}], y[Max(s)])
          = PartsOf(iter[s \ {Max(s)}], y[Max(s)], x[y[Max(s)]])
  BY <1>2
<1>10. IsFold("messages", x, << >>, y, n, iter) BY <1>3, <1>8, <1>9 DEF IsFold
<1>11. PICK r : IsRun("messages", x, << >>, y, n, r) /\ r[n] = iter[1..n] BY <1>10, FoldRuns
<1> QED BY <1>1, <1>3, <1>4, <1>11

\* The matches of a word in a text.
LEMMA MatchesRuns ==
  ASSUME NEW x, NEW w, NEW n \in Nat, DOMAIN x = 1..n
  PROVE  \E r, y : /\ IsRun("matches", <<x, w>>, {}, y, n, r) /\ AllMatches(x, w) = r[n]
                  /\ y = [k \in 1..n |-> k]
<1> DEFINE y == [k \in DOMAIN x |-> k]
<1> DEFINE iter[s \in SUBSET (DOMAIN y)] ==
       IF s = {} THEN {} ELSE LET k == Max(s) IN Scanned(x, w, iter[s \ {k}], y[k])
<1>1. AllMatches(x, w) = iter[DOMAIN y] BY DEF AllMatches, Scanned, FoldLeft, MapThenFoldSet
<1>2. \A a, e : Applied("matches", <<x, w>>, a, e) = Scanned(x, w, a, e) BY DEF Applied
<1>3. DOMAIN y = 1..n OBVIOUS
<1>4. y = [k \in 1..n |-> k] OBVIOUS
<1> HIDE DEF y
<1>5. PICK g : IsFold("matches", <<x, w>>, {}, y, n, g) BY FoldExists
<1>6. \A s \in SUBSET (DOMAIN y) :
        Applied("matches", <<x, w>>, g[s \ {Max(s)}], y[Max(s)])
          = Scanned(x, w, g[s \ {Max(s)}], y[Max(s)])
  BY <1>2
<1>7. g = [s \in SUBSET (DOMAIN y) |->
            IF s = {} THEN {} ELSE Scanned(x, w, g[s \ {Max(s)}], y[Max(s)])]
  BY <1>3, <1>5, <1>6 DEF IsFold
<1>8. iter = [s \in SUBSET (DOMAIN y) |->
               IF s = {} THEN {} ELSE Scanned(x, w, iter[s \ {Max(s)}], y[Max(s)])]
  BY <1>7
<1> HIDE DEF iter
<1>9. \A s \in SUBSET (DOMAIN y) :
        Applied("matches", <<x, w>>, iter[s \ {Max(s)}], y[Max(s)])
          = Scanned(x, w, iter[s \ {Max(s)}], y[Max(s)])
  BY <1>2
<1>10. IsFold("matches", <<x, w>>, {}, y, n, iter) BY <1>3, <1>8, <1>9 DEF IsFold
<1>11. PICK r : IsRun("matches", <<x, w>>, {}, y, n, r) /\ r[n] = iter[1..n] BY <1>10, FoldRuns
<1> QED BY <1>1, <1>3, <1>4, <1>11

\* What is left of a text.
LEMMA MaskRuns ==
  ASSUME NEW x, NEW c, NEW n \in Nat, DOMAIN x = 1..n
  PROVE  \E r, y : /\ IsRun("mask", <<x, c>>, << >>, y, n, r) /\ Masked(x, c) = r[n]
                  /\ y = [k \in 1..n |-> k]
<1> DEFINE y == [k \in DOMAIN x |-> k]
<1> DEFINE iter[s \in SUBSET (DOMAIN y)] ==
       IF s = {} THEN << >> ELSE LET k == Max(s) IN Hidden(x, c, iter[s \ {k}], y[k])
<1>1. Masked(x, c) = iter[DOMAIN y] BY DEF Masked, Hidden, FoldLeft, MapThenFoldSet
<1>2. \A a, e : Applied("mask", <<x, c>>, a, e) = Hidden(x, c, a, e) BY DEF Applied
<1>3. DOMAIN y = 1..n OBVIOUS
<1>4. y = [k \in 1..n |-> k] OBVIOUS
<1> HIDE DEF y
<1>5. PICK g : IsFold("mask", <<x, c>>, << >>, y, n, g) BY FoldExists
<1>6. \A s \in SUBSET (DOMAIN y) :
        Applied("mask", <<x, c>>, g[s \ {Max(s)}], y[Max(s)])
          = Hidden(x, c, g[s \ {Max(s)}], y[Max(s)])
  BY <1>2
<1>7. g = [s \in SUBSET (DOMAIN y) |->
            IF s = {} THEN << >> ELSE Hidden(x, c, g[s \ {Max(s)}], y[Max(s)])]
  BY <1>3, <1>5, <1>6 DEF IsFold
<1>8. iter = [s \in SUBSET (DOMAIN y) |->
               IF s = {} THEN << >> ELSE Hidden(x, c, iter[s \ {Max(s)}], y[Max(s)])]
  BY <1>7
<1> HIDE DEF iter
<1>9. \A s \in SUBSET (DOMAIN y) :
        Applied("mask", <<x, c>>, iter[s \ {Max(s)}], y[Max(s)])
          = Hidden(x, c, iter[s \ {Max(s)}], y[Max(s)])
  BY <1>2
<1>10. IsFold("mask", <<x, c>>, << >>, y, n, iter) BY <1>3, <1>8, <1>9 DEF IsFold
<1>11. PICK r : IsRun("mask", <<x, c>>, << >>, y, n, r) /\ r[n] = iter[1..n] BY <1>10, FoldRuns
<1> QED BY <1>1, <1>3, <1>4, <1>11

\* A list and the set of its elements.
LEMMA AppendSet ==
  ASSUME NEW S, NEW q \in Seq(S), NEW e \in S
  PROVE  Append(q, e) \in Seq(S) /\ ToSet(Append(q, e)) = ToSet(q) \cup {e}
<1>1. PICK l \in Nat : l = Len(q) /\ DOMAIN q = 1..l OBVIOUS
<1>2. PICK a : a = Append(q, e) OBVIOUS
<1>3. a \in Seq(S) /\ Len(a) = l + 1 /\ DOMAIN a = 1..(l + 1) BY <1>1, <1>2
<1>4. \A k \in 1..l : a[k] = q[k] BY <1>1, <1>2
<1>5. a[l + 1] = e BY <1>1, <1>2
<1>6. \A k \in 1..(l + 1) : k \in 1..l \/ k = l + 1 BY <1>1
<1>7. ToSet(a) \subseteq ToSet(q) \cup {e} BY <1>1, <1>3, <1>4, <1>5, <1>6 DEF ToSet
<1>8. 1..l \subseteq 1..(l + 1) /\ l + 1 \in 1..(l + 1) BY <1>1
<1>9. ToSet(q) \cup {e} \subseteq ToSet(a) BY <1>1, <1>3, <1>4, <1>5, <1>8 DEF ToSet
<1> QED BY <1>2, <1>3, <1>7, <1>9

LEMMA ConcatSet ==
  ASSUME NEW S, NEW s \in Seq(S), NEW t \in Seq(S)
  PROVE  s \o t \in Seq(S) /\ ToSet(s \o t) = ToSet(s) \cup ToSet(t)
<1>1. PICK k \in Nat, l \in Nat : k = Len(s) /\ l = Len(t) OBVIOUS
<1>2. DOMAIN s = 1..k /\ DOMAIN t = 1..l BY <1>1
<1>3. PICK c : c = s \o t OBVIOUS
<1>4. c \in Seq(S) /\ Len(c) = k + l /\ \A i \in 1..(k + l) : c[i] = IF i <= k THEN s[i] ELSE t[i - k]
  BY <1>1, <1>3, ConcatProperties
<1>5. DOMAIN c = 1..(k + l) BY <1>4
<1>6. ASSUME NEW i \in 1..(k + l) PROVE c[i] \in ToSet(s) \cup ToSet(t)
  <2>1. CASE i <= k
    <3>1. i \in 1..k /\ c[i] = s[i] BY <1>4, <2>1
    <3> QED BY <1>2, <3>1 DEF ToSet
  <2>2. CASE ~(i <= k)
    <3>1. i - k \in 1..l /\ c[i] = t[i - k] BY <1>4, <2>2
    <3> QED BY <1>2, <3>1 DEF ToSet
  <2> QED BY <2>1, <2>2
<1>7. ASSUME NEW i \in 1..k PROVE s[i] \in ToSet(c)
  <2>1. i \in 1..(k + l) /\ c[i] = s[i] BY <1>4
  <2> QED BY <1>5, <2>1 DEF ToSet
<1>8. ASSUME NEW i \in 1..l PROVE t[i] \in ToSet(c)
  <2>1. i + k \in 1..(k + l) /\ ~(i + k <= k) /\ (i + k) - k = i OBVIOUS
  <2>2. c[i + k] = t[i] BY <1>4, <2>1
  <2> QED BY <1>5, <2>1, <2>2 DEF ToSet
<1>9. ToSet(c) \subseteq ToSet(s) \cup ToSet(t) BY <1>5, <1>6 DEF ToSet
<1>10. ToSet(s) \subseteq ToSet(c) BY <1>2, <1>7 DEF ToSet
<1>11. ToSet(t) \subseteq ToSet(c) BY <1>2, <1>8 DEF ToSet
<1> QED BY <1>3, <1>4, <1>9, <1>10, <1>11

\* The elements of a list up to one of them.
FirstOf(x, i) == {x[k] : k \in 1..i}

LEMMA FirstOfGrows ==
  ASSUME NEW x, NEW i \in Nat
  PROVE  /\ FirstOf(x, 0) = {}
         /\ FirstOf(x, i + 1) = FirstOf(x, i) \cup {x[i + 1]}
<1>1. 1..0 = {} OBVIOUS
<1>2. 1..(i + 1) = (1..i) \cup {i + 1} OBVIOUS
<1> QED BY <1>1, <1>2 DEF FirstOf

LEMMA KeptMembers ==
  ASSUME NEW S, NEW x \in Seq(S), NEW T
  PROVE  Kept(x, T) \in Seq(S \cap T) /\ ToSet(Kept(x, T)) = ToSet(x) \cap T
<1>1. PICK n \in Nat : DOMAIN x = 1..n /\ n = Len(x) OBVIOUS
<1>2. PICK r : IsRun("keep", T, << >>, x, n, r) /\ Kept(x, T) = r[n] BY <1>1, KeptRuns
<1> DEFINE Good(q, i) == q \in Seq(S \cap T) /\ ToSet(q) = FirstOf(x, i) \cap T
           N == {i \in Nat : i <= n => Good(r[i], i)}
<1>3. 0 \in N
  <2>1. r[0] = << >> BY <1>2 DEF IsRun
  <2>2. ToSet(<< >>) = {} BY DEF ToSet
  <2>3. FirstOf(x, 0) = {} BY FirstOfGrows
  <2>4. << >> \in Seq(S \cap T) OBVIOUS
  <2>5. Good(<< >>, 0) BY <2>2, <2>3, <2>4
  <2> HIDE DEF Good
  <2> QED BY <2>1, <2>5
<1>4. ASSUME NEW i \in N PROVE i + 1 \in N
  <2>1. i \in Nat /\ i + 1 \in Nat /\ (i + 1) - 1 = i OBVIOUS
  <2>2. SUFFICES ASSUME i + 1 <= n PROVE Good(r[i + 1], i + 1) BY <2>1
  <2>3. i + 1 \in 1..n /\ Good(r[i], i) BY <2>1, <2>2
  <2>4. PICK q, c : q = r[i] /\ c = x[i + 1] OBVIOUS
  <2>5. q \in Seq(S \cap T) /\ ToSet(q) = FirstOf(x, i) \cap T BY <2>3, <2>4
  <2>6. c \in S BY <1>1, <2>3, <2>4
  <2>7. r[i + 1] = IF c \in T THEN Append(q, c) ELSE q
    BY <1>2, <2>1, <2>3, <2>4 DEF IsRun, Applied
  <2>8. FirstOf(x, i + 1) = FirstOf(x, i) \cup {c} BY <2>1, <2>4, FirstOfGrows
  <2>9. CASE c \in T
    <3>1. Append(q, c) \in Seq(S \cap T) /\ ToSet(Append(q, c)) = ToSet(q) \cup {c}
      BY <2>5, <2>6, <2>9, AppendSet
    <3>2. PICK a : a = Append(q, c) OBVIOUS
    <3>3. r[i + 1] = a BY <2>7, <2>9, <3>2
    <3> QED BY <2>5, <2>8, <2>9, <3>1, <3>2, <3>3
  <2>10. CASE c \notin T
    <3>1. r[i + 1] = q BY <2>7, <2>10
    <3> QED BY <2>5, <2>8, <2>10, <3>1
  <2> QED BY <2>9, <2>10
<1>5. N \in SUBSET Nat OBVIOUS
<1>6. n \in N
  <2> HIDE DEF N
  <2> QED BY <1>1, <1>3, <1>4, <1>5, EveryNatural
<1>7. Good(r[n], n) BY <1>1, <1>6
<1>8. FirstOf(x, n) = ToSet(x) BY <1>1 DEF FirstOf, ToSet
<1> QED BY <1>2, <1>7, <1>8

LEMMA ItemsMembers ==
  ASSUME NEW x \in Seq(Policies)
  PROVE  /\ ItemsOf(x) \in Seq(DetectionItems)
         /\ ToSet(ItemsOf(x)) = UNION {ToSet(x[i].items) : i \in DOMAIN x}
<1>1. PICK n \in Nat : DOMAIN x = 1..n /\ n = Len(x) OBVIOUS
<1>2. PICK r : IsRun("items", 0, << >>, x, n, r) /\ ItemsOf(x) = r[n] BY <1>1, ItemsRuns
<1> DEFINE Of(i) == UNION {ToSet(x[k].items) : k \in 1..i}
           Good(q, i) == q \in Seq(DetectionItems) /\ ToSet(q) = Of(i)
           N == {i \in Nat : i <= n => Good(r[i], i)}
<1>3. 0 \in N
  <2>1. r[0] = << >> BY <1>2 DEF IsRun
  <2>2. ToSet(<< >>) = {} BY DEF ToSet
  <2>3. 1..0 = {} OBVIOUS
  <2>4. Of(0) = {} BY <2>3
  <2>5. << >> \in Seq(DetectionItems) OBVIOUS
  <2>6. Good(<< >>, 0) BY <2>2, <2>4, <2>5
  <2> HIDE DEF Good
  <2> QED BY <2>1, <2>6
<1>4. ASSUME NEW i \in N PROVE i + 1 \in N
  <2>1. i \in Nat /\ i + 1 \in Nat /\ (i + 1) - 1 = i OBVIOUS
  <2>2. SUFFICES ASSUME i + 1 <= n PROVE Good(r[i + 1], i + 1) BY <2>1
  <2>3. i + 1 \in 1..n /\ Good(r[i], i) BY <2>1, <2>2
  <2>4. PICK q, c : q = r[i] /\ c = x[i + 1].items OBVIOUS
  <2>5. q \in Seq(DetectionItems) /\ ToSet(q) = Of(i) BY <2>3, <2>4
  <2>6. x[i + 1] \in Policies BY <1>1, <2>3
  <2>7. c \in Seq(DetectionItems) BY <2>4, <2>6 DEF Policies
  <2>8. r[i + 1] = q \o c BY <1>2, <2>1, <2>3, <2>4 DEF IsRun, Applied
  <2>9. 1..(i + 1) = (1..i) \cup {i + 1} BY <2>1
  <2>10. Of(i + 1) = Of(i) \cup ToSet(c) BY <2>4, <2>9
  <2>11. q \o c \in Seq(DetectionItems) /\ ToSet(q \o c) = ToSet(q) \cup ToSet(c)
    BY <2>5, <2>7, ConcatSet
  <2> HIDE DEF Of
  <2> QED BY <2>5, <2>8, <2>10, <2>11
<1>5. N \in SUBSET Nat OBVIOUS
<1>6. n \in N
  <2> HIDE DEF N
  <2> QED BY <1>1, <1>3, <1>4, <1>5, EveryNatural
<1>7. Good(r[n], n) BY <1>1, <1>6
<1> QED BY <1>1, <1>2, <1>7

\* What the engine is shown of a request: no empty text, and one text per
\* message if no message has several parts.
Fragments == [id : Nat, text : Words]

OnePerMessage(q) == \A k, l \in DOMAIN q : q[k].id = q[l].id => k = l

UpToMessage(q, m) == \A k \in DOMAIN q : q[k].id <= m

LEMMA FragmentAppended ==
  ASSUME NEW q \in Seq(Fragments), NEW m \in Nat, NEW t \in Words
  PROVE  /\ Append(q, [id |-> m, text |-> t]) \in Seq(Fragments)
         /\ \A i \in Nat : i < m /\ OnePerMessage(q) /\ UpToMessage(q, i) =>
              /\ OnePerMessage(Append(q, [id |-> m, text |-> t]))
              /\ UpToMessage(Append(q, [id |-> m, text |-> t]), m)
<1>1. PICK f : f = [id |-> m, text |-> t] OBVIOUS
<1>2. f \in Fragments /\ f.id = m BY <1>1 DEF Fragments
<1>3. PICK l \in Nat : l = Len(q) /\ DOMAIN q = 1..l OBVIOUS
<1>4. PICK a : a = Append(q, f) OBVIOUS
<1>5. a \in Seq(Fragments) /\ DOMAIN a = 1..(l + 1) BY <1>2, <1>3, <1>4
<1>6. \A k \in 1..l : a[k] = q[k] BY <1>3, <1>4
<1>7. a[l + 1] = f BY <1>3, <1>4
<1>8. \A k \in 1..(l + 1) : k \in 1..l \/ k = l + 1 BY <1>3
<1>9. ASSUME NEW i \in Nat, i < m, OnePerMessage(q), UpToMessage(q, i)
      PROVE  OnePerMessage(a) /\ UpToMessage(a, m)
  <2>1. \A k \in 1..l : a[k].id \in Nat /\ a[k].id <= i
    <3> TAKE k \in 1..l
    <3>1. q[k] \in Fragments BY <1>3
    <3> QED BY <1>3, <1>6, <1>9, <3>1 DEF Fragments, UpToMessage
  <2>2. \A k \in 1..l : a[k].id # m BY <1>9, <2>1
  <2>3. OnePerMessage(a) BY <1>2, <1>3, <1>5, <1>6, <1>7, <1>8, <1>9, <2>2 DEF OnePerMessage
  <2>4. \A k \in 1..l : a[k].id <= m BY <1>9, <2>1
  <2>5. UpToMessage(a, m) BY <1>2, <1>5, <1>7, <1>8, <2>4 DEF UpToMessage
  <2> QED BY <2>3, <2>5
<1> QED BY <1>1, <1>4, <1>5, <1>9

LEMMA PartsAreFragments ==
  ASSUME NEW b \in Seq(Fragments), NEW m \in Nat, NEW x \in Seq(Seq(Letters))
  PROVE  /\ PartsOf(b, m, x) \in Seq(Fragments)
         /\ \A i \in Nat : i < m /\ Len(x) <= 1 /\ OnePerMessage(b) /\ UpToMessage(b, i) =>
              OnePerMessage(PartsOf(b, m, x)) /\ UpToMessage(PartsOf(b, m, x), m)
<1>1. PICK n \in Nat : DOMAIN x = 1..n /\ n = Len(x) OBVIOUS
<1>2. PICK r : IsRun("parts", m, b, x, n, r) /\ PartsOf(b, m, x) = r[n] BY <1>1, PartsRuns, SMTT(40)
<1> DEFINE Good(q) == q \in Seq(Fragments)
           N == {i \in Nat : i <= n => Good(r[i])}
<1>3. 0 \in N BY <1>2 DEF IsRun
<1>4. ASSUME NEW i \in Nat, i + 1 <= n
      PROVE  r[i + 1] = IF x[i + 1] = << >> THEN r[i]
                        ELSE Append(r[i], [id |-> m, text |-> x[i + 1]])
  <2>1. i + 1 \in 1..n /\ (i + 1) - 1 = i BY <1>4
  <2> QED BY <1>2, <2>1 DEF IsRun, Applied
<1>5. ASSUME NEW i \in Nat, i + 1 <= n, x[i + 1] # << >> PROVE x[i + 1] \in Words
  <2>1. i + 1 \in 1..n BY <1>5
  <2>2. x[i + 1] \in Seq(Letters) BY <1>1, <2>1
  <2> QED BY <1>5, <2>2 DEF Words
<1>6. ASSUME NEW i \in N PROVE i + 1 \in N
  <2>1. i \in Nat /\ i + 1 \in Nat OBVIOUS
  <2>2. SUFFICES ASSUME i + 1 <= n PROVE Good(r[i + 1]) BY <2>1
  <2>3. Good(r[i]) BY <2>1, <2>2
  <2>4. PICK q, t : q = r[i] /\ t = x[i + 1] OBVIOUS
  <2>5. r[i + 1] = IF t = << >> THEN q ELSE Append(q, [id |-> m, text |-> t])
    BY <1>4, <2>1, <2>2, <2>4
  <2>6. CASE t = << >> BY <2>3, <2>4, <2>5, <2>6
  <2>7. CASE t # << >>
    <3>1. t \in Words BY <1>5, <2>1, <2>2, <2>4, <2>7
    <3>2. PICK a : a = Append(q, [id |-> m, text |-> t]) OBVIOUS
    <3>3. a \in Seq(Fragments) BY <2>3, <2>4, <3>1, <3>2, FragmentAppended
    <3> QED BY <2>5, <2>7, <3>2, <3>3
  <2> QED BY <2>6, <2>7
<1>7. N \in SUBSET Nat OBVIOUS
<1>8. n \in N
  <2> HIDE DEF N
  <2> QED BY <1>1, <1>3, <1>6, <1>7, EveryNatural
<1>9. PartsOf(b, m, x) \in Seq(Fragments) BY <1>1, <1>2, <1>8
<1>10. ASSUME NEW i \in Nat, i < m, Len(x) <= 1, OnePerMessage(b), UpToMessage(b, i)
       PROVE  OnePerMessage(PartsOf(b, m, x)) /\ UpToMessage(PartsOf(b, m, x), m)
  <2>1. n = 0 \/ n = 1 BY <1>1, <1>10
  <2>2. r[0] = b BY <1>2 DEF IsRun
  <2>3. UpToMessage(b, m)
    <3> SUFFICES ASSUME NEW k \in DOMAIN b PROVE b[k].id <= m BY DEF UpToMessage
    <3>1. b[k] \in Fragments OBVIOUS
    <3>2. b[k].id \in Nat BY <3>1 DEF Fragments
    <3>3. b[k].id <= i BY <1>10 DEF UpToMessage
    <3> QED BY <1>10, <3>2, <3>3
  <2>4. CASE n = 0 BY <1>2, <1>10, <2>2, <2>3, <2>4
  <2>5. CASE n = 1
    <3>1. PICK t : t = x[1] OBVIOUS
    <3>2. 0 \in Nat /\ 0 + 1 = 1 /\ 0 + 1 <= n BY <2>5
    <3>3. r[1] = IF t = << >> THEN b ELSE Append(b, [id |-> m, text |-> t])
      BY <1>4, <2>2, <3>1, <3>2
    <3>4. CASE t = << >> BY <1>2, <1>10, <2>3, <2>5, <3>3, <3>4
    <3>5. CASE t # << >>
      <4>1. t \in Words BY <1>5, <3>1, <3>2, <3>5
      <4>2. PICK a : a = Append(b, [id |-> m, text |-> t]) OBVIOUS
      <4>3. OnePerMessage(a) /\ UpToMessage(a, m) BY <1>10, <4>1, <4>2, FragmentAppended
      <4> QED BY <1>2, <2>5, <3>3, <3>5, <4>2, <4>3
    <3> QED BY <3>4, <3>5
  <2> QED BY <2>1, <2>4, <2>5
<1> QED BY <1>9, <1>10

LEMMA RequestIsFragments ==
  ASSUME NEW x \in Seq(Seq(Seq(Letters)))
  PROVE  /\ ChatFragments(x) \in Seq(Fragments)
         /\ (\A m \in DOMAIN x : Len(x[m]) <= 1) => OnePerMessage(ChatFragments(x))
<1>1. PICK n \in Nat : DOMAIN x = 1..n /\ n = Len(x) OBVIOUS
<1>2. PICK r, y : /\ IsRun("messages", x, << >>, y, n, r) /\ ChatFragments(x) = r[n]
                  /\ y = [k \in 1..n |-> k]
  BY <1>1, MessagesRuns
<1> DEFINE Single == \A m \in DOMAIN x : Len(x[m]) <= 1
           Good(q, i) == /\ q \in Seq(Fragments)
                         /\ Single => OnePerMessage(q) /\ UpToMessage(q, i)
           N == {i \in Nat : i <= n => Good(r[i], i)}
<1>3. 0 \in N
  <2>1. r[0] = << >> BY <1>2 DEF IsRun
  <2>2. << >> \in Seq(Fragments) /\ DOMAIN << >> = {} OBVIOUS
  <2>3. Good(<< >>, 0) BY <2>2 DEF OnePerMessage, UpToMessage
  <2> HIDE DEF Good
  <2> QED BY <2>1, <2>3
<1>4. ASSUME NEW i \in N PROVE i + 1 \in N
  <2>1. i \in Nat /\ i + 1 \in Nat /\ (i + 1) - 1 = i /\ i < i + 1 OBVIOUS
  <2>2. SUFFICES ASSUME i + 1 <= n PROVE Good(r[i + 1], i + 1) BY <2>1
  <2>3. i + 1 \in 1..n /\ Good(r[i], i) BY <2>1, <2>2
  <2>4. PICK q, t, m : q = r[i] /\ t = x[i + 1] /\ m = i + 1 OBVIOUS
  <2>5. y[i + 1] = m BY <1>2, <2>3, <2>4
  <2>6. r[i + 1] = PartsOf(q, m, t)
    BY <1>2, <2>1, <2>3, <2>4, <2>5 DEF IsRun, Applied
  <2>7. t \in Seq(Seq(Letters)) /\ m \in Nat BY <1>1, <2>1, <2>3, <2>4
  <2>8. q \in Seq(Fragments) BY <2>3, <2>4
  <2>9. PICK p : p = PartsOf(q, m, t) OBVIOUS
  <2>10. p \in Seq(Fragments) BY <2>7, <2>8, <2>9, PartsAreFragments
  <2>11. ASSUME Single PROVE OnePerMessage(p) /\ UpToMessage(p, m)
    <3>1. Len(t) <= 1 BY <1>1, <2>3, <2>4, <2>11
    <3>2. OnePerMessage(q) /\ UpToMessage(q, i) BY <2>3, <2>4, <2>11
    <3>3. i < m BY <2>1, <2>4
    <3> QED BY <2>1, <2>7, <2>8, <2>9, <3>1, <3>2, <3>3, PartsAreFragments
  <2>12. Good(p, m) BY <2>10, <2>11
  <2> HIDE DEF Good
  <2> QED BY <2>4, <2>6, <2>9, <2>12
<1>5. N \in SUBSET Nat OBVIOUS
<1>6. n \in N
  <2> HIDE DEF N
  <2> QED BY <1>1, <1>3, <1>4, <1>5, EveryNatural
<1>7. Good(r[n], n) BY <1>1, <1>6
<1> QED BY <1>2, <1>7

\* A word is at a position of a text if its letters are.
LEMMA HitMeans ==
  ASSUME NEW S, NEW text \in Seq(S), NEW word \in Seq(S), word # << >>, NEW k \in Nat \ {0}
  PROVE  Hit(text, word, k) <=> /\ k + Len(word) - 1 <= Len(text)
                                /\ \A j \in 1..Len(word) : text[k + j - 1] = word[j]
<1>1. PICK l \in Nat \ {0} : l = Len(word) /\ DOMAIN word = 1..l BY EmptySeq
<1>2. PICK n \in Nat : n = Len(text) /\ DOMAIN text = 1..n OBVIOUS
<1>3. SUFFICES ASSUME k + l - 1 <= n
               PROVE  SubSeq(text, k, k + l - 1) = word <=> \A j \in 1..l : text[k + j - 1] = word[j]
  BY <1>1, <1>2 DEF Hit
<1>4. PICK e \in Int : e = k + l - 1 OBVIOUS
<1>5. \A i \in k..e : text[i] \in S
  <2> TAKE i \in k..e
  <2>1. i \in 1..n BY <1>3, <1>4
  <2> QED BY <1>2, <2>1
<1>6. PICK s : s = SubSeq(text, k, e) OBVIOUS
<1>7. /\ s \in Seq(S)
      /\ Len(s) = IF k <= e THEN e - k + 1 ELSE 0
      /\ \A i \in 1..(e - k + 1) : s[i] = text[k + i - 1]
  BY <1>4, <1>5, <1>6, SubSeqProperties
<1>8. k <= e /\ e - k + 1 = l BY <1>1, <1>4
<1>9. Len(s) = l /\ \A i \in 1..l : s[i] = text[k + i - 1] BY <1>7, <1>8
<1>10. ASSUME \A j \in 1..l : text[k + j - 1] = word[j] PROVE s = word
  <2>1. \A j \in 1..Len(s) : s[j] = word[j] BY <1>9, <1>10
  <2>2. Len(s) = Len(word) BY <1>1, <1>9
  <2> QED BY <1>7, <2>1, <2>2, SeqEqual
<1> QED BY <1>4, <1>6, <1>9, <1>10

\* A span of a matched word, and what the scan has done up to a position.
Span(word, k) == k..(k + Len(word) - 1)

ScannedTo(text, word, spans, i) ==
  /\ \A s \in spans : \E k \in 1..i : Hit(text, word, k) /\ s = Span(word, k)
  /\ \A k \in 1..i : Hit(text, word, k) => k \in UNION spans

LEMMA MatchesFound ==
  ASSUME NEW S, NEW text \in Seq(S), NEW word \in Seq(S), word # << >>
  PROVE  ScannedTo(text, word, AllMatches(text, word), Len(text))
<1>1. PICK n \in Nat : DOMAIN text = 1..n /\ n = Len(text) OBVIOUS
<1>2. PICK l \in Nat \ {0} : l = Len(word) BY EmptySeq
<1>3. PICK r, y : /\ IsRun("matches", <<text, word>>, {}, y, n, r) /\ AllMatches(text, word) = r[n]
                  /\ y = [k \in 1..n |-> k]
  BY <1>1, MatchesRuns
<1> DEFINE Good(i) == ScannedTo(text, word, r[i], i)
           N == {i \in Nat : i <= n => Good(i)}
<1>4. 0 \in N
  <2>1. r[0] = {} /\ 1..0 = {} BY <1>3 DEF IsRun
  <2> QED BY <2>1 DEF ScannedTo
<1>5. ASSUME NEW i \in N PROVE i + 1 \in N
  <2>1. i \in Nat /\ i + 1 \in Nat /\ (i + 1) - 1 = i OBVIOUS
  <2>2. SUFFICES ASSUME i + 1 <= n PROVE Good(i + 1) BY <2>1
  <2>3. i + 1 \in 1..n /\ Good(i) BY <2>1, <2>2
  <2>4. PICK q, p : q = r[i] /\ p = r[i + 1] OBVIOUS
  <2>5. PICK m \in Nat : m = i + 1 BY <2>1
  <2>6. y[m] = m BY <1>3, <2>3, <2>5
  <2>7. p = Scanned(text, word, q, m)
    BY <1>3, <2>1, <2>3, <2>4, <2>5, <2>6 DEF IsRun, Applied
  <2>8. 1..m = (1..i) \cup {m} BY <2>1, <2>5
  <2>9. ScannedTo(text, word, q, i) BY <2>3, <2>4
  <2>10. CASE Hit(text, word, m) /\ m \notin UNION q
    <3>1. p = q \cup {Span(word, m)} BY <2>7, <2>10 DEF Scanned, Span
    <3>2. m \in Span(word, m) BY <1>2, <2>5 DEF Span
    <3>3. \A s \in p : \E k \in 1..m : Hit(text, word, k) /\ s = Span(word, k)
      BY <2>8, <2>9, <2>10, <3>1 DEF ScannedTo
    <3>4. ASSUME NEW k \in 1..m, Hit(text, word, k) PROVE k \in UNION p
      <4>1. k \in 1..i \/ k = m BY <2>8
      <4>2. k \in 1..i => k \in UNION q BY <2>9, <3>4 DEF ScannedTo
      <4> QED BY <3>1, <3>2, <4>1, <4>2
    <3> QED BY <2>4, <2>5, <3>3, <3>4 DEF ScannedTo
  <2>11. CASE ~(Hit(text, word, m) /\ m \notin UNION q)
    <3>1. p = q BY <2>7, <2>11 DEF Scanned
    <3>2. \A s \in p : \E k \in 1..m : Hit(text, word, k) /\ s = Span(word, k)
      BY <2>8, <2>9, <3>1 DEF ScannedTo
    <3>3. \A k \in 1..i : Hit(text, word, k) => k \in UNION q BY <2>9 DEF ScannedTo
    <3>4. Hit(text, word, m) => m \in UNION q BY <2>11
    <3>5. ASSUME NEW k \in 1..m, Hit(text, word, k) PROVE k \in UNION p
      <4>1. k \in 1..i \/ k = m BY <2>8
      <4> QED BY <3>1, <3>3, <3>4, <3>5, <4>1
    <3> QED BY <2>4, <2>5, <3>2, <3>5 DEF ScannedTo
  <2> QED BY <2>10, <2>11
<1>6. N \in SUBSET Nat OBVIOUS
<1>7. n \in N
  <2> HIDE DEF N
  <2> QED BY <1>1, <1>4, <1>5, <1>6, EveryNatural
<1> QED BY <1>1, <1>3, <1>7

\* A masked text q of x, whose covered positions are c, up to position i: every
\* element of q stands for a position of x, a mark for a covered one and a letter
\* for one that is not; marks do not touch, letters that touch did so in x.
Masking(q, g, x, c, i) ==
  /\ g \in [DOMAIN q -> 1..i]
  /\ \A m \in DOMAIN q : \/ q[m] = Redacted /\ g[m] \in c
                         \/ q[m] = x[g[m]] /\ g[m] \notin c
  /\ \A m \in DOMAIN q : m + 1 \in DOMAIN q /\ g[m] \notin c /\ g[m + 1] \notin c => g[m + 1] = g[m] + 1
  /\ \A m \in DOMAIN q : m + 1 \in DOMAIN q /\ g[m] \in c => g[m + 1] \notin c
  /\ i > 0 => /\ Len(q) \in DOMAIN q
              /\ i \in c <=> g[Len(q)] \in c
              /\ i \notin c => g[Len(q)] = i

\* One more element.
LEMMA MaskingExtends ==
  ASSUME NEW S, NEW q \in Seq(S), NEW e \in S, NEW x, NEW c, NEW i \in Nat, NEW g,
         Masking(q, g, x, c, i),
         \/ e = Redacted /\ i + 1 \in c /\ i \notin c
         \/ e = x[i + 1] /\ i + 1 \notin c
  PROVE  \E h : Masking(Append(q, e), h, x, c, i + 1)
<1>1. PICK l \in Nat : l = Len(q) /\ DOMAIN q = 1..l OBVIOUS
<1>2. PICK k \in Nat : k = i + 1 OBVIOUS
<1>3. PICK p : p = Append(q, e) OBVIOUS
<1>4. p \in Seq(S) /\ Len(p) = l + 1 /\ DOMAIN p = 1..(l + 1) BY <1>1, <1>3
<1>5. \A m \in 1..l : p[m] = q[m] BY <1>1, <1>3
<1>6. p[l + 1] = e BY <1>1, <1>3
<1>7. \A m \in 1..(l + 1) : m \in 1..l \/ m = l + 1 BY <1>1
<1>8. PICK h : h = [m \in 1..(l + 1) |-> IF m <= l THEN g[m] ELSE k] OBVIOUS
<1>9. /\ \A m \in 1..l : h[m] = g[m]
      /\ h[l + 1] = k
  BY <1>1, <1>8
<1>10. \A m \in 1..l : g[m] \in 1..i BY <1>1 DEF Masking
<1>11. h \in [DOMAIN p -> 1..k]
  <2>1. 1..i \subseteq 1..k /\ k \in 1..k BY <1>2
  <2>2. \A m \in 1..(l + 1) : h[m] \in 1..k BY <1>7, <1>9, <1>10, <2>1
  <2> QED BY <1>4, <1>8, <2>2
<1>12. \A m \in DOMAIN p : \/ p[m] = Redacted /\ h[m] \in c
                           \/ p[m] = x[h[m]] /\ h[m] \notin c
  <2>1. \A m \in 1..l : \/ q[m] = Redacted /\ g[m] \in c
                        \/ q[m] = x[g[m]] /\ g[m] \notin c
    BY <1>1 DEF Masking
  <2>2. \/ p[l + 1] = Redacted /\ h[l + 1] \in c
        \/ p[l + 1] = x[h[l + 1]] /\ h[l + 1] \notin c
    BY <1>2, <1>6, <1>9
  <2> QED BY <1>4, <1>5, <1>7, <1>9, <2>1, <2>2
<1>13. ASSUME l > 0 PROVE l \in 1..l /\ i > 0 /\ (i \in c <=> g[l] \in c) /\ (i \notin c => g[l] = i)
  <2>1. l \in 1..l BY <1>13
  <2>2. i > 0 BY <1>10, <2>1
  <2> QED BY <1>1, <2>1, <2>2 DEF Masking
<1>14. ASSUME NEW m \in 1..l
       PROVE  /\ h[m] \notin c /\ h[m + 1] \notin c => h[m + 1] = h[m] + 1
              /\ h[m] \in c => h[m + 1] \notin c
  <2>1. CASE m = l
    <3>1. h[m] = g[l] /\ h[m + 1] = k BY <1>9, <2>1
    <3> QED BY <1>2, <1>13, <2>1, <3>1
  <2>2. CASE m # l
    <3>1. m + 1 \in 1..l BY <2>2
    <3>2. h[m] = g[m] /\ h[m + 1] = g[m + 1] BY <1>9, <3>1
    <3> QED BY <1>1, <3>1, <3>2 DEF Masking
  <2> QED BY <2>1, <2>2
<1>15. \A m \in DOMAIN p : m + 1 \in DOMAIN p => m \in 1..l BY <1>4
<1>16. Len(p) \in DOMAIN p /\ (k \in c <=> h[Len(p)] \in c) /\ (k \notin c => h[Len(p)] = k)
  BY <1>4, <1>9
<1>17. \A m \in DOMAIN p : m + 1 \in DOMAIN p /\ h[m] \notin c /\ h[m + 1] \notin c => h[m + 1] = h[m] + 1
  BY <1>14, <1>15
<1>18. \A m \in DOMAIN p : m + 1 \in DOMAIN p /\ h[m] \in c => h[m + 1] \notin c BY <1>14, <1>15
<1>19. Masking(p, h, x, c, k) BY <1>11, <1>12, <1>16, <1>17, <1>18 DEF Masking
<1> QED BY <1>2, <1>3, <1>19

\* Elements outside a set.
Others(q, l, named) == {m \in 1..l : q[m] \notin named}

LEMMA OthersGrow ==
  ASSUME NEW q, NEW l \in Nat, NEW named
  PROVE  /\ Others(q, 0, named) = {} /\ IsFiniteSet(Others(q, l, named))
         /\ Cardinality(Others(q, l, named)) \in Nat
         /\ Cardinality(Others(q, l + 1, named))
              = Cardinality(Others(q, l, named)) + (IF q[l + 1] \in named THEN 0 ELSE 1)
<1>1. 1..0 = {} OBVIOUS
<1>2. Others(q, 0, named) = {} BY <1>1 DEF Others
<1>3. IsFiniteSet(1..l) BY FS_Interval
<1>4. IsFiniteSet(Others(q, l, named)) BY <1>3, FS_Subset DEF Others
<1>5. Cardinality(Others(q, l, named)) \in Nat BY <1>4, FS_CardinalityType
<1>6. 1..(l + 1) = (1..l) \cup {l + 1} /\ l + 1 \notin 1..l OBVIOUS
<1>7. CASE q[l + 1] \in named
  <2>1. Others(q, l + 1, named) = Others(q, l, named) BY <1>6, <1>7 DEF Others
  <2> QED BY <1>2, <1>4, <1>5, <1>7, <2>1
<1>8. CASE q[l + 1] \notin named
  <2>1. Others(q, l + 1, named) = Others(q, l, named) \cup {l + 1} BY <1>6, <1>8 DEF Others
  <2>2. l + 1 \notin Others(q, l, named) BY <1>6 DEF Others
  <2>3. Cardinality(Others(q, l, named) \cup {l + 1}) = Cardinality(Others(q, l, named)) + 1
    BY <1>4, <2>2, FS_AddElement
  <2> QED BY <1>2, <1>4, <1>5, <1>8, <2>1, <2>3
<1> QED BY <1>7, <1>8

LEMMA OthersAppended ==
  ASSUME NEW S, NEW q \in Seq(S), NEW e \in S, NEW named
  PROVE  Cardinality(Others(Append(q, e), Len(Append(q, e)), named))
           = Cardinality(Others(q, Len(q), named)) + (IF e \in named THEN 0 ELSE 1)
<1>1. PICK l \in Nat : l = Len(q) /\ DOMAIN q = 1..l OBVIOUS
<1>2. PICK p : p = Append(q, e) OBVIOUS
<1>3. Len(p) = l + 1 BY <1>1, <1>2
<1>4. \A m \in 1..l : p[m] = q[m] BY <1>1, <1>2
<1>5. p[l + 1] = e BY <1>1, <1>2
<1>6. Others(p, l, named) = Others(q, l, named) BY <1>4 DEF Others
<1>7. Cardinality(Others(p, l + 1, named))
        = Cardinality(Others(p, l, named)) + (IF p[l + 1] \in named THEN 0 ELSE 1)
  BY OthersGrow
<1> QED BY <1>1, <1>2, <1>3, <1>5, <1>6, <1>7

\* A masked text q of x has the letters of x outside a set.
SameOthers(x, q, named) ==
  Cardinality(Others(q, Len(q), named \cup {Redacted})) = Cardinality(Others(x, Len(x), named))

LEMMA MaskedIsMasking ==
  ASSUME NEW S, Redacted \notin S, NEW x \in Seq(S), NEW c \in SUBSET (DOMAIN x), NEW named,
         \A k \in c : x[k] \in named
  PROVE  /\ Masked(x, c) \in Seq(S \cup {Redacted})
         /\ \E g : Masking(Masked(x, c), g, x, c, Len(x))
         /\ SameOthers(x, Masked(x, c), named)
<1>1. PICK n \in Nat : DOMAIN x = 1..n /\ n = Len(x) OBVIOUS
<1>2. PICK r, y : /\ IsRun("mask", <<x, c>>, << >>, y, n, r) /\ Masked(x, c) = r[n]
                  /\ y = [k \in 1..n |-> k]
  BY <1>1, MaskRuns
<1> DEFINE M == S \cup {Redacted}
           out == named \cup {Redacted}
           Good(q, i) == /\ q \in Seq(M)
                         /\ \E g : Masking(q, g, x, c, i)
                         /\ Cardinality(Others(q, Len(q), out)) = Cardinality(Others(x, i, named))
           N == {i \in Nat : i <= n => Good(r[i], i)}
<1>3. 0 \in N
  <2>1. r[0] = << >> BY <1>2 DEF IsRun
  <2>2. << >> \in Seq(M) /\ DOMAIN << >> = {} /\ Len(<< >>) = 0 OBVIOUS
  <2>3. PICK g : g = [m \in {} |-> 0] OBVIOUS
  <2>4. Masking(<< >>, g, x, c, 0) BY <2>2, <2>3 DEF Masking
  <2>5. Others(<< >>, 0, out) = {} /\ Others(x, 0, named) = {} BY OthersGrow
  <2>6. Good(<< >>, 0) BY <2>2, <2>4, <2>5
  <2> HIDE DEF Good
  <2> QED BY <2>1, <2>6
<1>4. ASSUME NEW i \in N PROVE i + 1 \in N
  <2>1. i \in Nat /\ i + 1 \in Nat /\ (i + 1) - 1 = i OBVIOUS
  <2>2. SUFFICES ASSUME i + 1 <= n PROVE Good(r[i + 1], i + 1) BY <2>1
  <2>3. i + 1 \in 1..n /\ Good(r[i], i) BY <2>1, <2>2
  <2>4. PICK q, k : q = r[i] /\ k = i + 1 OBVIOUS
  <2>5. y[k] = k BY <1>2, <2>3, <2>4
  <2>6. r[k] = Hidden(x, c, q, k)
    BY <1>2, <2>1, <2>3, <2>4, <2>5 DEF IsRun, Applied
  <2>7. q \in Seq(M) BY <2>3, <2>4
  <2>8. PICK g : Masking(q, g, x, c, i) BY <2>3, <2>4
  <2>9. Cardinality(Others(q, Len(q), out)) = Cardinality(Others(x, i, named)) BY <2>3, <2>4
  <2>10. x[k] \in S BY <1>1, <2>3, <2>4
  <2>11. Cardinality(Others(x, k, named))
           = Cardinality(Others(x, i, named)) + (IF x[k] \in named THEN 0 ELSE 1)
    BY <2>1, <2>4, OthersGrow
  <2>12. Cardinality(Others(x, i, named)) \in Nat BY <2>1, OthersGrow
  <2>13. CASE k \notin c
    <3>1. PICK p : p = Append(q, x[k]) OBVIOUS
    <3>2. r[k] = p BY <2>6, <2>13, <3>1 DEF Hidden
    <3>3. p \in Seq(M) BY <2>7, <2>10, <3>1
    <3>4. PICK e \in M : e = x[k] BY <2>10
    <3>5. p = Append(q, e) /\ e = x[i + 1] /\ i + 1 \notin c BY <2>4, <2>13, <3>1, <3>4
    <3>6. \E h : Masking(Append(q, e), h, x, c, i + 1) BY <2>1, <2>7, <2>8, <3>5, MaskingExtends
    <3>7. Cardinality(Others(Append(q, e), Len(Append(q, e)), out))
            = Cardinality(Others(q, Len(q), out)) + (IF e \in out THEN 0 ELSE 1)
      BY <2>7, OthersAppended
    <3>8. e \in out <=> x[k] \in named BY <2>10, <3>4
    <3>9. Cardinality(Others(p, Len(p), out)) = Cardinality(Others(x, k, named))
      BY <2>9, <2>11, <3>5, <3>7, <3>8
    <3>10. Good(p, k) BY <2>4, <3>3, <3>5, <3>6, <3>9
    <3> HIDE DEF Good
    <3> QED BY <2>4, <3>2, <3>10
  <2>14. CASE k \in c /\ k - 1 \in c
    <3>1. r[k] = q BY <2>6, <2>14 DEF Hidden
    <3>2. i \in c /\ i + 1 \in c BY <2>1, <2>4, <2>14
    <3>3. i > 0 BY <1>1, <3>2
    <3>4. 1..i \subseteq 1..k BY <2>1, <2>4
    <3>5. Masking(q, g, x, c, k) BY <2>1, <2>4, <2>8, <3>2, <3>3, <3>4 DEF Masking
    <3>6. x[k] \in named BY <2>14
    <3>7. Cardinality(Others(q, Len(q), out)) = Cardinality(Others(x, k, named))
      BY <2>9, <2>11, <2>12, <3>6
    <3>8. Good(q, k) BY <2>7, <3>5, <3>7
    <3> HIDE DEF Good
    <3> QED BY <2>4, <3>1, <3>8
  <2>15. CASE k \in c /\ k - 1 \notin c
    <3>1. PICK e \in M : e = Redacted OBVIOUS
    <3>2. PICK p : p = Append(q, e) OBVIOUS
    <3>3. r[k] = p BY <2>6, <2>15, <3>1, <3>2 DEF Hidden
    <3>4. p \in Seq(M) BY <2>7, <3>2
    <3>5. i + 1 \in c /\ i \notin c BY <2>1, <2>4, <2>15
    <3>6. \E h : Masking(Append(q, e), h, x, c, i + 1) BY <2>1, <2>7, <2>8, <3>1, <3>5, MaskingExtends
    <3>7. Cardinality(Others(Append(q, e), Len(Append(q, e)), out))
            = Cardinality(Others(q, Len(q), out)) + (IF e \in out THEN 0 ELSE 1)
      BY <2>7, OthersAppended
    <3>8. e \in out /\ x[k] \in named BY <2>15, <3>1
    <3>9. Cardinality(Others(p, Len(p), out)) = Cardinality(Others(x, k, named))
      BY <2>9, <2>11, <2>12, <3>2, <3>7, <3>8
    <3>10. Good(p, k) BY <2>4, <3>2, <3>4, <3>6, <3>9
    <3> HIDE DEF Good
    <3> QED BY <2>4, <3>3, <3>10
  <2> QED BY <2>13, <2>14, <2>15
<1>5. N \in SUBSET Nat OBVIOUS
<1>6. n \in N
  <2> HIDE DEF N
  <2> QED BY <1>1, <1>3, <1>4, <1>5, EveryNatural
<1>7. Good(r[n], n) BY <1>1, <1>6
<1> QED BY <1>1, <1>2, <1>7 DEF SameOthers

\* A word in a masked text was there in the text, where nothing is covered.
LEMMA HitInMasked ==
  ASSUME NEW S, Redacted \notin S, NEW x \in Seq(S), NEW c \in SUBSET (DOMAIN x), NEW g,
         NEW q \in Seq(S \cup {Redacted}), Masking(q, g, x, c, Len(x)),
         NEW word \in Seq(S), word # << >>, NEW p \in DOMAIN q, Hit(q, word, p)
  PROVE  g[p] \in DOMAIN x /\ g[p] \notin c /\ Hit(x, word, g[p])
<1>1. PICK n \in Nat : DOMAIN x = 1..n /\ n = Len(x) OBVIOUS
<1>2. PICK l \in Nat : DOMAIN q = 1..l /\ l = Len(q) OBVIOUS
<1>3. PICK w \in Nat \ {0} : w = Len(word) /\ DOMAIN word = 1..w BY EmptySeq
<1>4. p \in Nat \ {0} /\ p \in 1..l BY <1>2
<1> DEFINE M == S \cup {Redacted}
<1>5. q \in Seq(M) /\ word \in Seq(M)
  <2>1. \A k \in 1..w : word[k] \in M BY <1>3
  <2> QED BY <1>3, <2>1
<1>6. p + w - 1 <= l /\ \A j \in 1..w : q[p + j - 1] = word[j]
  <2> HIDE DEF M
  <2>1. Hit(q, word, p) <=> /\ p + Len(word) - 1 <= Len(q)
                            /\ \A j \in 1..Len(word) : q[p + j - 1] = word[j]
    BY <1>4, <1>5, HitMeans
  <2> QED BY <1>2, <1>3, <2>1
<1>7. \A m \in 1..l : \/ q[m] = Redacted /\ g[m] \in c
                      \/ q[m] = x[g[m]] /\ g[m] \notin c
  BY <1>2 DEF Masking
<1>8. ASSUME NEW j \in 1..w PROVE p + j - 1 \in 1..l /\ g[p + j - 1] \notin c /\ x[g[p + j - 1]] = word[j]
  <2>1. p + j - 1 \in 1..l BY <1>4, <1>6
  <2>2. q[p + j - 1] = word[j] BY <1>6
  <2>3. word[j] \in S BY <1>3
  <2>4. q[p + j - 1] # Redacted BY <2>2, <2>3
  <2> QED BY <1>7, <2>1, <2>2, <2>4
<1>9. PICK d \in Nat : d = g[p] /\ d \in 1..n BY <1>1, <1>2 DEF Masking
<1> DEFINE N == {j \in Nat : j < w => g[p + j] = d + j}
<1>10. 0 \in N BY <1>4, <1>9
<1>11. ASSUME NEW j \in N PROVE j + 1 \in N
  <2>1. j \in Nat OBVIOUS
  <2>2. SUFFICES ASSUME j + 1 < w PROVE g[p + (j + 1)] = d + (j + 1) BY <2>1
  <2>3. g[p + j] = d + j BY <2>1, <2>2
  <2>4. j + 1 \in 1..w /\ j + 2 \in 1..w /\ p + (j + 1) - 1 = p + j /\ p + (j + 2) - 1 = (p + j) + 1
    BY <1>4, <2>1, <2>2
  <2>5. g[p + j] \notin c /\ g[(p + j) + 1] \notin c /\ p + j \in 1..l /\ (p + j) + 1 \in 1..l
    BY <1>8, <2>4
  <2>6. g[(p + j) + 1] = g[p + j] + 1 BY <1>2, <2>5 DEF Masking
  <2>7. (p + j) + 1 = p + (j + 1) BY <1>4, <2>1
  <2> QED BY <2>1, <2>3, <2>6, <2>7
<1>12. N \in SUBSET Nat OBVIOUS
<1>13. \A j \in Nat : j \in N
  <2> HIDE DEF N
  <2> QED BY <1>10, <1>11, <1>12, EveryNatural
<1>14. \A j \in 1..w : g[p + j - 1] = d + j - 1
  <2> TAKE j \in 1..w
  <2>1. j - 1 \in Nat /\ j - 1 < w /\ p + (j - 1) = p + j - 1 /\ d + (j - 1) = d + j - 1 BY <1>4
  <2>2. j - 1 \in N BY <1>13, <2>1
  <2> QED BY <2>1, <2>2
<1>15. d + w - 1 <= n
  <2>1. w \in 1..w BY <1>3
  <2>2. p + w - 1 \in 1..l /\ g[p + w - 1] = d + w - 1 BY <1>8, <1>14, <2>1
  <2>3. g[p + w - 1] \in 1..n BY <1>1, <1>2, <2>2 DEF Masking
  <2> QED BY <2>2, <2>3
<1>16. \A j \in 1..w : x[d + j - 1] = word[j] BY <1>8, <1>14
<1>17. Hit(x, word, d)
  <2>1. d \in Nat \ {0} BY <1>9
  <2>2. Hit(x, word, d) <=> /\ d + Len(word) - 1 <= Len(x)
                            /\ \A j \in 1..Len(word) : x[d + j - 1] = word[j]
    BY <2>1, HitMeans
  <2> QED BY <1>1, <1>3, <1>15, <1>16, <2>2
<1>18. d \notin c
  <2>1. 1 \in 1..w /\ p + 1 - 1 = p BY <1>3, <1>4
  <2> QED BY <1>8, <1>9, <2>1
<1> QED BY <1>1, <1>9, <1>17, <1>18

\* No two marks touch.
LEMMA MarksDoNotTouch ==
  ASSUME NEW S, Redacted \notin S, NEW x \in Seq(S), NEW c \in SUBSET (DOMAIN x), NEW g,
         NEW q \in Seq(S \cup {Redacted}), Masking(q, g, x, c, Len(x)), NEW k \in DOMAIN q
  PROVE  ~Hit(q, <<Redacted, Redacted>>, k)
<1> SUFFICES ASSUME Hit(q, <<Redacted, Redacted>>, k) PROVE FALSE OBVIOUS
<1>1. PICK l \in Nat : DOMAIN q = 1..l /\ l = Len(q) OBVIOUS
<1>2. PICK word : word = <<Redacted, Redacted>> OBVIOUS
<1> DEFINE M == S \cup {Redacted}
<1>3. word \in Seq(M) /\ word # << >> /\ Len(word) = 2 /\ word[1] = Redacted /\ word[2] = Redacted
  BY <1>2
<1>4. k \in Nat \ {0} /\ k \in 1..l /\ q \in Seq(M) BY <1>1
<1>5. k + 2 - 1 <= l /\ \A j \in 1..2 : q[k + j - 1] = word[j]
  <2> HIDE DEF M
  <2>1. Hit(q, word, k) <=> /\ k + Len(word) - 1 <= Len(q)
                            /\ \A j \in 1..Len(word) : q[k + j - 1] = word[j]
    <3>1. q \in Seq(M) BY <1>4
    <3>2. word \in Seq(M) BY <1>3
    <3>3. word # << >> BY <1>3
    <3>4. k \in Nat \ {0} BY <1>4
    <3> QED BY <3>1, <3>2, <3>3, <3>4, HitMeans
  <2> QED BY <1>1, <1>2, <1>3, <2>1
<1>6. 1 \in 1..2 /\ 2 \in 1..2 /\ k + 1 - 1 = k /\ k + 2 - 1 = k + 1 /\ k + 1 \in 1..l BY <1>4, <1>5
<1>7. q[k] = Redacted /\ q[k + 1] = Redacted BY <1>3, <1>5, <1>6
<1>8. \A m \in 1..l : q[m] = Redacted => g[m] \in c
  <2> SUFFICES ASSUME NEW m \in 1..l, q[m] = Redacted, g[m] \notin c PROVE FALSE OBVIOUS
  <2>1. q[m] = x[g[m]] BY <1>1 DEF Masking
  <2>2. g[m] \in 1..Len(x) BY <1>1 DEF Masking
  <2>3. x[g[m]] \in S BY <2>2
  <2> QED BY <2>1, <2>3
<1>9. g[k] \in c /\ g[k + 1] \in c BY <1>4, <1>6, <1>7, <1>8
<1> QED BY <1>1, <1>4, <1>6, <1>9 DEF Masking

\* The policies a slice of rows loads as are policies.
LEMMA LoadedArePolicies ==
  ASSUME NEW rows \in Seq(Policies)
  PROVE  Loaded(rows) \in Seq(Policies)
<1>1. PICK n \in Nat : DOMAIN rows = 1..n /\ n = Len(rows) OBVIOUS
<1>2. ASSUME NEW i \in 1..n
      PROVE  (IF Capacity(i) = Capacity(Len(rows)) THEN rows[i]
              ELSE [rows[i] EXCEPT !.items = << >>, !.scopes = {}]) \in Policies
  <2>1. PICK p \in Policies : p = rows[i] BY <1>1
  <2>2. PICK e : e = [p EXCEPT !.items = << >>, !.scopes = {}] OBVIOUS
  <2>3. e \in Policies
    <3>1. << >> \in Seq(DetectionItems) OBVIOUS
    <3>2. {} \in SUBSET STRING OBVIOUS
    <3>3. p \in [active : BOOLEAN, scopes : SUBSET STRING, items : Seq(DetectionItems)] BY DEF Policies
    <3> HIDE DEF DetectionItems
    <3>4. e \in [active : BOOLEAN, scopes : SUBSET STRING, items : Seq(DetectionItems)]
      BY <2>2, <3>1, <3>2, <3>3
    <3> QED BY <3>4 DEF Policies
  <2> QED BY <2>1, <2>2, <2>3
<1>3. PICK s : s = [i \in 1..n |-> IF Capacity(i) = Capacity(Len(rows)) THEN rows[i]
                                   ELSE [rows[i] EXCEPT !.items = << >>, !.scopes = {}]]
  OBVIOUS
<1>4. s = Loaded(rows) BY <1>1, <1>3 DEF Loaded
<1>5. s \in [1..n -> Policies] BY <1>2, <1>3
<1>6. s \in Seq(Policies) BY <1>5
<1> QED BY <1>4, <1>6

\* What is kept of a list of a kind is of that kind.
LEMMA KeptTyped ==
  ASSUME NEW S, NEW x \in Seq(S), NEW T
  PROVE  Kept(x, T) \in Seq(S) /\ ToSet(Kept(x, T)) = ToSet(x) \cap T
<1>1. PICK q : q = Kept(x, T) OBVIOUS
<1>2. q \in Seq(S \cap T) /\ ToSet(q) = ToSet(x) \cap T BY <1>1, KeptMembers
<1>3. q \in Seq(S)
  <2>1. \A k \in 1..Len(q) : q[k] \in S BY <1>2
  <2> QED BY <1>2, <2>1
<1> QED BY <1>1, <1>2, <1>3

\* The items of the policies that apply.
Items(policies, scope) ==
  UNION {ToSet(Applicable(policies, scope)[i].items) : i \in DOMAIN Applicable(policies, scope)}

LEMMA ApplicableItems ==
  ASSUME NEW P \in Seq(Policies), NEW scope
  PROVE  /\ ItemsOf(Applicable(P, scope)) \in Seq(DetectionItems)
         /\ ToSet(ItemsOf(Applicable(P, scope))) = Items(P, scope)
<1>1. PICK a : a = Applicable(P, scope) OBVIOUS
<1>2. a \in Seq(Policies) BY <1>1, KeptTyped DEF Applicable
<1>3. /\ ItemsOf(a) \in Seq(DetectionItems)
      /\ ToSet(ItemsOf(a)) = UNION {ToSet(a[i].items) : i \in DOMAIN a}
  BY <1>2, ItemsMembers
<1> QED BY <1>1, <1>3 DEF Items

Actions == {"allow", "audit", "mask", "block"}

\* The strictest of some actions is one of them.
LEMMA StrictestIs ==
  ASSUME NEW A \in SUBSET Actions
  PROVE  /\ Strictest(A) \in A \cup {"allow"}
         /\ "block" \in A => Strictest(A) = "block"
         /\ "mask" \in A /\ "block" \notin A => Strictest(A) = "mask"
<1>1. /\ ActionRank["allow"] = 0 /\ ActionRank["audit"] = 1
      /\ ActionRank["mask"] = 2 /\ ActionRank["block"] = 3
  BY DEF ActionRank
<1>2. PICK B : B = A \cup {"allow"} OBVIOUS
<1>3. \A b \in B : b = "allow" \/ b = "audit" \/ b = "mask" \/ b = "block" BY <1>2 DEF Actions
<1> DEFINE Top(a) == \A b \in B : ActionRank[b] <= ActionRank[a]
<1>4. \E a \in B : Top(a)
  <2>1. CASE "block" \in B BY <1>1, <1>3, <2>1
  <2>2. CASE "block" \notin B /\ "mask" \in B BY <1>1, <1>3, <2>2
  <2>3. CASE "block" \notin B /\ "mask" \notin B /\ "audit" \in B BY <1>1, <1>3, <2>3
  <2>4. CASE "block" \notin B /\ "mask" \notin B /\ "audit" \notin B
    <3>1. \A b \in B : b = "allow" BY <1>3, <2>4
    <3>2. "allow" \in B BY <1>2
    <3> QED BY <1>1, <3>1, <3>2
  <2> QED BY <2>1, <2>2, <2>3, <2>4
<1>5. PICK s : s = Strictest(A) /\ s \in B /\ Top(s)
  <2>1. Strictest(A) = CHOOSE a \in B : Top(a) BY <1>2 DEF Strictest
  <2> HIDE DEF Top
  <2> QED BY <1>4, <2>1
<1>6. ASSUME "block" \in A PROVE s = "block"
  <2>1. ActionRank["block"] <= ActionRank[s] BY <1>2, <1>5, <1>6
  <2> QED BY <1>1, <1>3, <1>5, <2>1
<1>7. ASSUME "mask" \in A, "block" \notin A PROVE s = "mask"
  <2>1. ActionRank["mask"] <= ActionRank[s] BY <1>2, <1>5, <1>7
  <2>2. "block" \notin B BY <1>2, <1>7
  <2> QED BY <1>1, <1>3, <1>5, <2>1, <2>2
<1> QED BY <1>2, <1>5, <1>6, <1>7

\* A match of a word of an item in a text of the request.
MatchOf(F, item, m) ==
  /\ m.item = item /\ m.at \in DOMAIN F /\ m.id = F[m.at].id
  /\ \E word \in ToSet(item.words), k \in DOMAIN F[m.at].text :
       Hit(F[m.at].text, word, k) /\ m.span = Span(word, k)

Matches(item, F) ==
  UNION {{[item |-> item, at |-> f, id |-> F[f].id, word |-> w, span |-> s] :
            s \in AllMatches(F[f].text, item.words[w])} :
         f \in DOMAIN F, w \in DOMAIN item.words}

\* Every match of a word of an item is among some findings.
NoneMissed(F, item, ms) ==
  \A f \in DOMAIN F, word \in ToSet(item.words) : \A k \in DOMAIN F[f].text :
    Hit(F[f].text, word, k) =>
      \E m \in ms : m.item = item /\ m.at = f /\ m.id = F[f].id /\ k \in m.span

LEMMA MatchesAre ==
  ASSUME NEW F \in Seq(Fragments), NEW item, item.words \in Seq(Words)
  PROVE  /\ \A m \in Matches(item, F) : MatchOf(F, item, m)
         /\ NoneMissed(F, item, Matches(item, F))
<1>1. ASSUME NEW f \in DOMAIN F, NEW w \in DOMAIN item.words
      PROVE  ScannedTo(F[f].text, item.words[w], AllMatches(F[f].text, item.words[w]), Len(F[f].text))
  <2>1. F[f] \in Fragments OBVIOUS
  <2>2. PICK text : text = F[f].text /\ text \in Seq(Letters) BY <2>1 DEF Fragments, Words
  <2>3. item.words[w] \in Words OBVIOUS
  <2>4. PICK word : word = item.words[w] /\ word \in Seq(Letters) /\ word # << >> BY <2>3 DEF Words
  <2>5. ScannedTo(text, word, AllMatches(text, word), Len(text)) BY <2>2, <2>4, MatchesFound
  <2> QED BY <2>2, <2>4, <2>5
<1>2. ASSUME NEW f \in DOMAIN F PROVE DOMAIN F[f].text = 1..Len(F[f].text)
  <2>1. F[f] \in Fragments OBVIOUS
  <2>2. PICK text : text = F[f].text /\ text \in Seq(Letters) BY <2>1 DEF Fragments, Words
  <2>3. DOMAIN text = 1..Len(text) BY <2>2
  <2> QED BY <2>2, <2>3
<1>3. ASSUME NEW m \in Matches(item, F) PROVE MatchOf(F, item, m)
  <2>1. PICK f \in DOMAIN F, w \in DOMAIN item.words : \E s \in AllMatches(F[f].text, item.words[w]) :
          m = [item |-> item, at |-> f, id |-> F[f].id, word |-> w, span |-> s]
    BY <1>3 DEF Matches
  <2>2. PICK s \in AllMatches(F[f].text, item.words[w]) :
          m = [item |-> item, at |-> f, id |-> F[f].id, word |-> w, span |-> s]
    BY <2>1
  <2>3. \E k \in 1..Len(F[f].text) :
          Hit(F[f].text, item.words[w], k) /\ s = Span(item.words[w], k)
    BY <1>1 DEF ScannedTo
  <2>4. PICK word : word = item.words[w] /\ word \in ToSet(item.words) BY DEF ToSet
  <2>5. PICK k \in DOMAIN F[f].text : Hit(F[f].text, word, k) /\ s = Span(word, k)
    BY <1>2, <2>3, <2>4
  <2>6. m.item = item /\ m.at = f /\ m.id = F[f].id /\ m.span = s BY <2>2
  <2> QED BY <2>4, <2>5, <2>6 DEF MatchOf
<1>4. ASSUME NEW f \in DOMAIN F, NEW word \in ToSet(item.words), NEW k \in DOMAIN F[f].text,
             Hit(F[f].text, word, k)
      PROVE  \E m \in Matches(item, F) : m.item = item /\ m.at = f /\ m.id = F[f].id /\ k \in m.span
  <2>1. PICK w \in DOMAIN item.words : word = item.words[w] BY DEF ToSet
  <2>2. k \in UNION AllMatches(F[f].text, item.words[w])
    BY <1>1, <1>2, <1>4, <2>1 DEF ScannedTo
  <2>3. PICK s \in AllMatches(F[f].text, item.words[w]) : k \in s BY <2>2
  <2>4. PICK m : m = [item |-> item, at |-> f, id |-> F[f].id, word |-> w, span |-> s] OBVIOUS
  <2>5. m \in Matches(item, F)
    <3> DEFINE Of(e, v) == {[item |-> item, at |-> e, id |-> F[e].id, word |-> v, span |-> r] :
                              r \in AllMatches(F[e].text, item.words[v])}
    <3>1. m \in Of(f, w) BY <2>3, <2>4
    <3>2. Matches(item, F) = UNION {Of(e, v) : e \in DOMAIN F, v \in DOMAIN item.words}
      BY DEF Matches
    <3> HIDE DEF Of
    <3> QED BY <3>1, <3>2
  <2>6. m.item = item /\ m.at = f /\ m.id = F[f].id /\ m.span = s BY <2>4
  <2> QED BY <2>3, <2>5, <2>6
<1> QED BY <1>3, <1>4 DEF NoneMissed

\* What an item reports: matches of its words, every match if it masks, and
\* something if there is a match.
LEMMA FindingsAre ==
  ASSUME NEW F \in Seq(Fragments), NEW item, item.words \in Seq(Words)
  PROVE  /\ \A m \in Findings(item, F) : MatchOf(F, item, m)
         /\ \A f \in DOMAIN F, word \in ToSet(item.words) : \A k \in DOMAIN F[f].text :
              Hit(F[f].text, word, k) => Findings(item, F) # {}
         /\ item.action = "mask" => NoneMissed(F, item, Findings(item, F))
<1>1. PICK ms : ms = Matches(item, F) /\ (\A m \in ms : MatchOf(F, item, m)) /\ NoneMissed(F, item, ms)
  BY MatchesAre
<1> DEFINE First(m) == \A n \in ms : m.at <= n.at
           chosen == CHOOSE m \in ms : First(m)
<1>2. Findings(item, F) = IF item.action = "mask" \/ ms = {} THEN ms ELSE {chosen}
  BY <1>1 DEF Findings, Matches
<1>3. ASSUME ms # {} PROVE chosen \in ms
  <2>1. PICK T : T = {m.at : m \in ms} OBVIOUS
  <2>2. \A m \in ms : m.at \in DOMAIN F BY <1>1 DEF MatchOf
  <2>3. DOMAIN F \subseteq Nat OBVIOUS
  <2>4. T \in SUBSET Nat /\ T # {} BY <1>3, <2>1, <2>2, <2>3
  <2>5. PICK t \in T : \A u \in T : t <= u BY <2>4, LeastNatural
  <2>6. PICK m \in ms : m.at = t BY <2>1, <2>5
  <2>7. First(m) BY <2>1, <2>5, <2>6
  <2> HIDE DEF First
  <2> QED BY <2>6, <2>7
<1>4. \A m \in Findings(item, F) : m \in ms BY <1>2, <1>3
<1>5. ms # {} => Findings(item, F) # {} BY <1>2
<1>6. item.action = "mask" => Findings(item, F) = ms BY <1>2
<1> HIDE DEF chosen
<1> QED BY <1>1, <1>4, <1>5, <1>6 DEF NoneMissed

LEMMA ItemTyped ==
  ASSUME NEW item \in DetectionItems
  PROVE  /\ item.action \in Actions /\ item.action # "allow"
         /\ item.action = "mask" => item.detector # "model"
         /\ item.detector # "model" => item.words \in Seq(Words)
<1>1. CASE item \in [detector : {"pattern"}, action : {"audit", "block"}, words : Seq(Words),
                     unavailable : STRING]
  <2>1. item.action \in {"audit", "block"} /\ item.detector = "pattern" /\ item.words \in Seq(Words)
    BY <1>1
  <2> QED BY <2>1 DEF Actions
<1>2. CASE item \in [detector : {"sensitive_data"}, action : {"audit", "mask", "block"},
                     words : Seq(Words), unavailable : STRING]
  <2>1. /\ item.action \in {"audit", "mask", "block"} /\ item.detector = "sensitive_data"
        /\ item.words \in Seq(Words)
    BY <1>2
  <2> QED BY <2>1 DEF Actions
<1>3. CASE item \in [detector : {"model"}, action : {"audit", "block"}, words : Seq(STRING),
                     unavailable : STRING]
  <2>1. item.action \in {"audit", "block"} /\ item.detector = "model" BY <1>3
  <2> QED BY <2>1 DEF Actions
<1> QED BY <1>1, <1>2, <1>3 DEF DetectionItems

\* The engine's parts: the items with matchers, those for a model, what the
\* former find, the strictest of their actions, and the verdict.
Judging(I, F, label, exact, models, found, first, v) ==
  /\ exact \in Seq(DetectionItems) /\ ToSet(exact) = {i \in I : i.detector # "model"}
  /\ models \in Seq(DetectionItems) /\ ToSet(models) = {i \in I : i.detector = "model"}
  /\ found = UNION {Findings(exact[i], F) : i \in DOMAIN exact}
  /\ first = Strictest({f.item.action : f \in found})
  /\ v = IF OverBudget(exact, F) \/ Cardinality(found) > MaxFindings
         THEN [action |-> "error", seen |-> << >>]
         ELSE IF first = "block" THEN [action |-> "block", seen |-> << >>]
         ELSE IF models = << >> THEN [action |-> first, seen |-> << >>]
         ELSE [action |-> Strictest({first} \cup {ModelAction(models[i], label) : i \in DOMAIN models}),
               seen |-> IF label = "unavailable" THEN << >>
                        ELSE IF first = "mask" THEN MaskedFragments(F, found) ELSE F]

LEMMA EvaluateIs ==
  ASSUME NEW P \in Seq(Policies), NEW F, NEW scope, NEW label
  PROVE  \E exact, models, found, first :
           Judging(Items(P, scope), F, label, exact, models, found, first, Evaluate(P, scope, F, label))
<1>1. PICK items : /\ items = ItemsOf(Applicable(P, scope)) /\ items \in Seq(DetectionItems)
                   /\ ToSet(items) = Items(P, scope)
  BY ApplicableItems
<1>2. PICK exact : exact = Kept(items, {i \in ToSet(items) : i.detector # "model"}) OBVIOUS
<1>3. PICK models : models = Kept(items, {i \in ToSet(items) : i.detector = "model"}) OBVIOUS
<1>4. exact \in Seq(DetectionItems) /\ ToSet(exact) = {i \in Items(P, scope) : i.detector # "model"}
  <2>1. PICK T : T = {i \in ToSet(items) : i.detector # "model"} OBVIOUS
  <2>2. exact \in Seq(DetectionItems) /\ ToSet(exact) = ToSet(items) \cap T
    BY <1>1, <1>2, <2>1, KeptTyped
  <2> QED BY <1>1, <2>1, <2>2
<1>5. models \in Seq(DetectionItems) /\ ToSet(models) = {i \in Items(P, scope) : i.detector = "model"}
  <2>1. PICK T : T = {i \in ToSet(items) : i.detector = "model"} OBVIOUS
  <2>2. models \in Seq(DetectionItems) /\ ToSet(models) = ToSet(items) \cap T
    BY <1>1, <1>3, <2>1, KeptTyped
  <2> QED BY <1>1, <2>1, <2>2
<1>6. PICK found : found = UNION {Findings(exact[i], F) : i \in DOMAIN exact} OBVIOUS
<1>7. PICK first : first = Strictest({f.item.action : f \in found}) OBVIOUS
<1>8. Evaluate(P, scope, F, label)
        = IF OverBudget(exact, F) \/ Cardinality(found) > MaxFindings
          THEN [action |-> "error", seen |-> << >>]
          ELSE IF first = "block" THEN [action |-> "block", seen |-> << >>]
          ELSE IF models = << >> THEN [action |-> first, seen |-> << >>]
          ELSE [action |-> Strictest({first} \cup {ModelAction(models[i], label) : i \in DOMAIN models}),
                seen |-> IF label = "unavailable" THEN << >>
                         ELSE IF first = "mask" THEN MaskedFragments(F, found) ELSE F]
  BY <1>1, <1>2, <1>3, <1>6, <1>7 DEF Evaluate
<1>9. PICK v : v = Evaluate(P, scope, F, label) OBVIOUS
<1>10. Judging(Items(P, scope), F, label, exact, models, found, first, v)
  BY <1>4, <1>5, <1>6, <1>7, <1>8, <1>9 DEF Judging
<1> QED BY <1>9, <1>10

\* What is found, and the strictest action among it.
LEMMA FoundIs ==
  ASSUME NEW I, NEW F \in Seq(Fragments), NEW label, NEW exact, NEW models, NEW found, NEW first, NEW v,
         Judging(I, F, label, exact, models, found, first, v)
  PROVE  /\ \A item \in ToSet(exact) : item \in DetectionItems /\ item.detector # "model"
         /\ \A m \in found : m.item \in ToSet(exact) /\ MatchOf(F, m.item, m)
         /\ \A item \in ToSet(exact) : \A m \in Findings(item, F) : m \in found /\ m.item = item
         /\ {f.item.action : f \in found} \in SUBSET Actions
<1>1. \A item \in ToSet(exact) : item \in DetectionItems /\ item.detector # "model"
  BY DEF Judging, ToSet
<1>2. \A item \in ToSet(exact) : \A m \in Findings(item, F) : MatchOf(F, item, m)
  <2> TAKE item \in ToSet(exact)
  <2>1. item.words \in Seq(Words) BY <1>1, ItemTyped
  <2> QED BY <2>1, FindingsAre
<1>3. \A m \in found : \E item \in ToSet(exact) : m \in Findings(item, F) BY DEF Judging, ToSet
<1>4. \A item \in ToSet(exact) : \A m \in Findings(item, F) : m \in found BY DEF Judging, ToSet
<1>5. \A m \in found : m.item \in ToSet(exact) /\ MatchOf(F, m.item, m)
  <2> TAKE m \in found
  <2>1. PICK item \in ToSet(exact) : m \in Findings(item, F) BY <1>3
  <2>2. MatchOf(F, item, m) BY <1>2, <2>1
  <2>3. m.item = item BY <2>2 DEF MatchOf
  <2> QED BY <2>2, <2>3
<1>6. \A item \in ToSet(exact) : \A m \in Findings(item, F) : m.item = item BY <1>2 DEF MatchOf
<1>7. ASSUME NEW m \in found PROVE m.item.action \in Actions
  <2>1. PICK item : item = m.item /\ item \in DetectionItems BY <1>1, <1>5
  <2> QED BY <2>1, ItemTyped
<1> QED BY <1>1, <1>4, <1>5, <1>6, <1>7

\* What a verdict that lets a call through says of its texts.
LetThrough(I, F, label) ==
  /\ \A item \in {i \in I : i.action = "block" /\ i.detector # "model"}, t \in {f.text : f \in ToSet(F)} :
       \A w \in ToSet(item.words) : ~Occurs(t, w)
  /\ \A item \in {i \in I : i.detector = "model"} :
       /\ label = "unavailable" => item.unavailable # "block"
       /\ label = "unsafe" => item.action # "block"
  /\ \A item \in I, t \in {f.text : f \in ToSet(F)} :
       item.words # << >> /\ item.detector # "model" => Len(t) <= MaxMatcherWork

LEMMA ModelActionIs ==
  ASSUME NEW item \in DetectionItems, NEW label
  PROVE  /\ ModelAction(item, label) \in Actions
         /\ label = "unavailable" /\ item.unavailable = "block" => ModelAction(item, label) = "block"
         /\ label = "unsafe" /\ item.action = "block" => ModelAction(item, label) = "block"
<1>1. item.action \in Actions BY ItemTyped
<1>2. "allow" \in Actions /\ "audit" \in Actions /\ "block" \in Actions BY DEF Actions
<1>3. CASE label = "unavailable" BY <1>2, <1>3 DEF ModelAction
<1>4. CASE label = "unsafe"
  <2>1. label # "unavailable" /\ ModelMatches(label, item) BY <1>4 DEF ModelMatches
  <2>2. ModelAction(item, label) = item.action BY <2>1 DEF ModelAction
  <2> QED BY <1>1, <1>4, <2>2
<1>5. CASE label # "unavailable" /\ label # "unsafe" BY <1>1, <1>2, <1>5 DEF ModelAction
<1> QED BY <1>3, <1>4, <1>5

LEMMA JudgedLetsThrough ==
  ASSUME NEW I, NEW F \in Seq(Fragments), NEW label, NEW exact, NEW models, NEW found, NEW first, NEW v,
         Judging(I, F, label, exact, models, found, first, v),
         v.action # "error", v.action # "block"
  PROVE  LetThrough(I, F, label)
<1>1. ~OverBudget(exact, F)
  <2> SUFFICES ASSUME OverBudget(exact, F) PROVE FALSE OBVIOUS
  <2>1. v = [action |-> "error", seen |-> << >>] BY DEF Judging
  <2> QED BY <2>1
<1>2. Cardinality(found) > MaxFindings => FALSE
  <2> SUFFICES ASSUME Cardinality(found) > MaxFindings PROVE FALSE OBVIOUS
  <2>1. v = [action |-> "error", seen |-> << >>] BY DEF Judging
  <2> QED BY <2>1
<1>3. first # "block"
  <2> SUFFICES ASSUME first = "block" PROVE FALSE OBVIOUS
  <2>1. v = [action |-> "block", seen |-> << >>] BY <1>1, <1>2 DEF Judging
  <2> QED BY <2>1
<1>4. /\ \A item \in ToSet(exact) : item \in DetectionItems /\ item.detector # "model"
      /\ \A item \in ToSet(exact) : \A m \in Findings(item, F) : m \in found /\ m.item = item
      /\ {f.item.action : f \in found} \in SUBSET Actions
  BY FoundIs
<1>5. "block" \notin {f.item.action : f \in found} /\ first \in Actions
  <2>1. PICK A \in SUBSET Actions : A = {f.item.action : f \in found} BY <1>4
  <2>2. first = Strictest(A) BY <2>1 DEF Judging
  <2>3. "allow" \in Actions BY DEF Actions
  <2> QED BY <1>3, <2>1, <2>2, <2>3, StrictestIs
<1>6. ASSUME NEW item \in {i \in I : i.action = "block" /\ i.detector # "model"},
             NEW f \in ToSet(F), NEW w \in ToSet(item.words)
      PROVE  ~Occurs(f.text, w)
  <2> SUFFICES ASSUME Occurs(f.text, w) PROVE FALSE OBVIOUS
  <2>1. item \in ToSet(exact) BY DEF Judging
  <2>2. PICK i \in DOMAIN F : f = F[i] BY DEF ToSet
  <2>3. PICK k \in DOMAIN F[i].text : Hit(F[i].text, w, k) BY <2>2 DEF Occurs
  <2>4. item.words \in Seq(Words) BY <1>4, <2>1, ItemTyped
  <2>5. Findings(item, F) # {} BY <2>3, <2>4, FindingsAre
  <2>6. PICK m \in found : m.item = item BY <1>4, <2>1, <2>5
  <2> QED BY <1>5, <2>6
<1>7. ASSUME NEW item \in {i \in I : i.detector = "model"}
      PROVE  /\ label = "unavailable" => item.unavailable # "block"
             /\ label = "unsafe" => item.action # "block"
  <2>1. item \in ToSet(models) BY DEF Judging
  <2>2. PICK i \in DOMAIN models : item = models[i] BY <2>1 DEF ToSet
  <2>3. models # << >> BY <2>2
  <2>4. PICK A : A = {first} \cup {ModelAction(models[j], label) : j \in DOMAIN models} OBVIOUS
  <2>5. v.action = Strictest(A)
    <3>1. v = [action |-> Strictest(A),
               seen |-> IF label = "unavailable" THEN << >>
                        ELSE IF first = "mask" THEN MaskedFragments(F, found) ELSE F]
      BY <1>1, <1>2, <1>3, <2>3, <2>4 DEF Judging
    <3> QED BY <3>1
  <2>6. \A j \in DOMAIN models : models[j] \in DetectionItems BY DEF Judging
  <2>7. \A j \in DOMAIN models : ModelAction(models[j], label) \in Actions BY <2>6, ModelActionIs
  <2>8. A \in SUBSET Actions BY <1>5, <2>4, <2>7
  <2>9. "block" \notin A BY <2>5, <2>8, StrictestIs
  <2>10. ModelAction(item, label) # "block" BY <2>2, <2>4, <2>9
  <2>11. item \in DetectionItems BY <2>2, <2>6
  <2> QED BY <2>10, <2>11, ModelActionIs
<1>8. ASSUME NEW item \in I, NEW f \in ToSet(F), item.words # << >>, item.detector # "model"
      PROVE  Len(f.text) <= MaxMatcherWork
  <2>1. item \in ToSet(exact) BY <1>8 DEF Judging
  <2>2. PICK i \in DOMAIN exact : item = exact[i] BY <2>1 DEF ToSet
  <2>3. PICK j \in DOMAIN F : f = F[j] BY DEF ToSet
  <2>4. ~(Len(F[j].text) > MaxMatcherWork) BY <1>1, <1>8, <2>2 DEF OverBudget
  <2>5. F[j] \in Fragments OBVIOUS
  <2>6. PICK t \in Seq(Letters) : t = F[j].text BY <2>5 DEF Fragments, Words
  <2>7. Len(t) \in Nat /\ MaxMatcherWork \in Nat BY BudgetsAssumption
  <2> QED BY <2>3, <2>4, <2>6, <2>7
<1>9. \A item \in {i \in I : i.action = "block" /\ i.detector # "model"}, t \in {f.text : f \in ToSet(F)} :
        \A w \in ToSet(item.words) : ~Occurs(t, w)
  BY <1>6
<1>10. \A item \in I, t \in {f.text : f \in ToSet(F)} :
         item.words # << >> /\ item.detector # "model" => Len(t) <= MaxMatcherWork
  BY <1>8
<1> QED BY <1>7, <1>9, <1>10 DEF LetThrough

\* A text y shows x without some words: none of them is left, all other letters
\* are, and no marks touch.
Shows(x, y, words, named) ==
  /\ \A w \in words : ~Occurs(y, w)
  /\ Cardinality({k \in DOMAIN y : y[k] \notin named \cup {Redacted}})
       = Cardinality({k \in DOMAIN x : x[k] \notin named})
  /\ \A k \in DOMAIN y : ~Hit(y, <<Redacted, Redacted>>, k)

LEMMA NoMarkIsALetter == Redacted \notin Letters
BY DEF Letters

LEMMA TextMasked ==
  ASSUME NEW x \in Seq(Letters), NEW c \in SUBSET (DOMAIN x), NEW words \in SUBSET Words,
         NEW named, \A k \in c : x[k] \in named,
         \A w \in words : \A k \in DOMAIN x : Hit(x, w, k) => k \in c
  PROVE  Masked(x, c) \in Seq(Letters \cup {Redacted}) /\ Shows(x, Masked(x, c), words, named)
<1>1. Redacted \notin Letters BY NoMarkIsALetter
<1>2. PICK y : y = Masked(x, c) OBVIOUS
<1>3. /\ y \in Seq(Letters \cup {Redacted})
      /\ \E g : Masking(y, g, x, c, Len(x))
      /\ Cardinality(Others(y, Len(y), named \cup {Redacted})) = Cardinality(Others(x, Len(x), named))
  <2>1. Masked(x, c) \in Seq(Letters \cup {Redacted}) BY <1>1, MaskedIsMasking
  <2>2. \E g : Masking(Masked(x, c), g, x, c, Len(x)) BY <1>1, MaskedIsMasking
  <2>3. SameOthers(x, Masked(x, c), named) BY <1>1, MaskedIsMasking
  <2> QED BY <1>2, <2>1, <2>2, <2>3 DEF SameOthers
<1>4. PICK g : Masking(y, g, x, c, Len(x)) BY <1>3
<1>5. ASSUME NEW w \in words, NEW k \in DOMAIN y, Hit(y, w, k) PROVE FALSE
  <2>1. w \in Seq(Letters) /\ w # << >> BY DEF Words
  <2>2. g[k] \in DOMAIN x /\ g[k] \notin c /\ Hit(x, w, g[k])
    BY <1>1, <1>3, <1>4, <1>5, <2>1, HitInMasked
  <2> QED BY <2>2
<1>6. \A k \in DOMAIN y : ~Hit(y, <<Redacted, Redacted>>, k)
  BY <1>1, <1>3, <1>4, MarksDoNotTouch
<1>7. DOMAIN y = 1..Len(y) /\ DOMAIN x = 1..Len(x) BY <1>3
<1>8. Cardinality({k \in DOMAIN y : y[k] \notin named \cup {Redacted}})
         = Cardinality({k \in DOMAIN x : x[k] \notin named})
  BY <1>3, <1>7 DEF Others
<1>9. \A w \in words : ~Occurs(y, w) BY <1>5 DEF Occurs
<1>10. Shows(x, y, words, named) BY <1>6, <1>8, <1>9 DEF Shows
<1> QED BY <1>2, <1>3, <1>10

LEMMA TextUnmasked ==
  ASSUME NEW x \in Seq(Letters), NEW words \in SUBSET Words, NEW named,
         \A w \in words : \A k \in DOMAIN x : ~Hit(x, w, k)
  PROVE  Shows(x, x, words, named)
<1>1. PICK n \in Nat : DOMAIN x = 1..n /\ n = Len(x) OBVIOUS
<1>2. \A k \in 1..n : x[k] # Redacted BY <1>1, NoMarkIsALetter
<1>3. {k \in DOMAIN x : x[k] \notin named \cup {Redacted}} = {k \in DOMAIN x : x[k] \notin named}
  BY <1>1, <1>2
<1>4. ASSUME NEW k \in DOMAIN x, Hit(x, <<Redacted, Redacted>>, k) PROVE FALSE
  <2> DEFINE M == Letters \cup {Redacted}
  <2>1. PICK word : word = <<Redacted, Redacted>> OBVIOUS
  <2>2. word \in Seq(M) /\ word # << >> /\ Len(word) = 2 /\ word[1] = Redacted BY <2>1
  <2>3. k \in Nat \ {0} /\ k + 1 - 1 = k /\ 1 \in 1..2 BY <1>1
  <2>4. \A j \in 1..n : x[j] \in M BY <1>1
  <2>5. x \in Seq(M) BY <1>1, <2>4
  <2> HIDE DEF M
  <2>6. word # << >> /\ word \in Seq(M) /\ k \in Nat \ {0} BY <2>2, <2>3
  <2>7. Hit(x, word, k) <=> /\ k + Len(word) - 1 <= Len(x)
                            /\ \A j \in 1..Len(word) : x[k + j - 1] = word[j]
    BY <2>5, <2>6, HitMeans
  <2>8. x[k] = Redacted BY <1>4, <2>1, <2>2, <2>3, <2>7
  <2> QED BY <1>1, <1>2, <2>8
<1>5. \A w \in words : ~Occurs(x, w) BY DEF Occurs
<1>6. \A k \in DOMAIN x : ~Hit(x, <<Redacted, Redacted>>, k) BY <1>4
<1> QED BY <1>3, <1>5, <1>6 DEF Shows

\* The words that are masked, and their letters.
MaskedWords(I) == UNION {ToSet(i.words) : i \in {i \in I : i.action = "mask"}}
MaskedLetters(I) == UNION {ToSet(w) : w \in MaskedWords(I)}

LEMMA MaskedWordsAre ==
  ASSUME NEW I, NEW F \in Seq(Fragments), NEW label, NEW exact, NEW models, NEW found, NEW first, NEW v,
         Judging(I, F, label, exact, models, found, first, v)
  PROVE  /\ \A w \in MaskedWords(I) : \E item \in ToSet(exact) : item.action = "mask" /\ w \in ToSet(item.words)
         /\ \A item \in ToSet(exact) : item.action = "mask" => ToSet(item.words) \subseteq MaskedWords(I)
         /\ MaskedWords(I) \in SUBSET Words
<1>1. \A item \in ToSet(exact) : item \in DetectionItems /\ item.detector # "model" BY FoundIs
<1>2. ASSUME NEW w \in MaskedWords(I)
      PROVE  \E item \in ToSet(exact) : item.action = "mask" /\ w \in ToSet(item.words)
  <2>1. PICK item \in I : item.action = "mask" /\ w \in ToSet(item.words) BY DEF MaskedWords
  <2>2. item.detector # "model"
    <3> SUFFICES ASSUME item.detector = "model" PROVE FALSE OBVIOUS
    <3>1. item \in ToSet(models) BY DEF Judging
    <3>2. item \in DetectionItems BY <3>1 DEF Judging, ToSet
    <3> QED BY <2>1, <3>2, ItemTyped
  <2>3. item \in ToSet(exact) BY <2>2 DEF Judging
  <2> QED BY <2>1, <2>3
<1>3. \A item \in ToSet(exact) : item \in I BY DEF Judging
<1>4. \A item \in ToSet(exact) : item.action = "mask" => ToSet(item.words) \subseteq MaskedWords(I)
  BY <1>3 DEF MaskedWords
<1>5. ASSUME NEW w \in MaskedWords(I) PROVE w \in Words
  <2>1. PICK item \in ToSet(exact) : item.action = "mask" /\ w \in ToSet(item.words) BY <1>2
  <2>2. item.words \in Seq(Words) BY <1>1, <2>1, ItemTyped
  <2> QED BY <2>1, <2>2 DEF ToSet
<1> QED BY <1>2, <1>4, <1>5

\* A match lies in the text it was found in.
LEMMA MatchInText ==
  ASSUME NEW F \in Seq(Fragments), NEW item, item.words \in Seq(Words), NEW m, MatchOf(F, item, m)
  PROVE  /\ m.span \subseteq DOMAIN F[m.at].text
         /\ \A k \in m.span : \E word \in ToSet(item.words) : F[m.at].text[k] \in ToSet(word)
<1>1. PICK x : x = F[m.at].text OBVIOUS
<1>2. F[m.at] \in Fragments BY DEF MatchOf
<1>3. x \in Seq(Letters) BY <1>1, <1>2 DEF Fragments, Words
<1>4. PICK n \in Nat : DOMAIN x = 1..n /\ n = Len(x) BY <1>3
<1>5. PICK word \in ToSet(item.words), j \in DOMAIN x : Hit(x, word, j) /\ m.span = Span(word, j)
  BY <1>1 DEF MatchOf
<1>6. word \in Words BY <1>5 DEF ToSet
<1>7. word \in Seq(Letters) /\ word # << >> BY <1>6 DEF Words
<1>8. PICK l \in Nat \ {0} : l = Len(word) /\ DOMAIN word = 1..l BY <1>7, EmptySeq
<1>9. j \in Nat \ {0} BY <1>4
<1>10. Hit(x, word, j) <=> /\ j + Len(word) - 1 <= Len(x)
                           /\ \A i \in 1..Len(word) : x[j + i - 1] = word[i]
  BY <1>3, <1>7, <1>9, HitMeans, SMTT(40)
<1>11. j + l - 1 <= n /\ \A i \in 1..l : x[j + i - 1] = word[i] BY <1>4, <1>5, <1>8, <1>10
<1>12. m.span = j..(j + l - 1) BY <1>5, <1>8 DEF Span
<1>13. m.span \subseteq 1..n BY <1>9, <1>11, <1>12
<1>14. ASSUME NEW k \in m.span PROVE x[k] \in ToSet(word)
  <2>1. k \in j..(j + l - 1) BY <1>12
  <2>2. PICK i \in 1..l : k = j + i - 1
    <3>1. k - j + 1 \in 1..l /\ k = j + (k - j + 1) - 1 BY <1>9, <2>1
    <3> QED BY <3>1
  <2>3. x[k] = word[i] BY <1>11, <2>2
  <2> QED BY <1>8, <2>3 DEF ToSet
<1> QED BY <1>1, <1>4, <1>5, <1>13, <1>14

\* A word to be masked is found wherever it is.
LEMMA MaskedIsFound ==
  ASSUME NEW I, NEW F \in Seq(Fragments), NEW label, NEW exact, NEW models, NEW found, NEW first, NEW v,
         Judging(I, F, label, exact, models, found, first, v),
         NEW f \in DOMAIN F, NEW w \in MaskedWords(I), NEW k \in DOMAIN F[f].text, Hit(F[f].text, w, k)
  PROVE  \E m \in found : /\ m.item.action = "mask" /\ m.id = F[f].id
                          /\ k \in m.span /\ m.span \subseteq DOMAIN F[f].text
<1>1. PICK item \in ToSet(exact) : item.action = "mask" /\ w \in ToSet(item.words) BY MaskedWordsAre
<1>2. /\ \A i \in ToSet(exact) : i \in DetectionItems /\ i.detector # "model"
      /\ \A m \in found : m.item \in ToSet(exact) /\ MatchOf(F, m.item, m)
      /\ \A i \in ToSet(exact) : \A m \in Findings(i, F) : m \in found /\ m.item = i
  BY FoundIs
<1>3. item.words \in Seq(Words) BY <1>2, ItemTyped
<1>4. PICK m \in Findings(item, F) : m.item = item /\ m.at = f /\ m.id = F[f].id /\ k \in m.span
  <2>1. NoneMissed(F, item, Findings(item, F)) BY <1>1, <1>3, FindingsAre
  <2> QED BY <1>1, <2>1 DEF NoneMissed
<1>5. m \in found /\ MatchOf(F, item, m) BY <1>2, <1>4
<1>6. m.span \subseteq DOMAIN F[m.at].text BY <1>3, <1>5, MatchInText
<1> QED BY <1>1, <1>4, <1>5, <1>6

\* The fragments a model is shown in the place of those of a request.
FragmentsMasked(F, found, q) ==
  \A f \in DOMAIN F :
    q[f] = IF \E m \in found : m.item.action = "mask" /\ m.id = F[f].id
           THEN [id |-> F[f].id, text |-> Masked(F[f].text, LettersToMask(found, F[f].id, F[f].text))]
           ELSE F[f]

LEMMA FragmentsAreMasked ==
  ASSUME NEW F \in Seq(Fragments), OnePerMessage(F), NEW found
  PROVE  FragmentsMasked(F, found, MaskedFragments(F, found))
<1> SUFFICES ASSUME NEW f \in DOMAIN F
             PROVE  MaskedFragments(F, found)[f] =
                      IF \E m \in found : m.item.action = "mask" /\ m.id = F[f].id
                      THEN [id |-> F[f].id,
                            text |-> Masked(F[f].text, LettersToMask(found, F[f].id, F[f].text))]
                      ELSE F[f]
  BY DEF FragmentsMasked
<1> DEFINE Final(g) == /\ F[g].id = F[f].id
                        /\ \A h \in DOMAIN F : F[h].id = F[f].id => h <= g
           last == CHOOSE g \in DOMAIN F : Final(g)
<1>1. \A g \in DOMAIN F : F[g].id = F[f].id => g = f BY DEF OnePerMessage
<1>2. f \in Nat OBVIOUS
<1>3. \A g \in DOMAIN F : F[g].id = F[f].id => g <= f BY <1>1, <1>2
<1>4. Final(f) BY <1>3
<1>5. \A g \in DOMAIN F : Final(g) => g = f BY <1>1
<1>6. last = f
  <2> HIDE DEF Latest
  <2> QED BY <1>4, <1>5
<1>7. MaskedFragments(F, found)[f] =
        IF \E m \in found : m.item.action = "mask" /\ m.id = F[f].id
        THEN [id |-> F[f].id, text |-> Masked(F[last].text, LettersToMask(found, F[f].id, F[last].text))]
        ELSE F[f]
  BY DEF MaskedFragments
<1> HIDE DEF last
<1> QED BY <1>6, <1>7

\* The texts of the fragments are shown without the masked words.
LEMMA FoundIsMasked ==
  ASSUME NEW I, NEW F \in Seq(Fragments), NEW label, NEW exact, NEW models, NEW found, NEW first, NEW v,
         Judging(I, F, label, exact, models, found, first, v), OnePerMessage(F),
         NEW f \in DOMAIN F
  PROVE  /\ Masked(F[f].text, LettersToMask(found, F[f].id, F[f].text)) \in Seq(Letters \cup {Redacted})
         /\ Shows(F[f].text, Masked(F[f].text, LettersToMask(found, F[f].id, F[f].text)),
                  MaskedWords(I), MaskedLetters(I))
<1>1. F[f] \in Fragments OBVIOUS
<1>2. PICK x \in Seq(Letters) : x = F[f].text BY <1>1 DEF Fragments, Words
<1>3. PICK c : c = LettersToMask(found, F[f].id, F[f].text) OBVIOUS
<1>4. /\ \A i \in ToSet(exact) : i \in DetectionItems /\ i.detector # "model"
      /\ \A m \in found : m.item \in ToSet(exact) /\ MatchOf(F, m.item, m)
  BY FoundIs
<1>5. c \in SUBSET (DOMAIN x) BY <1>2, <1>3 DEF LettersToMask
<1>6. ASSUME NEW k \in c PROVE x[k] \in MaskedLetters(I)
  <2>1. PICK m \in found : m.item.action = "mask" /\ m.id = F[f].id /\ k \in m.span
    BY <1>3 DEF LettersToMask
  <2>2. PICK item : item = m.item /\ item \in ToSet(exact) /\ MatchOf(F, item, m) BY <1>4
  <2>3. m.at = f BY <2>1, <2>2 DEF MatchOf, OnePerMessage
  <2>4. item.words \in Seq(Words) BY <1>4, <2>2, ItemTyped
  <2>5. PICK word \in ToSet(item.words) : F[m.at].text[k] \in ToSet(word)
    BY <2>1, <2>2, <2>4, MatchInText
  <2>6. word \in MaskedWords(I) BY <2>1, <2>2, <2>5, MaskedWordsAre
  <2> QED BY <1>2, <2>3, <2>5, <2>6 DEF MaskedLetters
<1>7. ASSUME NEW w \in MaskedWords(I), NEW k \in DOMAIN x, Hit(x, w, k) PROVE k \in c
  <2>1. PICK m \in found : /\ m.item.action = "mask" /\ m.id = F[f].id
                           /\ k \in m.span /\ m.span \subseteq DOMAIN F[f].text
    BY <1>2, <1>7, MaskedIsFound
  <2>2. m.span \in {g.span : g \in {g \in found : g.item.action = "mask" /\ g.id = F[f].id}} BY <2>1
  <2> QED BY <1>3, <2>1, <2>2 DEF LettersToMask
<1>8. MaskedWords(I) \in SUBSET Words BY MaskedWordsAre
<1>9. Masked(x, c) \in Seq(Letters \cup {Redacted}) /\ Shows(x, Masked(x, c), MaskedWords(I), MaskedLetters(I))
  BY <1>5, <1>6, <1>7, <1>8, TextMasked
<1> QED BY <1>2, <1>3, <1>9

\* What a model is shown.
SeesMasked(I, F, q) ==
  /\ Len(q) = Len(F)
  /\ \A f \in DOMAIN F : Shows(F[f].text, q[f].text, MaskedWords(I), MaskedLetters(I))

LEMMA NothingToMask ==
  ASSUME NEW I, NEW F \in Seq(Fragments), NEW label, NEW exact, NEW models, NEW found, NEW first, NEW v,
         Judging(I, F, label, exact, models, found, first, v), NEW f \in DOMAIN F,
         ~ \E m \in found : m.item.action = "mask" /\ m.id = F[f].id
  PROVE  Shows(F[f].text, F[f].text, MaskedWords(I), MaskedLetters(I))
<1>1. F[f] \in Fragments OBVIOUS
<1>2. PICK x \in Seq(Letters) : x = F[f].text BY <1>1 DEF Fragments, Words
<1>3. ASSUME NEW w \in MaskedWords(I), NEW k \in DOMAIN x, Hit(x, w, k) PROVE FALSE
  BY <1>2, <1>3, MaskedIsFound
<1>4. MaskedWords(I) \in SUBSET Words BY MaskedWordsAre
<1>5. Shows(x, x, MaskedWords(I), MaskedLetters(I)) BY <1>3, <1>4, TextUnmasked
<1> QED BY <1>2, <1>5

LEMMA JudgedSeesMasked ==
  ASSUME NEW I, NEW F \in Seq(Fragments), NEW label, NEW exact, NEW models, NEW found, NEW first, NEW v,
         Judging(I, F, label, exact, models, found, first, v), OnePerMessage(F),
         v.seen # << >>
  PROVE  SeesMasked(I, F, v.seen)
<1>1. v.seen = (IF first = "mask" THEN MaskedFragments(F, found) ELSE F) /\ first # "block"
  <2>1. ~(OverBudget(exact, F) \/ Cardinality(found) > MaxFindings)
    <3> SUFFICES ASSUME OverBudget(exact, F) \/ Cardinality(found) > MaxFindings PROVE FALSE OBVIOUS
    <3>1. v = [action |-> "error", seen |-> << >>] BY DEF Judging
    <3> QED BY <3>1
  <2>2. first # "block"
    <3> SUFFICES ASSUME first = "block" PROVE FALSE OBVIOUS
    <3>1. v = [action |-> "block", seen |-> << >>] BY <2>1 DEF Judging
    <3> QED BY <3>1
  <2>3. models # << >>
    <3> SUFFICES ASSUME models = << >> PROVE FALSE OBVIOUS
    <3>1. v = [action |-> first, seen |-> << >>] BY <2>1, <2>2 DEF Judging
    <3> QED BY <3>1
  <2>4. PICK a : a = Strictest({first} \cup {ModelAction(models[j], label) : j \in DOMAIN models})
    OBVIOUS
  <2>5. v = [action |-> a, seen |-> IF label = "unavailable" THEN << >>
                                    ELSE IF first = "mask" THEN MaskedFragments(F, found) ELSE F]
    BY <2>1, <2>2, <2>3, <2>4 DEF Judging
  <2>6. v.seen = IF label = "unavailable" THEN << >>
                 ELSE IF first = "mask" THEN MaskedFragments(F, found) ELSE F
    BY <2>5
  <2> QED BY <2>2, <2>6
<1>2. PICK n \in Nat : n = Len(F) /\ DOMAIN F = 1..n OBVIOUS
<1>3. CASE first = "mask"
  <2>1. PICK q : q = MaskedFragments(F, found) /\ q = v.seen /\ FragmentsMasked(F, found, q)
    BY <1>1, <1>3, FragmentsAreMasked
  <2>2. ASSUME NEW f \in DOMAIN F
        PROVE  /\ q[f] \in [id : Nat, text : Seq(Letters \cup {Redacted})]
               /\ Shows(F[f].text, q[f].text, MaskedWords(I), MaskedLetters(I))
    <3>1. F[f] \in Fragments OBVIOUS
    <3>2. F[f] \in [id : Nat, text : Seq(Letters \cup {Redacted})]
      <4>1. F[f].id \in Nat /\ F[f].text \in Seq(Letters) /\ F[f] = [id |-> F[f].id, text |-> F[f].text]
        BY <3>1 DEF Fragments, Words
      <4>2. PICK x \in Seq(Letters) : x = F[f].text BY <4>1
      <4>3. \A k \in 1..Len(x) : x[k] \in Letters \cup {Redacted} BY <4>2
      <4>4. x \in Seq(Letters \cup {Redacted}) BY <4>2, <4>3
      <4> QED BY <4>1, <4>2, <4>4
    <3>3. CASE \E m \in found : m.item.action = "mask" /\ m.id = F[f].id
      <4>1. PICK y : y = Masked(F[f].text, LettersToMask(found, F[f].id, F[f].text)) OBVIOUS
      <4>2. q[f] = [id |-> F[f].id, text |-> y] BY <2>1, <3>3, <4>1 DEF FragmentsMasked
      <4>3. y \in Seq(Letters \cup {Redacted}) /\ Shows(F[f].text, y, MaskedWords(I), MaskedLetters(I))
        BY <4>1, FoundIsMasked
      <4>4. F[f].id \in Nat BY <3>1 DEF Fragments
      <4> QED BY <4>2, <4>3, <4>4
    <3>4. CASE ~ \E m \in found : m.item.action = "mask" /\ m.id = F[f].id
      <4>1. q[f] = F[f] BY <2>1, <3>4 DEF FragmentsMasked
      <4>2. Shows(F[f].text, F[f].text, MaskedWords(I), MaskedLetters(I)) BY <3>4, NothingToMask
      <4> QED BY <3>2, <4>1, <4>2
    <3> QED BY <3>3, <3>4
  <2>3. Len(q) = n
    <3> DEFINE R == [id : Nat, text : Seq(Letters \cup {Redacted})]
    <3>1. \A f \in 1..n : q[f] \in R BY <1>2, <2>2
    <3>2. DOMAIN q = 1..n /\ q = [f \in DOMAIN q |-> q[f]] BY <1>2, <2>1 DEF MaskedFragments
    <3> HIDE DEF R
    <3>3. q \in [1..n -> R] BY <3>1, <3>2
    <3>4. q \in Seq(R) BY <3>3
    <3> QED BY <3>2, <3>4
  <2> QED BY <1>2, <2>1, <2>2, <2>3 DEF SeesMasked
<1>4. CASE first # "mask"
  <2>1. v.seen = F BY <1>1, <1>4
  <2>2. PICK A : A = {m.item.action : m \in found} OBVIOUS
  <2>3. A \in SUBSET Actions BY <2>2, FoundIs
  <2>4. first = Strictest(A) BY <2>2 DEF Judging
  <2>5. "mask" \notin A BY <1>1, <1>4, <2>3, <2>4, StrictestIs
  <2>6. \A m \in found : m.item.action # "mask" BY <2>2, <2>5
  <2>7. \A f \in DOMAIN F : Shows(F[f].text, F[f].text, MaskedWords(I), MaskedLetters(I))
    BY <2>6, NothingToMask
  <2> QED BY <2>1, <2>7 DEF SeesMasked
<1> QED BY <1>3, <1>4

\* The verdict on a call, before and after it is judged; a call goes on only
\* with one that lets it through.
GuardInv ==
  /\ call \in RelayCalls
  /\ verdict.seen # << >> => verdict = Judged
  /\ call.out = "openai" /\ phase \notin {"asked", "refused"} =>
       verdict = Judged /\ verdict.action \notin {"block", "error"}
  /\ money # "none" => phase \notin {"asked", "admitted", "refused"}

LEMMA GuardInitially == RelayInit => GuardInv
<1> SUFFICES ASSUME RelayInit PROVE GuardInv OBVIOUS
<1>1. call \in RelayCalls /\ phase = "asked" /\ verdict.seen = << >> /\ money = "none"
  BY DEF RelayInit
<1> QED BY <1>1 DEF GuardInv

\* A step that leaves call and verdict alone.
LEMMA GuardKept ==
  ASSUME GuardInv, call' = call, verdict' = verdict,
         phase \in {"asked", "refused"} => phase' \in {"asked", "refused"} \/ call.out # "openai",
         money' # "none" => phase' \notin {"asked", "admitted", "refused"}
  PROVE  GuardInv'
<1>1. PICK j : j = Judged OBVIOUS
<1>2. Judged' = j BY <1>1 DEF Judged
<1>3. call.out = "openai" /\ phase' \notin {"asked", "refused"} => phase \notin {"asked", "refused"}
  OBVIOUS
<1> QED BY <1>1, <1>2, <1>3 DEF GuardInv

LEMMA GuardStep == GuardInv /\ [RelayNext]_relayVars => GuardInv'
<1> SUFFICES ASSUME GuardInv, [RelayNext]_relayVars PROVE GuardInv' OBVIOUS
<1>1. CASE Judge
  <2>1. PICK j : j = Judged OBVIOUS
  <2>2. call' = call /\ money' = money /\ phase = "asked" BY <1>1 DEF Judge
  <2>3. Judged' = j BY <2>1, <2>2 DEF Judged
  <2>4. verdict' \in {j, [action |-> "error", seen |-> << >>]} BY <1>1, <2>1 DEF Judge
  <2>5. phase' = IF verdict'.action \in {"block", "error"} THEN "refused" ELSE "admitted"
    BY <1>1 DEF Judge
  <2>6. money = "none" BY <2>2 DEF GuardInv
  <2>7. CASE verdict' = j
    <3>1. phase' \notin {"asked", "refused"} => verdict'.action \notin {"block", "error"} BY <2>5
    <3> QED BY <2>2, <2>3, <2>6, <2>7, <3>1 DEF GuardInv
  <2>8. CASE verdict' = [action |-> "error", seen |-> << >>]
    <3>1. verdict'.action = "error" /\ verdict'.seen = << >> BY <2>8
    <3>2. phase' = "refused" BY <2>5, <3>1
    <3> QED BY <2>2, <2>6, <3>1, <3>2 DEF GuardInv
  <2> QED BY <2>4, <2>7, <2>8
<1>2. CASE ConvertRequest
  <2>1. call' = call /\ verdict' = verdict /\ money' = money /\ phase = "asked" /\ call.out # "openai"
    BY <1>2 DEF ConvertRequest
  <2>2. money = "none" BY <2>1 DEF GuardInv
  <2> QED BY <2>1, <2>2, GuardKept
<1>3. CASE ReserveMaximum
  <2>1. call' = call /\ verdict' = verdict /\ phase = "admitted" BY <1>3 DEF ReserveMaximum
  <2>2. \/ phase' = "held" /\ money' = "held"
        \/ phase' = "refused" /\ money' = money
    BY <1>3 DEF ReserveMaximum
  <2>3. money = "none" BY <2>1 DEF GuardInv
  <2> QED BY <2>1, <2>2, <2>3, GuardKept
<1>4. CASE Connect
  <2>1. call' = call /\ verdict' = verdict /\ phase = "held" /\ phase' \in {"streaming", "failed"}
    BY <1>4 DEF Connect
  <2> QED BY <2>1, GuardKept
<1>5. ASSUME NEW ch \in Chunks[call.sends], DataLine(ch) PROVE GuardInv'
  <2>1. call' = call /\ verdict' = verdict /\ phase = "streaming" /\ phase' = phase
    BY <1>5 DEF DataLine
  <2> QED BY <2>1, GuardKept
<1>6. CASE RawLine \/ BareLine
  <2>1. call' = call /\ verdict' = verdict /\ phase = "streaming" /\ phase' = phase
    BY <1>6 DEF RawLine, BareLine
  <2> QED BY <2>1, GuardKept
<1>7. CASE Leave
  <2>1. call' = call /\ verdict' = verdict /\ phase = "streaming" /\ phase' = phase
    BY <1>7 DEF Leave
  <2> QED BY <2>1, GuardKept
<1>8. CASE Interrupt
  <2>1. call' = call /\ verdict' = verdict /\ phase = "streaming" /\ phase' = "interrupted"
    BY <1>8 DEF Interrupt
  <2> QED BY <2>1, GuardKept
<1>9. CASE Complete
  <2>1. call' = call /\ verdict' = verdict /\ phase = "streaming" /\ phase' = "done"
    BY <1>9 DEF Complete
  <2> QED BY <2>1, GuardKept
<1>10. CASE UNCHANGED relayVars
  <2>1. call' = call /\ verdict' = verdict /\ phase' = phase /\ money' = money
    BY <1>10 DEF relayVars
  <2>2. money' # "none" => phase' \notin {"asked", "admitted", "refused"} BY <2>1 DEF GuardInv
  <2> QED BY <2>1, <2>2, GuardKept
<1> QED BY <1>1, <1>2, <1>3, <1>4, <1>5, <1>6, <1>7, <1>8, <1>9, <1>10 DEF RelayNext

\* What is judged about a call.
LEMMA JudgedIs ==
  ASSUME call \in RelayCalls
  PROVE  /\ \E exact, models, found, first :
              Judging(Items(Loaded(call.policies), call.scope), ChatFragments(call.messages), call.label,
                      exact, models, found, first, Judged)
         /\ ChatFragments(call.messages) \in Seq(Fragments)
         /\ (\A m \in DOMAIN call.messages : Len(call.messages[m]) <= 1) =>
              OnePerMessage(ChatFragments(call.messages))
<1>1. call.messages \in Seq(Seq(Seq(Letters))) /\ call.policies \in Seq(Policies)
  BY PoliciesAssumption
<1>2. PICK P : P = Loaded(call.policies) /\ P \in Seq(Policies) BY <1>1, LoadedArePolicies
<1>3. PICK F, s, b : F = ChatFragments(call.messages) /\ s = call.scope /\ b = call.label OBVIOUS
<1>4. \E exact, models, found, first :
        Judging(Items(P, s), F, b, exact, models, found, first, Evaluate(P, s, F, b))
  BY <1>2, EvaluateIs
<1>5. Judged = Evaluate(P, s, F, b) BY <1>2, <1>3 DEF Judged
<1>6. PICK exact, models, found, first : Judging(Items(P, s), F, b, exact, models, found, first, Judged)
  BY <1>4, <1>5
<1>7. PICK x \in Seq(Seq(Seq(Letters))) : x = call.messages BY <1>1
<1>8. /\ ChatFragments(x) \in Seq(Fragments)
      /\ (\A m \in DOMAIN x : Len(x[m]) <= 1) => OnePerMessage(ChatFragments(x))
  BY <1>7, RequestIsFragments
<1> QED BY <1>2, <1>3, <1>6, <1>7, <1>8

LEMMA ForbiddenStay == GuardInv => ForbiddenTextsStay
<1> SUFFICES ASSUME GuardInv, Upstream, call.out = "openai"
             PROVE  LetThrough(Items(Loaded(call.policies), call.scope),
                               ChatFragments(call.messages), call.label)
  BY DEF ForbiddenTextsStay, LetThrough, Items
<1>1. call \in RelayCalls BY DEF GuardInv
<1>2. verdict = Judged /\ verdict.action # "block" /\ verdict.action # "error"
  BY DEF GuardInv, Upstream
<1>3. PICK I, F, b : /\ I = Items(Loaded(call.policies), call.scope)
                     /\ F = ChatFragments(call.messages) /\ b = call.label
  OBVIOUS
<1>4. F \in Seq(Fragments) BY <1>1, <1>3, JudgedIs
<1>5. \E exact, models, found, first :
        Judging(Items(Loaded(call.policies), call.scope), ChatFragments(call.messages), call.label,
                exact, models, found, first, Judged)
  BY <1>1, JudgedIs
<1>6. PICK exact, models, found, first : Judging(I, F, b, exact, models, found, first, Judged)
  BY <1>3, <1>5
<1>7. LetThrough(I, F, b) BY <1>2, <1>4, <1>6, JudgedLetsThrough
<1> QED BY <1>3, <1>7

LEMMA DetectorSees == GuardInv => DetectorSeesMaskedText
<1> SUFFICES ASSUME GuardInv, verdict.seen # << >>,
                    \A m \in DOMAIN call.messages : Len(call.messages[m]) <= 1
             PROVE  SeesMasked(Items(Loaded(call.policies), call.scope),
                               ChatFragments(call.messages), verdict.seen)
  BY DEF DetectorSeesMaskedText, SeesMasked, Shows, MaskedWords, MaskedLetters, Items
<1>1. call \in RelayCalls BY DEF GuardInv
<1>2. verdict = Judged BY DEF GuardInv
<1>3. PICK I, F, b : /\ I = Items(Loaded(call.policies), call.scope)
                     /\ F = ChatFragments(call.messages) /\ b = call.label
  OBVIOUS
<1>4. F \in Seq(Fragments) /\ OnePerMessage(F) BY <1>1, <1>3, JudgedIs
<1>5. \E exact, models, found, first :
        Judging(Items(Loaded(call.policies), call.scope), ChatFragments(call.messages), call.label,
                exact, models, found, first, Judged)
  BY <1>1, JudgedIs
<1>6. PICK exact, models, found, first : Judging(I, F, b, exact, models, found, first, verdict)
  BY <1>2, <1>3, <1>5
<1>7. SeesMasked(I, F, verdict.seen) BY <1>4, <1>6, JudgedSeesMasked
<1> QED BY <1>3, <1>7

(* The guardrails judge whole requests (Evaluate of guardrails/engine.go):    *)
(* whatever the policies, messages and words are, no text a loaded policy      *)
(* forbids goes upstream, and a model detector is shown the request with the   *)
(* words that are masked taken out and nothing else.                           *)
THEOREM RelayKeepsItsPolicies == RelaySpec => []GuardrailsHold
<1>1. RelaySpec => []GuardInv
  <2>1. GuardInv /\ [RelayNext]_relayVars => GuardInv' BY GuardStep
  <2> QED BY GuardInitially, <2>1, PTL DEF RelaySpec
<1>2. GuardInv => GuardrailsHold BY ForbiddenStay, DetectorSees DEF GuardrailsHold
<1> QED BY <1>1, <1>2, PTL

=============================================================================
