---------------------------- MODULE PagedCacheInv ----------------------------
(***************************************************************************)
(* What makes attention over PagedCache exact, as an inductive invariant.  *)
(* The engine hands out pages while calls with older tables are enqueued,  *)
(* so a page's memory is right for a call only when its turn comes.  The   *)
(* invariant says which keys are still to be written to an address, and    *)
(* that the last of them, up to each call, is the one that call will read. *)
(***************************************************************************)
EXTENDS PagedCache

RowSet ==
    [req : Requests \cup {Pad}, prefill : BOOLEAN, lo : Nat, hi : Nat, from : Nat,
     tab : [Entries -> Pages \cup {-1}]]
CallSet == [rows : Seq(RowSet), form : {"paged", "dense", "cascade"}]

\* The calls that are not over, the running one first.
CallAt(n) == IF n = 0 THEN call ELSE ahead[n]
Turns == 0..Len(ahead)

\* A row of a call, as the contract has it: a page is missing only where no
\* query's window reaches.
RowOK(row) ==
    /\ row.lo < row.hi /\ row.hi <= MaxTokens
    /\ row.req = Pad \/ ~row.prefill => row.hi = row.lo + 1
    /\ row.req = Pad => ~row.prefill /\ row.from = 0 /\ row.tab = NoTable
    /\ row.req # Pad => Ctx(row) <= MaxLen
    /\ \A k \in 0..(Ctx(row) - 1) :
         row.tab[k \div PageSize] = -1 => window >= 0 /\ k < row.from - window

CallOK(c) ==
    /\ Len(c.rows) <= MaxRows
    /\ \A s \in DOMAIN c.rows : RowOK(c.rows[s])
    /\ \A s, u \in DOMAIN c.rows :
         /\ u < s => c.rows[u].hi <= c.rows[s].lo
         /\ u # s => c.rows[u].req = Pad \/ c.rows[u].req # c.rows[s].req
         /\ \A i, j \in Entries :
              c.rows[s].tab[i] = c.rows[u].tab[j] /\ c.rows[s].tab[i] # -1 => s = u /\ i = j
    /\ c.form = "cascade" => window = -1

\* The host's tables: a page has one owner, and is missing only where no later
\* query's window reaches.
TablesInv ==
    /\ \A r, q \in Requests, i, j \in Entries :
         table[r][i] = table[q][j] /\ table[r][i] # -1 => r = q /\ i = j
    /\ \A r \in Requests \ gone : \A k \in 0..(len[r] - 1) :
         table[r][k \div PageSize] = -1 => window >= 0 /\ k < len[r] - window

CallsInv ==
    /\ call \in CallSet /\ ahead \in Seq(CallSet)
    /\ \A n \in Turns : CallOK(CallAt(n))
    /\ todo \subseteq Work(call)

-----------------------------------------------------------------------------
(* Memory.                                                                  *)

\* The keys of a row that have a page, and where they are.
Held(row) == {k \in 0..(Ctx(row) - 1) : row.tab[k \div PageSize] # -1}
Spot(tab, k) == Address(tab[k \div PageSize], k % PageSize)

\* Row s of the call of turn n is still to write key k of r at address a.
RowWrites(n, s, a, r, k) ==
    LET row == CallAt(n).rows[s]
    IN  /\ row.req = r
        /\ k \in row.from..(Ctx(row) - 1)
        /\ n = 0 => <<"save", row.lo + (k - row.from)>> \in todo
        /\ a = Spot(row.tab, k)
Writes(n, a, r, k) == \E s \in DOMAIN CallAt(n).rows : RowWrites(n, s, a, r, k)

\* From turn i to turn n nobody writes anything else there.
Undisturbed(a, r, k, i, n) ==
    \A j \in i..n : \A q \in Requests, m \in Positions :
        Writes(j, a, q, m) => q = r /\ m = k

\* Once the calls up to turn n have written, address a holds key k of r.
Lasting(a, r, k, n) ==
    \/ cache[a] = <<r, k>> /\ Undisturbed(a, r, k, 0, n)
    \/ \E i \in 0..n : Writes(i, a, r, k) /\ Undisturbed(a, r, k, i, n)

\* Every call finds its keys, and so would the next one.
ReadInv ==
    \A n \in Turns : \A s \in DOMAIN CallAt(n).rows :
        LET row == CallAt(n).rows[s]
        IN  \A k \in Held(row) : Lasting(Spot(row.tab, k), row.req, k, n)

HostInv ==
    \A r \in Requests \ gone : \A k \in 0..(len[r] - 1) :
        table[r][k \div PageSize] # -1 => Lasting(Spot(table[r], k), r, k, Len(ahead))

-----------------------------------------------------------------------------
(* Buffers of the running call.                                             *)

Own(row, K) == [k \in K |-> <<row.req, k>>]

DenseInv ==
    \A s \in Chunks(call.rows) : call.form = "dense" /\ <<"gather", s>> \notin todo =>
        \A k \in Held(call.rows[s]) : dense[s][k] = <<call.rows[s].req, k>>

PartsInv ==
    \A s \in Steps(call.rows), sp \in SplitIds : <<"part", <<s, sp>>>> \notin todo =>
        LET row == call.rows[s]
        IN  parts[s][sp] = Weighed(sp, Own(row, SplitKeys(Ctx(row), window, Splits, sp)))

\* The cached keys, and the chunk's own up to the query.
Cached(row) == Own(row, 0..(row.from - 1))
Fresh(row, tok) == [k \in 0..(tok - row.lo) |-> <<row.req, row.from + k>>]

SidesInv ==
    call.form = "cascade" =>
        \A s \in Chunks(call.rows) : \A tok \in TokensOf(call.rows, s) :
            /\ <<"ctx", tok>> \notin todo =>
                 sides[0][tok] = [terms |-> Weighed(0, Cached(call.rows[s])), sinks |-> 0]
            /\ <<"new", tok>> \notin todo =>
                 sides[1][tok] = [terms |-> Weighed(1, Fresh(call.rows[s], tok)), sinks |-> 1]

\* What AttentionExact asks of a token.
Exact(row, tok) ==
    LET j == row.from + (tok - row.lo)
    IN  IF row.req = Pad THEN out[tok] = NoResult
        ELSE AttendsTo(out[tok], row.req,
                       IF window >= 0 /\ j > window THEN j - window ELSE 0, j)

Finished(s, tok) ==
    IF ~call.rows[s].prefill THEN <<"reduce", s>> \notin todo
    ELSE IF call.form = "cascade" THEN <<"merge", tok>> \notin todo
    ELSE <<"prefill", tok>> \notin todo

OutInv ==
    \A s \in Rows : \A tok \in TokensOf(call.rows, s) :
        Finished(s, tok) => Exact(call.rows[s], tok)

BuffersInv == DenseInv /\ PartsInv /\ SidesInv /\ OutInv

IInv == TypeOK /\ TablesInv /\ CallsInv /\ ReadInv /\ HostInv /\ BuffersInv
=============================================================================
