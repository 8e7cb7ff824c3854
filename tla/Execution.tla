----------------------------- MODULE Execution -----------------------------
(***************************************************************************)
(* What the runtime and Anchor do with one instruction of Programs: the    *)
(* checks on the lists of an instruction and of the calls below it, and    *)
(* the writes that are stored when its handlers return.                    *)
(***************************************************************************)
EXTENDS Programs, SequencesExt

\* Anchor: the accounts in the demanded order, with at least the demanded privileges.
Fits(list, demands) ==
  /\ Len(list) = Len(demands)
  /\ \A i \in DOMAIN demands : /\ list[i].key = demands[i].key
                               /\ demands[i].writable => list[i].writable
                               /\ demands[i].signer => list[i].signer

\* Runtime: a call passes no account and no privilege its caller does not have;
\* the caller may also sign for the addresses derived from its own program.
Granted(list, program, passes) ==
  \A m \in Entries(passes) :
    /\ m.key \in Listed(list)
    /\ m.writable => m.key \in Writable(list)
    /\ m.signer => \/ m.key \in Signing(list)
                   \/ m.key[1] = "pda" /\ m.key[2] = program

\* Runtime: a program is not entered again while another one it called is running.
MayEnter(program, chain) ==
  program \notin {chain[i] : i \in DOMAIN chain} \/ chain[Len(chain)] = program

CallsLegal(ix, list, chain, Below(_, _, _)) ==
  \A i \in DOMAIN ix.calls :
    LET c == ix.calls[i]
    IN  /\ Granted(list, ix.program, c.passes)
        /\ MayEnter(c.ix.program, chain)
        /\ Fits(c.passes, c.ix.demands)
        /\ Below(c.ix, c.passes, Append(chain, c.ix.program))

\* An instruction and four levels of calls, the depth the runtime allows.
Legal5(ix, list, chain) == ix.calls = <<>>
Legal4(ix, list, chain) == CallsLegal(ix, list, chain, Legal5)
Legal3(ix, list, chain) == CallsLegal(ix, list, chain, Legal4)
Legal2(ix, list, chain) == CallsLegal(ix, list, chain, Legal3)
IxLegal(ix) ==
  Fits(ix.accounts, ix.demands) /\ CallsLegal(ix, ix.accounts, <<ix.program>>, Legal2)

-----------------------------------------------------------------------------
\* Token accounts are derived by a program but belong to the token program.
Owns(program, key) ==
  key[1] = "pda" /\ key[2] = program /\ key[3] \notin {"usdc_vault", "escrow"}

Mark(lane, ix) == <<lane, ix.program, ix.name>>

\* As if every account held were assigned.
WriteBackAll(ix, mark, below) ==
  LET held == {k \in ix.typed : Owns(ix.program, k)}
  IN  {w \in below : w[1] \notin held} \cup {<<k, mark>> : k \in held}

\* As if the remaining accounts were written back like the typed ones.
WriteBackRemaining(ix, mark, below) ==
  LET held == {k \in Writable(ix.demands) : Owns(ix.program, k)}
      kept == IF ix.program = "token" THEN ix.typed ELSE held
  IN  {w \in below : w[1] \notin held} \cup {<<k, mark>> : k \in ix.assigns \cap kept}

\* On return Anchor writes back the typed accounts of the program that were
\* listed as writable, from the copies made on entry: what a call below changed
\* in them is overwritten, and an assignment to any other account is not stored.
WriteBack(ix, mark, below) ==
  LET held == {k \in ix.typed : Owns(ix.program, k)}
      kept == IF ix.program = "token" THEN ix.typed ELSE held
  IN  {w \in below : w[1] \notin held} \cup {<<k, mark>> : k \in ix.assigns \cap kept}

Return(lane, ix, Below(_, _)) ==
  WriteBack(ix, Mark(lane, ix), UNION {Below(lane, ix.calls[i].ix) : i \in DOMAIN ix.calls})

Stored4(lane, ix) == WriteBack(ix, Mark(lane, ix), {})
Stored3(lane, ix) == Return(lane, ix, Stored4)
Stored2(lane, ix) == Return(lane, ix, Stored3)
IxStored(lane, ix) == Return(lane, ix, Stored2)

\* The writes the handlers mean to make, of the instruction and of the calls below.
Assigned(lane, ix) == {<<k, Mark(lane, ix)>> : k \in ix.assigns}
With(lane, ix, Below(_, _)) ==
  Assigned(lane, ix) \cup UNION {Below(lane, ix.calls[i].ix) : i \in DOMAIN ix.calls}
Intended3(lane, ix) == With(lane, ix, Assigned)
Intended2(lane, ix) == With(lane, ix, Intended3)
IxIntended(lane, ix) == With(lane, ix, Intended2)
=============================================================================
