---------------------------- MODULE MCSnpGuest ------------------------------
(* SnpGuest on small tables; the .cfg files say which. *)
EXTENDS SnpGuest

Entry(type, data) == [cert_type |-> type, data |-> data]

(* A chain of keys ark -> ask -> vek, and entries that do not fit in it. *)
Ark == Entry("ARK", <<"ark", "ark">>)
Ask == Entry("ASK", <<"ask", "ark">>)
Vcek == Entry("VCEK", <<"vcek", "ask">>)
Vlek == Entry("VLEK", <<"vlek", "ask">>)
Forged == Entry("VLEK", <<"vlek", "other">>)
Crl == Entry("CRL", <<"crl">>)
Other1 == Entry("OTHER(1)", <<"other", "other">>)
Other2 == Entry("OTHER(2)", <<>>)
End == Entry("Empty", <<"e">>)

MCEntries == {Ark, Ask, Vcek, Vlek, Forged, Crl, Other1, Other2, End}

(* Every table of at most three entries, and the chains in every order. *)
MCTables ==
  UNION {[1 .. n -> MCEntries] : n \in 0 .. 3}
    \cup {t \in [1 .. 4 -> {Ark, Ask, Vcek, Vlek, Other1}] :
            \A i, j \in 1 .. 4 : t[i] = t[j] => i = j}

(* Tables of one page and of two, and none. *)
MCSmall == {<<>>, <<Ask, Ark, Vlek>>, <<Vcek, Ask, Ark>>, <<Vlek, Vcek, Ask, Ark>>}

(* A host that keeps any table, and one that changes its table under its    *)
(* guests, whose kernel is of the other kind.                               *)
MCHosts == <<Host(TRUE, MCTables, {}), Host(FALSE, MCSmall, MCSmall)>>

(* A host that changes it under a new kernel, and one that keeps it. *)
MCChanging == <<Host(TRUE, MCSmall, MCSmall)>>
MCKeeping == <<Host(TRUE, MCSmall, {})>>
=============================================================================
