------------------------- MODULE MCMultiDomainScan -------------------------
(***************************************************************************)
(* One call scans up to two pages of a varied set, at two addresses or at  *)
(* one; the other, of a test adapter, scans one page with the same bridged *)
(* module in its list.                                                     *)
(***************************************************************************)
EXTENDS MultiDomainScan, TLC

CONSTANTS c1, c2, m1

(* Alt text as the library sees it: no word, decided, undecided, a repeat. *)
Alt(on, decided) == Finding("accessibility", "image-alt", on, 3, decided)
Libraries == {<< >>, <<Alt("e1", TRUE)>>, <<Alt("e1", FALSE)>>,
              <<Alt("e1", FALSE), Alt("e1", TRUE), Alt("e2", TRUE)>>}

Bridged(on) == {Finding("bridged", "structure", on, 3, TRUE)}

Page(noAlt, noLazy, library, cookies, insecure, banner, bridged) ==
  [noAlt |-> noAlt, noLazy |-> noLazy, library |-> library, cookies |-> cookies,
   insecure |-> insecure, banner |-> banner, bridged |-> bridged]

Pages ==
  {Page(a, z, l, {}, {}, TRUE, {}) : a \in {{}, {"e1"}}, z \in {{}, {"e1"}}, l \in Libraries}
  \cup {Page({}, {}, << >>, {"k1"}, s, b, Bridged("e1")) : s \in {{}, {"k1"}}, b \in BOOLEAN}
  \cup {Page({"e2"}, {"e1"}, << >>, {}, {}, TRUE, Bridged("e2"))}

Lists == {<<"accessibility", "sustainability", "privacy", "security", "bridged">>,
          <<"bridged", "security">>, << >>}

At(u, p) == [url |-> u, page |-> p]

(* The second page differs from the first in every way that a row can.     *)
Seconds == {p \in Pages : p.noLazy = {} \/ p.noAlt = {"e2"}}

MCPages == {<<At("u1", p)>> : p \in Pages}
             \cup {<<At("u1", p), At(u, q)>> : p \in Pages, q \in Seconds, u \in {"u1", "u2"}}

Scans == {[pages |-> ps, domains |-> d, threshold |-> 2] : ps \in MCPages, d \in Lists}

Adapter == [pages |-> <<At("u3", Page({}, {"e1"}, << >>, {}, {}, TRUE, Bridged("e3")))>>,
            domains |-> <<"accessibility", "bridged">>, threshold |-> 3]

MCCalls == {c1, c2}
MCJobs == {c1 :> a @@ c2 :> Adapter : a \in Scans}
MCSlotOf == c1 :> m1 @@ c2 :> m1
=============================================================================
