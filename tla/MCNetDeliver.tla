---------------------------- MODULE MCNetDeliver ----------------------------
(* Setups for TLC.                                                         *)
EXTENDS NetDeliver

\* A line that is stuffed, one that would end the mail and an empty one; one
\* that is short enough for a QUIT to take the place of what follows; and one
\* without an end.
Dots  == << <<".", "a", LF>>, <<".", LF>>, <<LF>> >>
Few   == << <<"a", LF>>, <<"b", "c", LF>> >>
NoEnd == << <<LF>>, <<"a", "b">> >>

Straight(kind, m, chatty) ==
  [proxy |-> "none", user |-> FALSE, tls |-> FALSE, addrs |-> 2, atyp |-> 1,
   kind |-> kind, mail |-> m, empty |-> FALSE, exists |-> TRUE, chatty |-> chatty]

Proxied(p) == [Straight("smtp", Few, TRUE) EXCEPT !.proxy = p, !.addrs = 1]

Plain == {Straight(k, m, c) : k \in {"smtp", "imap"}, m \in {Dots, Few, NoEnd}, c \in BOOLEAN}

MCSetups ==
  Plain \cup {[s EXCEPT !.exists = FALSE] : s \in {p \in Plain : p.kind = "imap"}}
  \cup {[Straight(k, Few, FALSE) EXCEPT !.empty = TRUE, !.tls = TRUE] : k \in {"smtp", "imap"}}
  \cup {Proxied(p) : p \in {"https", "http", "socks5"}}
  \cup {[Proxied(p) EXCEPT !.user = TRUE] : p \in {"http", "socks5"}}
  \cup {[Proxied("socks5") EXCEPT !.atyp = 3],
        [Proxied("socks5") EXCEPT !.atyp = 4, !.tls = TRUE]}
=============================================================================
