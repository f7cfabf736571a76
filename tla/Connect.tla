------------------------------ MODULE Connect ------------------------------
(***************************************************************************)
(* A connection to a server, straight or through a proxy (connect.c), as   *)
(* the handlers and the deliver children open it.                          *)
(*                                                                         *)
(* What has arrived and is not read yet is a sequence of units: a byte of  *)
(* a SOCKS proxy or a line of an HTTP proxy or of a server.  Whoever reads *)
(* on counts on it that all of the proxy's have been taken off.  Names,    *)
(* ports and certificates are left out; that a name or a password is too   *)
(* long is one of the ways in which the connection fails.                  *)
(***************************************************************************)
EXTENDS Naturals, Sequences, FiniteSets

CONSTANT Setups   \* what the instances differ in, see ConnectType

\* A SOCKS reply is only given with the addresses that the types stand for:
\* 1 an IPv4 one, 3 a name and 4 an IPv6 one.
ConnectType(s) ==
  /\ s.proxy \in {"none", "http", "https", "socks5"}   \* conf.proxy
  /\ s.user \in BOOLEAN           \* a user and a password for it
  /\ s.tls \in BOOLEAN            \* srv->ssl
  /\ s.addrs \in Nat \ {0}        \* addresses of the host
  /\ s.atyp \in {1, 3, 4}         \* the address a SOCKS proxy answers with

VARIABLES
  setup,
  conn,       \* how far connectproxy is
  untried,    \* addresses not tried yet
  asked,      \* what the proxy has not answered yet
  tunnel,     \* is the server at the other end?
  wire,       \* units that have come and are not read from the socket
  inp         \* io->rd

connVars == <<conn, untried, asked, tunnel, wire, inp>>

Unit(by, v)  == [by |-> by, v |-> v]
Units(by, s) == [i \in 1 .. Len(s) |-> Unit(by, s[i])]
Values(n)    == [i \in 1 .. n |-> inp[i].v]
FromProxy    == {i \in 1 .. Len(inp) : inp[i].by = "proxy"}
Skip(n)      == inp' = SubSeq(inp, n + 1, Len(inp))

\* n units of the proxy are taken, or all there are of them and the start of the
\* server's first line, of which the rest is no use to anyone.
Enough(n)    == n <= Cardinality(FromProxy) \/ Len(inp) > Cardinality(FromProxy)
Take(n)      ==
  LET p == Cardinality(FromProxy) IN
  IF n <= p THEN Skip(n)
  ELSE inp' = <<Unit("server", "junk")>> \o SubSeq(inp, p + 2, Len(inp))

ConnectInit ==
  /\ conn = "start" /\ untried = setup.addrs /\ asked = "none"
  /\ tunnel = FALSE /\ wire = <<>> /\ inp = <<>>

Fails == conn' = "failed"

\* getaddrinfo
Lookup ==
  /\ conn = "start"
  /\ conn' = "trying" \/ Fails
  /\ UNCHANGED <<untried, asked, tunnel, wire, inp>>

\* connectproxy starts the proxy's protocol; with none of the two that it knows
\* it is fatal.
AfterTcp ==
  CASE setup.proxy = "none"   -> IF setup.tls THEN "tls" ELSE "up"
    [] setup.proxy = "http"   -> IF setup.user THEN "failed" ELSE "http"
    [] setup.proxy = "socks5" -> "method"
    [] setup.proxy = "https"  -> "fatal"

\* And the server's TLS when it is through.
AfterProxy == IF setup.tls THEN "tls" ELSE "up"

\* The next address of the host is tried.
TryAddress ==
  /\ conn = "trying"
  /\ \/ /\ conn' = AfterTcp
        /\ asked' = IF AfterTcp \in {"http", "method"} THEN AfterTcp ELSE "none"
        /\ tunnel' = (setup.proxy = "none")
        /\ UNCHANGED untried
     \/ /\ untried' = untried - 1
        /\ conn' = IF untried = 1 THEN "failed" ELSE "trying"
        /\ UNCHANGED <<asked, tunnel>>
  /\ UNCHANGED <<wire, inp>>

\* makessl, with its timeout and the verification of the certificate
MakeTls ==
  /\ conn = "tls"
  /\ conn' = "up" \/ Fails
  /\ UNCHANGED <<untried, asked, tunnel, wire, inp>>

\* httpproxy: a line with 200, and then lines up to an empty one
HttpLine ==
  /\ conn \in {"http", "header"} /\ inp # <<>>
  /\ Skip(1)
  /\ conn' = IF conn = "http" THEN (IF inp[1].v = "200" THEN "header" ELSE "failed")
             ELSE IF inp[1].v = "empty" THEN AfterProxy ELSE "header"
  /\ UNCHANGED <<untried, asked, tunnel, wire>>

\* socks5proxy: the method
SocksMethod ==
  /\ conn = "method" /\ Len(inp) >= 2
  /\ Skip(2)
  /\ LET v == Values(2) IN
     IF v[1] # 5 \/ v[2] \notin (IF setup.user THEN {0, 2} ELSE {0})
     THEN Fails /\ UNCHANGED asked
     ELSE /\ conn' = IF v[2] = 2 THEN "auth" ELSE "request"
          /\ asked' = conn'
  /\ UNCHANGED <<untried, tunnel, wire>>

\* socks5proxy: user and password, answered with version 5
SocksAuth ==
  /\ conn = "auth" /\ Len(inp) >= 2
  /\ Skip(2)
  /\ IF Values(2) = <<5, 0>>
     THEN conn' = "request" /\ asked' = "request"
     ELSE Fails /\ UNCHANGED asked
  /\ UNCHANGED <<untried, tunnel, wire>>

\* A slip: the port is forgotten.
RestLenNoPort(v) == CASE v[4] = 1 -> 3 [] v[4] = 3 -> 15 [] v[4] = 4 -> v[5]

\* How many bytes are left after five of a reply; v[5] is the first of the address.
RestLen(v) == CASE v[4] = 1 -> 5 [] v[4] = 3 -> 17 [] v[4] = 4 -> v[5] + 2

\* socks5proxy: the answer to the request
Granting(v) == v[1] = 5 /\ v[2] = 0 /\ v[4] \in {1, 3, 4}
SocksReply ==
  /\ conn = "request" /\ Len(inp) >= 5
  /\ LET v == Values(5) IN
     IF ~Granting(v)
     THEN Fails /\ Take(5)
     ELSE /\ Enough(5 + RestLen(v))         \* io_wait
          /\ Take(5 + RestLen(v))
          /\ conn' = AfterProxy
  /\ UNCHANGED <<untried, asked, tunnel, wire>>

\* Is there less than the next of these steps needs?
Short == CASE conn \in {"http", "header"} -> inp = <<>>
           [] conn \in {"method", "auth"} -> Len(inp) < 2
           [] conn = "request" ->
                (Len(inp) >= 5 => Granting(Values(5)) /\ ~Enough(5 + RestLen(Values(5))))
           [] OTHER -> FALSE

\* io_poll, from io_wait or io_pollline: what has come is read,
Poll ==
  /\ Short = TRUE /\ wire # <<>>
  /\ inp' = inp \o wire /\ wire' = <<>>
  /\ UNCHANGED <<conn, untried, asked, tunnel>>

\* or they give up after a while, or because the proxy has gone.
GiveUp ==
  /\ Short = TRUE /\ wire = <<>>
  /\ Fails
  /\ UNCHANGED <<untried, asked, tunnel, wire, inp>>

\* Called by whoever wants the connection.
Connecting ==
  \/ Lookup \/ TryAddress \/ MakeTls \/ HttpLine
  \/ SocksMethod \/ SocksAuth \/ SocksReply \/ Poll \/ GiveUp

-----------------------------------------------------------------------------
(* The proxy.                                                              *)

\* The address and the port of a reply: four bytes, a name of three or sixteen
\* bytes, and two.
Address == CASE setup.atyp = 1 -> <<10, 0, 0, 1>>
             [] setup.atyp = 3 -> <<3, 97, 98, 99>>
             [] setup.atyp = 4 -> [i \in 1 .. 16 |-> 0]

Granted == <<5, 0, 0, setup.atyp>> \o Address \o <<0, 25>>
Refused == <<5, 2, 0, 1, 0, 0, 0, 0, 0, 0>>

ProxySays(s, through) ==
  /\ wire' = wire \o Units("proxy", s)
  /\ tunnel' = through
  /\ asked' = "none"
  /\ UNCHANGED <<conn, untried, inp>>

ProxyHttp ==
  /\ asked = "http"
  /\ \/ \E s \in {<<"200", "empty">>, <<"200", "header", "empty">>} : ProxySays(s, TRUE)
     \/ ProxySays(<<"407", "empty">>, FALSE)

ProxyMethod ==
  /\ asked = "method"
  /\ \E v \in {0, 255} \cup (IF setup.user THEN {2} ELSE {}) : ProxySays(<<5, v>>, FALSE)

\* Proxies answer with the version of the password protocol or that of SOCKS.
ProxyAuth ==
  /\ asked = "auth"
  /\ \E v \in {<<1, 0>>, <<5, 0>>, <<5, 1>>} : ProxySays(v, FALSE)

ProxyReply ==
  /\ asked = "request"
  /\ ProxySays(Granted, TRUE) \/ ProxySays(Refused, FALSE)

Proxy == ProxyHttp \/ ProxyMethod \/ ProxyAuth \/ ProxyReply

-----------------------------------------------------------------------------
(* Properties.                                                             *)

\* When the connection is up nothing the proxy has said is left, whatever has
\* come from the server behind it (connect.c:503, "Flush the rest"), if the
\* address it has answered with is an IPv4 one.
NothingOfProxyLeft == conn = "up" /\ setup.atyp = 1 => FromProxy = {}

\* The same whatever the type of the address.  It does not hold: the types 3 and
\* 4 are taken for each other (connect.c:508, 511).
NothingOfAnyProxyLeft == conn = "up" => FromProxy = {} /\ \A i \in DOMAIN inp : inp[i].v # "junk"
=============================================================================
