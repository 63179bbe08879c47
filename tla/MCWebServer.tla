---------------------------- MODULE MCWebServer ----------------------------
(* WebServer with two requests at a time and six workloads.                 *)
EXTENDS WebServer, Codec, SequencesExt

CONSTANTS q1, q2, a1, k0, k1

IP(host, mask) == [host |-> host, mask |-> mask, six |-> FALSE]
MCAddrs == {IP(h, m) : h \in {"h1", "h3"}, m \in {0, 24, 32}}

Peer(text, num) == [text |-> text, num |-> num]
MCBodies == {Body(Peer("b", n)) : n \in {None, 2}}
Table(key, rows) == [key |-> key, addr |-> rows, peer |-> <<Row(2, Peer("a", 1), FALSE)>>, next |-> 3]
Plain == {Table(k0, <<>>)}
\* There is no interface, it has no address, or one that is off.
Varied == Plain \union {Table(None, <<>>), Table(k0, <<Row(1, IP("h1", 24), TRUE)>>)}

NoJobs == [r \in Request |-> {}]
Peers == [r \in Request |->
            IF r = q1 THEN {Job("delete", 2, None, None), Job("add", 0, Peer("b", None), None)}
            ELSE {Job("update", 2, Peer("b", None), None), Job("update", 2, Peer("b", 2), None),
                  Job("peers", 0, None, None)}]
Imports == [r \in Request |->
            IF r = q1 THEN {Job("import", 0, IP("h1", 32), k1), Job("interfaces", 0, None, None)}
            ELSE {Job("import", 0, IP("h3", 0), None), Job("addresses", 0, None, None)}]

World(noAuth, guesses, kinds, flipped, where, jobs, tables) ==
  [noAuth |-> noAuth, guesses |-> guesses, kinds |-> kinds, flips |-> flipped,
   addr |-> where, jobs |-> jobs, tables |-> tables]

\* Passwords are guessed; sessions come and go; the router does; peers are
\* edited; a configuration is imported; no router is configured.
MCWorkloads ==
  {World(FALSE, TRUE, {"login"}, 1, a1, NoJobs, Plain),
   World(FALSE, FALSE, {"login", "view"}, 0, a1, NoJobs, Plain),
   World(FALSE, FALSE, {"view"}, 2, a1, NoJobs, Plain),
   World(TRUE, FALSE, {"admin"}, 0, a1, Peers, Plain),
   World(TRUE, FALSE, {"admin"}, 0, a1, Imports, Varied),
   World(FALSE, FALSE, {"admin"}, 0, Nil, Peers, Plain)}

\* README.md:143-144 and the comment at auth.go:63 promise a lock after MaxFails
\* failures in a row.  But one failure, MaxFails - 2 at the end of its window and
\* MaxFails - 1 as soon as it is over are more in a row, and at no point is the
\* address locked (auth.go:102).
FailTimes(n, a) == FoldLeftDomain(LAMBDA b, i : Failed(b), a, [i \in 1 .. n |-> i])
Aged(age, a) == [a EXCEPT !.first = age]
ASSUME FailuresInARowUnlocked ==
  LET first == FailTimes(1, NoAttempt)
      last  == FailTimes(MaxFails - 2, Aged(FailWindow, first))
      next  == FailTimes(MaxFails - 1, Aged(FailWindow + 1, last))
  IN first.lock = 0 /\ last.lock = 0 /\ next.lock = 0

\* The word lengths of codec_test.go, on both sides of every limit, with ints
\* of 32 bits, followed by another byte (codec.go:21-77).
Lengths == {0, 1, 127, 128, 291, 16383, 16384, 2097151, 2097152, 268435455, 268435456, 2147483647}
ASSUME LengthsSurvive ==
  \A n \in Lengths :
    LET w == WriteLength(n)
    IN ReadLength(w \o <<240>>, 2147483647) = [ok |-> TRUE, n |-> n, used |-> Len(w)]

\* Two words one after the other, the second one empty: the end of a sentence.
ASSUME WordsSurvive ==
  \A k \in {0, 1, 127, 128, 291} :
    LET x == [i \in 1 .. k |-> 240]
        s == WriteWord(x) \o WriteWord(<<>>)
        r == ReadWord(s, 2147483647)
    IN r.word = x /\ ReadWord(SubSeq(s, r.used + 1, Len(s)), 2147483647).used = Len(s) - r.used
=============================================================================
