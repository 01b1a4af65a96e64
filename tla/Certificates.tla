--------------------------- MODULE Certificates ---------------------------
(***************************************************************************)
(* The choice of a host's certificate (internal/certs/certs.go) and what   *)
(* the worker makes of it (resolve.go, resolveCertificate).                *)
(*                                                                         *)
(* A domain name is the sequence of its labels, in the canonical form the  *)
(* code compares (lower case, punycode, no trailing dot).  A list of       *)
(* certificates is a function from ids, which the code sorts by.  An       *)
(* expiry is a time; 0 is one that is missing or cannot be parsed.         *)
(***************************************************************************)
EXTENDS Integers, Sequences, FiniteSetsExt

NoCertificate == 0
NewCertificate == -1   \* certificate_id: "new"
Refused == -2          \* no id: the label names a certificate that is not there

Modes == {"auto", "id", "domain", "name", "new", "none"}

\* wildcardMatch: a wildcard stands for exactly one label.
wildcardMatch(pattern, domain) ==
  /\ Len(pattern) > 1 /\ Head(pattern) = "*"
  /\ Len(domain) > 1 /\ Tail(domain) = Tail(pattern)

Covers(c, domain) ==
  domain \in c.names \/ \E pattern \in c.names : wildcardMatch(pattern, domain)

\* The match classes, best first.
ExactOnly == 1
ExactExtra == 2
Mixed == 3
Wildcard == 4
Unmatched == 5

classify(c, domains) ==
  LET exact == domains \cap c.names
  IN  IF domains = {} \/ \E d \in domains : ~Covers(c, d) THEN Unmatched
      ELSE IF exact = domains THEN IF exact = c.names THEN ExactOnly ELSE ExactExtra
      ELSE IF exact # {} THEN Mixed ELSE Wildcard

usable(c, now) ==
  /\ ~c.deleted /\ c.provider # "mtls"
  /\ c.expiry = 0 \/ c.expiry > now

Candidates(domains, list, now) ==
  {id \in DOMAIN list : usable(list[id], now) /\ classify(list[id], domains) # Unmatched}

\* The order of best: class, the longest validity (an unknown one last), id.
Before(a, b, domains, list) ==
  LET A == classify(list[a], domains)
      B == classify(list[b], domains)
  IN  \/ A < B
      \/ A = B /\ list[a].expiry > list[b].expiry
      \/ A = B /\ list[a].expiry = list[b].expiry /\ a < b

Winner(domains, list, now) ==
  LET S == Candidates(domains, list, now)
  IN  IF S = {} THEN NoCertificate
      ELSE CHOOSE a \in S : \A b \in S \ {a} : Before(a, b, domains, list)

\* best: a certificate that is attached already stays unless the winner is in a
\* strictly better class.
\* (slip: the winner always wins)
BestWins(domains, list, current, now) == Winner(domains, list, now)
best(domains, list, current, now) ==
  LET winner == Winner(domains, list, now)
  IN  IF /\ current \in Candidates(domains, list, now)
         /\ classify(list[current], domains) <= classify(list[winner], domains)
      THEN current ELSE winner

\* Resolve.  "primary" is the first of the domains.
Resolve(spec, domains, primary, list, current, partial, now) ==
  LET named == {id \in DOMAIN list : list[id].nice = spec.name}
      asked == best({spec.domain}, list, current, now)
      whole == best(domains, list, current, now)
  IN  CASE spec.mode = "none" -> NoCertificate
        [] spec.mode = "new" -> NewCertificate
        [] spec.mode = "id" -> spec.id
        [] spec.mode = "name" -> IF named = {} THEN Refused ELSE Min(named)
        [] spec.mode = "domain" -> IF asked = NoCertificate THEN Refused ELSE asked
        [] OTHER -> IF domains = {} \/ (whole = NoCertificate /\ partial = "none")
                    THEN NoCertificate
                    ELSE IF whole # NoCertificate THEN whole
                    ELSE best({primary}, list, current, now)

\* resolveCertificate: with CERTIFICATE_AUTO_CREATE, one is requested when none
\* fits.
resolveCertificate(spec, domains, primary, list, current, partial, autoCreate, now) ==
  LET id == Resolve(spec, domains, primary, list, current, partial, now)
  IN  IF id = NoCertificate /\ spec.mode = "auto" /\ autoCreate /\ domains # {}
      THEN NewCertificate ELSE id

===========================================================================
