------------------------------- MODULE HostMatch ------------------------------
(***************************************************************************)
(* match/match.go and rfc/rfc.go: how the matches of delivery services are *)
(* read, and which domains they accept.                                    *)
(*                                                                         *)
(* A domain is a record: dot, whether it ends in one, which is taken off   *)
(* before it is matched; its labels before the CDN domain; and under, what *)
(* it ends in: "cdn", "lookalike" for a name that merely ends in the same  *)
(* letters, or "other".                                                    *)
(*                                                                         *)
(* A match is a record: protocol; type, "HOST" or another; text, a         *)
(* sequence of labels and of the tokens below; and lang, the label         *)
(* sequences it matches when compiled as a regular expression, or NoRegex. *)
(***************************************************************************)
EXTENDS Naturals, Sequences

CONSTANTS
    Names,      \* labels of host names: caches, routers, delivery services, prefixes
    NoName,     \* the empty string where a name is expected
    NoRegex,    \* for a text that does not compile
    Ccr,        \* DefaultHTTPRoutingName
    Inside,     \* Inside[n]: the pieces of domains whose text contains that of n,
    Starts,     \* begins with it,
    Ends        \* and ends in it

\* What a domain is made of, beside dots.
Pieces == Names \cup {"cdn", "lookalike", "other"}

ASSUME HostMatchAssumption ==
    /\ NoName \notin Names
    /\ Ccr \in Names
    /\ {Inside, Starts, Ends} \subseteq [Pieces -> SUBSET Pieces]
    /\ \A n \in Pieces :
        /\ n \in Starts[n] \cap Ends[n]
        /\ Starts[n] \cup Ends[n] \subseteq Inside[n]

AnyText == ".*"
EscapedDot == "\\."
PlainDot == "."

\* `.*\.label\..*`
Around(label) == <<AnyText, EscapedDot, label, EscapedDot, AnyText>>

\* A domain as the text it is.
Dotted(domain) ==
    [i \in 1 .. 2 * Len(domain.labels) + 1 |->
        IF i % 2 = 0 THEN PlainDot
        ELSE IF i = 2 * Len(domain.labels) + 1 THEN domain.under
        ELSE domain.labels[(i + 1) \div 2]]

-------------------------------------------------------------------------------
(* rfc.ValidFQDN, with a label as one letter. *)

Class(token) == CASE token = PlainDot -> "dot"
                  [] token \in {AnyText, EscapedDot} -> "other"
                  [] OTHER -> "letter"

Accepted(ch, newLabel, prevCh) ==
    \/ ch = "letter"
    \/ ch \in {"digit", "hyphen"} /\ ~newLabel
    \/ ch = "dot" /\ prevCh # "hyphen"

\* What the loop knows after i characters.
PrevCh(i) == IF i = 0 THEN "letter" ELSE "hyphen"
NewLabel(i) == i = 0

\* Holds of the empty text and of no other.
ValidFQDN(text) ==
    /\ \A i \in DOMAIN text : Accepted(Class(text[i]), NewLabel(i - 1), PrevCh(i - 1))
    /\ PrevCh(Len(text)) # "hyphen"

-------------------------------------------------------------------------------
(* NewDNSDSMatch and NewHTTPDSMatch. *)

\* The prefix .*\. and the suffix \..* are there; in .*\..* they overlap.
HasAround(text) ==
    /\ Len(text) >= 3
    /\ SubSeq(text, 1, 2) = <<AnyText, EscapedDot>>
    /\ SubSeq(text, Len(text) - 1, Len(text)) = <<EscapedDot, AnyText>>

\* What is between them.
Between(text) == SubSeq(text, 3, Len(text) - 2)

\* matchStr[4 : len(matchStr)-4] is out of range when they overlap.
MatchPanics(m) ==
    m.protocol = "HTTP" /\ m.type = "HOST" /\ HasAround(m.text) /\ Len(m.text) < 4

\* The pieces that piece k of a text can be found in: a label stands whole between
\* two dots, and may be part of a piece at the ends of the text.  Dots are found in
\* dots; a backslash or an asterisk is in no FQDN.
FoundIn(text, k) ==
    IF text[k] \notin Pieces THEN {text[k]}
    ELSE (IF Len(text) = 1 THEN Inside[text[k]]
          ELSE IF k = 1 THEN Ends[text[k]]
          ELSE IF k = Len(text) THEN Starts[text[k]]
          ELSE {text[k]})

\* dnsDSMatchContains looks for the text anywhere in the FQDN, that of the CDN
\* domain included; no text is in each of them.
MatchContains(text, domain) ==
    LET fqdn == Dotted(domain)
        found == [k \in DOMAIN text |-> FoundIn(text, k)]
    IN  \E i \in 0 .. Len(fqdn) - Len(text) : \A k \in DOMAIN text : fqdn[i + k] \in found[k]

\* A text that is no wildcard: dnsDSMatchLiteral or dnsDSMatchRegex.
MatchesPlain(m, domain) ==
    IF ValidFQDN(m.text) THEN Dotted(domain) = m.text
    ELSE m.lang # NoRegex /\ domain.labels \in m.lang

MatchesDNS(m, domain) ==
    /\ m.protocol = "DNS" /\ m.type = "HOST"
    /\ IF HasAround(m.text)
       THEN MatchContains(IF Len(m.text) = 3 THEN <<AnyText>> ELSE Between(m.text), domain)
       ELSE MatchesPlain(m, domain)

\* A wildcard becomes the one name routing-name.label.cdn-domain.
MatchesHTTP(m, routingName, domain) ==
    /\ m.protocol = "HTTP" /\ m.type = "HOST"
    /\ IF HasAround(m.text)
       THEN Dotted(domain) = <<routingName, PlainDot>> \o Between(m.text) \o <<PlainDot, "cdn">>
       ELSE MatchesPlain(m, domain)
===============================================================================
