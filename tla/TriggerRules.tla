---------------------------- MODULE TriggerRules ----------------------------
(***************************************************************************)
(* What fires a token (packages/tokens-core/src): for every type, what is   *)
(* planted for an intruder to use and which events match; and which tokens *)
(* an event could mean (apps/gateway/src/dns.ts, http.ts, server.ts).      *)
(*                                                                         *)
(* A host is the sequence of its labels before a base domain, and a path   *)
(* its first two segments with what follows them.  The bytes of documents, *)
(* keys and images are left out, except what they make a reader fetch.     *)
(***************************************************************************)
EXTENDS Naturals, Sequences, SequencesExt, FiniteSets

CONSTANTS
    Tokens,   \* token ids
    Other     \* any label, segment or mailbox that is no token's id

ASSUME RulesAssumption == Other \notin Tokens

Actions == {"pixel.gif", "image", "r", "qr", "cmd", "sqli", "site", "azure", "aws", "other"}

\* What follows /id/action: nothing, ?query, /more, or letters of the same
\* segment.
Tails == {"end", "query", "deeper", "longer"}

HttpEvent(host, segment, action, tail) ==
    [kind |-> "http", host |-> host, segment |-> segment, action |-> action, tail |-> tail]
DnsEvent(host) == [kind |-> "dns", host |-> host]
SmtpEvent(to) == [kind |-> "smtp", to |-> to]

-----------------------------------------------------------------------------
(* The types.  plants: the paths under /id/ that the artifacts refer to.    *)

\* An artifact whose URL has the path /id/action.
Url(action) == [action |-> action, tail |-> "end"]

\* The documents: their bytes are left out, except what a reader fetches.
buildOoxmlWithExternalImage(pixelUrl) == {pixelUrl}
buildXlsxWithHyperlink(url) == {url}
buildTrackingPdf(trackingUrl) == {trackingUrl}

HttpType(id, actions, severity, plants) ==
    [id |-> id, kind |-> "http", actions |-> actions, severity |-> severity, plants |-> plants]
NameType(id, kind, severity) ==
    [id |-> id, kind |-> kind, actions |-> {}, severity |-> severity, plants |-> {}]

webBugToken == HttpType("web_bug", {"pixel.gif"}, "medium", {Url("pixel.gif")})
customImageToken == HttpType("custom_image", {"image"}, "medium", {Url("image")})
dnsToken == NameType("dns", "dns", "high")
fastRedirectToken == HttpType("fast_redirect", {"r"}, "medium", {Url("r")})
qrCodeToken == HttpType("qr_code", {"qr"}, "high", {Url("qr")})
\* The address is below a base domain, which is taken to be among F0_MAIL_DOMAINS.
\* A mail_domain of the token that is not is accepted and dropped by the gateway.
emailToken == NameType("email", "smtp", "high")
sensitiveCmdToken ==
    HttpType("sensitive_cmd", {"cmd"}, "high", {[action |-> "cmd", tail |-> "deeper"]})
wordDocToken ==
    HttpType("word_doc", {"pixel.gif"}, "high", buildOoxmlWithExternalImage(Url("pixel.gif")))
excelDocToken ==
    HttpType("excel_doc", {"pixel.gif"}, "high", buildXlsxWithHyperlink(Url("pixel.gif")))
windowsFolderToken == NameType("windows_folder", "dns", "high")
sqlInjectionToken ==
    HttpType("sql_injection", {"sqli"}, "high", {Url("sqli"), [action |-> "sqli", tail |-> "query"]})
pdfDocToken ==
    HttpType("pdf_doc", {"pixel.gif"}, "high", buildTrackingPdf(Url("pixel.gif")))
clonedWebsiteToken ==
    HttpType("cloned_website", {"site", "pixel.gif"}, "high", {Url("site"), Url("pixel.gif")})
awsKeysToken == HttpType("aws_keys", {"aws"}, "high", {Url("aws")})
azureConfigToken == HttpType("azure_config", {"azure"}, "high", {Url("azure")})
honeypotToken == NameType("honeypot", "none", "high")

\* In the order in which an event is tried.
definitions ==
    <<webBugToken, customImageToken, dnsToken, fastRedirectToken, qrCodeToken, emailToken,
      sensitiveCmdToken, wordDocToken, excelDocToken, windowsFolderToken, sqlInjectionToken,
      pdfDocToken, clonedWebsiteToken, awsKeysToken, azureConfigToken, honeypotToken>>

TypeIds == {d.id : d \in ToSet(definitions)}
getTokenType(id) == CHOOSE d \in ToSet(definitions) : d.id = id

-----------------------------------------------------------------------------
(* Matching.                                                               *)

\* Variant: an id only counts as the first label of a name.
eventMentionsToken_FirstLabel(e, t) ==
    CASE e.kind = "smtp" -> e.to = t
      [] e.kind = "dns" -> e.host # <<>> /\ e.host[1] = t
      [] e.kind = "http" -> (e.host # <<>> /\ e.host[1] = t) \/ e.segment = t

eventMentionsToken(e, t) ==
    CASE e.kind = "smtp" -> e.to = t
      [] e.kind = "dns" -> t \in ToSet(e.host)
      [] e.kind = "http" -> t \in ToSet(e.host) \/ e.segment = t

\* The path begins with /id/action; a planted command must end there or go on
\* with another segment.
PathMatches(d, e, t) ==
    /\ e.segment = t
    /\ e.action \in d.actions
    /\ d.id = "sensitive_cmd" => e.tail \in {"end", "deeper"}

matchTrigger(d, e, t) ==
    /\ e.kind = d.kind
    /\ eventMentionsToken(e, t)
    /\ d.kind = "http" => PathMatches(d, e, t)

\* The first type of the registry whose rules match, as a set of at most one.
matchEventToType(e, t) ==
    {definitions[i] : i \in {j \in DOMAIN definitions :
        /\ matchTrigger(definitions[j], e, t)
        /\ \A h \in 1..(j - 1) : ~matchTrigger(definitions[h], e, t)}}

\* The tokens the gateway considers: any label of a name, the first segment of
\* a path on a base domain itself, a mailbox.
Candidates(e) ==
    CASE e.kind = "dns" -> ToSet(e.host)
      [] e.kind = "http" -> ToSet(e.host) \cup (IF e.host = <<>> THEN {e.segment} ELSE {})
      [] e.kind = "smtp" -> {e.to}

\* What the gateway forwards of an event: one report for each candidate that
\* any type matches, with the severity of the first such type.
Forwards(e) ==
    UNION {{[tok |-> t, sev |-> d.severity] : d \in matchEventToType(e, t)} : t \in Candidates(e)}

\* The artifact responder has an answer of its own for the request, whoever the
\* token is; images and cloned pages only if the API has them.
Served(e) == e.action # "other" /\ e.tail # "longer"

\* e is what happens when an artifact planted for token t of type d is used.
PlantedUse(d, e, t) ==
    CASE d.kind = "http" ->
           /\ e.kind = "http" /\ e.host = <<>> /\ e.segment = t
           /\ [action |-> e.action, tail |-> e.tail] \in d.plants
      [] d.kind = "dns" -> e.kind = "dns" /\ t \in ToSet(e.host)
      [] d.kind = "smtp" -> e.kind = "smtp" /\ e.to = t
      [] d.kind = "none" -> FALSE
=============================================================================
