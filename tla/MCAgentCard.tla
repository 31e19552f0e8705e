----------------------------- MODULE MCAgentCard -----------------------------
EXTENDS AgentCard

MCCards == {"auto", "manual"}

EC == [type |-> "EC", size |-> 256]

\* A PEM bundle with a broken certificate, then SPIFFE JSON with the key of another use.
Entry(root, valid, use) == [root |-> root, valid |-> valid, use |-> use]
MCBundles ==
  <<[format |-> "pem", entries |-> {Entry(1, TRUE, ""), Entry(3, FALSE, "")}],
    [format |-> "json", entries |-> {Entry(1, TRUE, "x509-svid"), Entry(2, TRUE, "x509-svid"),
                                     Entry(3, FALSE, "jwt-svid")}]>>

Doc(d) == [kind |-> "doc", doc |-> d]
Missing == [kind |-> "404"]
Down == [kind |-> "down"]
Bad == [kind |-> "bad"]
Foreign == [AgentID EXCEPT !.domain = "elsewhere"]

Source(name, cm, current, legacy, peer) ==
  [name |-> name, cm |-> cm, current |-> current, legacy |-> legacy, peer |-> peer]

LeafOf(issuer, key, uris) ==
  [subject |-> 0, issuer |-> issuer, key |-> key, uris |-> uris, notAfter |-> 1]
CA(name, issuer) ==
  [subject |-> name, issuer |-> issuer, key |-> EC, uris |-> {}, notAfter |-> 9]

Signed(key, chain) == SignCard(UnsignedCard, key, chain)
Good == SignedBy([root |-> 1, exp |-> 1])
GoodDoc == Good.doc
Tampered == [GoodDoc EXCEPT !.fields.version = "2"]
Chained == Signed(EC, <<LeafOf(11, EC, {AgentID}), CA(11, 12), CA(12, 1)>>)
LongChain == Signed(EC, <<LeafOf(11, EC, {AgentID}), CA(11, 12), CA(12, 1), CA(13, 1)>>)
Unrooted == Signed(EC, <<LeafOf(3, EC, {AgentID})>>)
TwoNames == Signed(EC, <<LeafOf(1, EC, {AgentID, Foreign})>>)
Outside == Signed(EC, <<LeafOf(1, EC, {Foreign})>>)
NoChain == [GoodDoc EXCEPT !.sigs[1].x5c = <<>>]
WrongAlgorithm == [GoodDoc EXCEPT !.sigs[1].alg = "RS256"]
Twice(d) == [d EXCEPT !.sigs = @ \o GoodDoc.sigs]
Attested(by, over) ==
  [GoodDoc EXCEPT !.attestations =
     [kind |-> "bundle", by |-> by, over |-> CreateCanonicalCardJSON(over)]]
Material == [GoodDoc EXCEPT !.material = [kind |-> "bad"]]

Served(d) == Source("served", Missing, Doc(d), Missing, AgentID)
MCSources ==
  {Source("good", Good, Good, Missing, AgentID),
   Source("outside", Missing, Doc(Outside), Missing, AgentID),
   Source("legacy", Missing, Missing, Good, AgentID),
   Source("foreign", Bad, Good, Missing, Foreign),
   Source("down", Down, Down, Good, AgentID)}
  \cup {Served(d) : d \in {UnsignedCard, Tampered, Chained, LongChain, Unrooted, TwoNames,
                           NoChain, WrongAlgorithm, Twice(Tampered), Twice(NoChain),
                           Twice(Unrooted), Attested(Signer, GoodDoc), Attested(Signer, Tampered),
                           Attested("other", GoodDoc), Material}}

Plain == [sig |-> FALSE, audit |-> FALSE, mtls |-> FALSE, store |-> FALSE,
          storeAudit |-> FALSE, enforce |-> FALSE, kind |-> "Deployment", env |-> {}, edits |-> 2, requests |-> {},
          serves |-> "good"]
Signatures == [Plain EXCEPT !.sig = TRUE]

MCModes ==
  {[Signatures EXCEPT !.enforce = TRUE, !.env = {"cards"}, !.serves = "outside",
                      !.requests = {<<"manual", "here", "strict">>}],
   [Plain EXCEPT !.mtls = TRUE, !.env = {"cards"},
                 !.requests = {<<"auto", "here", "none">>, <<"auto", "elsewhere", "lax">>,
                               <<"manual", "here", "none">>}],
   [Signatures EXCEPT !.kind = "StatefulSet", !.env = {"workload"}],
   [Signatures EXCEPT !.env = {"content"}, !.edits = 1],
   [Signatures EXCEPT !.audit = TRUE, !.mtls = TRUE, !.env = {"content"}, !.edits = 1],
   [Plain EXCEPT !.mtls = TRUE, !.enforce = TRUE, !.env = {"workload"}, !.edits = 1],
   [Plain EXCEPT !.store = TRUE, !.enforce = TRUE, !.env = {"content"}, !.edits = 1],
   [Plain EXCEPT !.store = TRUE, !.storeAudit = TRUE, !.env = {"content"}],
   [Signatures EXCEPT !.env = {"rotation"}, !.edits = 1],
   [Signatures EXCEPT !.kind = "Sandbox", !.enforce = TRUE, !.env = {"workload"}, !.edits = 1]}
=============================================================================
