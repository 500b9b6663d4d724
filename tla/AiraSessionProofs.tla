------------------------- MODULE AiraSessionProofs --------------------------
(***************************************************************************)
(* Theorems about AiraSession for every value of its constants: any calls  *)
(* as analysed, files, skills, packs, window, and length of the session.   *)
(***************************************************************************)
EXTENDS AiraSession, FiniteSetTheorems, WellFoundedInduction, TLAPS

-----------------------------------------------------------------------------
(* Smallest and greatest numbers.                                          *)

LEMMA Least ==
  ASSUME NEW S \in SUBSET Nat, S # {}
  PROVE  Min(S) \in S /\ \A y \in S : Min(S) <= y
<1>1. \E x \in S : \A y \in S : ~(<<y, x>> \in OpToRel(<, Nat))
  BY NatLessThanWellFounded, WFMin
<1>2. PICK x \in S : \A y \in S : ~(<<y, x>> \in OpToRel(<, Nat))
  BY <1>1
<1>3. \A y \in S : ~(y < x)
  BY <1>2, Zenon DEF OpToRel
<1>4. \A y \in S : x =< y
  BY <1>3
<1> QED
  BY <1>4 DEF Min

LEMMA Greatest ==
  ASSUME NEW b \in Nat, NEW S \in SUBSET (0..b), S # {}
  PROVE  Max(S) \in S /\ \A y \in S : Max(S) >= y
<1> DEFINE T == {b - x : x \in S}
<1>1. T \in SUBSET Nat /\ T # {}
  <2>1. \A x \in S : b - x \in Nat
    OBVIOUS
  <2>2. PICK x \in S : TRUE
    OBVIOUS
  <2> QED
    BY <2>1, <2>2
<1>2. PICK m \in T : \A n \in T : m <= n
  <2> HIDE DEF T
  <2> QED
    BY <1>1, Least
<1>3. \E x \in S : \A y \in S : x >= y
  <2>1. PICK x \in S : m = b - x
    BY <1>2
  <2>2. \A y \in S : m <= b - y
    BY <1>2
  <2> QED
    BY <2>1, <2>2
<1> QED
  BY <1>3 DEF Max

-----------------------------------------------------------------------------
(* Every claim a detector makes is a number of the scale.                   *)

Bounded(claims) ==
  \A c \in claims : c.value \in 0..Scale /\ c = Claim(c.probe, c.signal, c.value, c.subject)

LEMMA ValueBounded ==
  ASSUME NEW claims, Bounded(claims), NEW signal
  PROVE  ValueOr(claims, signal, 0) \in 0..Scale
<1> DEFINE V == ValuesOf(claims, signal)
<1>1. V \in SUBSET (0..Scale) /\ Scale \in Nat
  BY DEF ValuesOf, Bounded, Scale
<1>2. ValueOr(claims, signal, 0) =
        IF V = {} THEN 0 ELSE IF signal \in ConfidenceSignals THEN Min(V) ELSE Max(V)
  BY DEF ValueOr
<1> HIDE DEF V
<1>3. V # {} => Min(V) \in V
  BY <1>1, Least
<1>4. V # {} => Max(V) \in V
  BY <1>1, Greatest
<1> QED
  <2>1. CASE V = {}
    BY <1>1, <1>2, <2>1
  <2>2. CASE V # {}
    BY <1>1, <1>2, <1>3, <1>4, <2>2
  <2> QED
    BY <2>1, <2>2

LEMMA ValueAtLeast ==
  ASSUME NEW claims, Bounded(claims), NEW c \in claims, c.signal \notin ConfidenceSignals
  PROVE  ValueOr(claims, c.signal, 0) >= c.value
<1> DEFINE V == ValuesOf(claims, c.signal)
<1>1. V \in SUBSET (0..Scale) /\ Scale \in Nat /\ c.value \in V
  BY DEF ValuesOf, Bounded, Scale
<1>2. V # {} => ValueOr(claims, c.signal, 0) = Max(V)
  BY DEF ValueOr
<1> HIDE DEF V
<1> QED
  BY <1>1, <1>2, Greatest

(* What a finding claims is a number of the scale.                          *)
Sized(f) ==
  /\ Bounded(f.claims)
  /\ f = [cls |-> f.cls, rule |-> f.rule, floors |-> f.floors, flags |-> f.flags, claims |-> f.claims]
AllSized(findings) == \A f \in findings : Sized(f)

(* Claims as a rule lists them: a signal, a value, a subject.               *)
Listed(claims) == \A c \in claims : c[2] \in 0..Scale

LEMMA FindingSized ==
  ASSUME NEW cls, NEW rule, NEW claims, Listed(claims)
  PROVE  Sized(Finding(cls, rule, claims)) /\ Sized(Sensed(Finding(cls, rule, claims)))
<1> DEFINE made == {Claim("aira", c[1], c[2], c[3]) : c \in claims}
<1>1. Bounded(made)
  BY DEF Bounded, Claim, Listed
<1> HIDE DEF made
<1>2. /\ Finding(cls, rule, claims) =
           [cls |-> cls, rule |-> rule, floors |-> {}, flags |-> {}, claims |-> made]
      /\ Sensed(Finding(cls, rule, claims)) =
           [cls |-> cls, rule |-> rule, floors |-> {}, flags |-> {"holds_sensitive"}, claims |-> made]
  <2>1. Finding(cls, rule, claims) =
          [cls |-> cls, rule |-> rule, floors |-> {}, flags |-> {}, claims |-> made]
    BY DEF Finding, made
  <2> QED
    BY <2>1 DEF Sensed
<1> QED
  BY <1>1, <1>2 DEF Sized

LEMMA FlooredSized ==
  ASSUME NEW f, Sized(f), NEW floors
  PROVE  Sized([f EXCEPT !.floors = floors])
<1>1. PICK cls, rule, old, held_flags, claims :
        f = [cls |-> cls, rule |-> rule, floors |-> old, flags |-> held_flags, claims |-> claims]
  BY DEF Sized
<1>2. /\ [f EXCEPT !.floors = floors] =
           [cls |-> cls, rule |-> rule, floors |-> floors, flags |-> held_flags, claims |-> claims]
      /\ f.claims = claims
  BY <1>1
<1> QED
  BY <1>2 DEF Sized

LEMMA CodeSized ==
  ASSUME NEW f, Sized(f), NEW subject
  PROVE  Sized(CodeFloor(f, subject))
BY FlooredSized DEF CodeFloor

LEMMA OneListed ==
  ASSUME NEW signal, NEW value \in 0..Scale, NEW subject
  PROVE  Listed({<<signal, value, subject>>})
BY DEF Listed

LEMMA BothListed ==
  ASSUME NEW reach \in 0..Scale, NEW irreversibility \in 0..Scale, NEW subject
  PROVE  Listed(Both(reach, irreversibility, subject))
BY DEF Listed, Both

LEMMA JoinedListed ==
  ASSUME NEW p, NEW q, Listed(p), Listed(q)
  PROVE  Listed(p \cup q)
BY DEF Listed

LEMMA Weights ==
  /\ Scale = 1000
  /\ \A path : TopGroup(path) # None => SensitivityOf[TopGroup(path)] \in 0..Scale
  /\ \A g \in SensitiveGroups : SensitivityOf[g] \in 0..Scale
<1>1. SensitiveOrder = <<"credential_store", "credential_bearing_config">>
      /\ DOMAIN SensitiveOrder = {1, 2}
  BY DEF SensitiveOrder
<1>2. \A i \in DOMAIN SensitiveOrder : SensitivityOf[SensitiveOrder[i]] \in 0..Scale
  BY <1>1 DEF SensitivityOf, Scale
<1>3. ASSUME NEW path, TopGroup(path) # None PROVE SensitivityOf[TopGroup(path)] \in 0..Scale
  <2> DEFINE hits == {i \in DOMAIN SensitiveOrder : SensitiveOrder[i] \in Groups(path)}
  <2>1. hits # {} /\ TopGroup(path) = SensitiveOrder[Min(hits)]
    BY <1>3 DEF TopGroup, FirstOf
  <2>2. hits \in SUBSET Nat
    BY <1>1
  <2> HIDE DEF hits
  <2>3. Min(hits) \in hits
    BY <2>1, <2>2, Least
  <2>4. Min(hits) \in DOMAIN SensitiveOrder
    BY <2>3 DEF hits
  <2> QED
    BY <1>2, <2>1, <2>4
<1>4. ASSUME NEW g \in SensitiveGroups PROVE SensitivityOf[g] \in 0..Scale
  <2>1. PICK i \in DOMAIN SensitiveOrder : g = SensitiveOrder[i]
    BY DEF SensitiveGroups, Range
  <2> QED
    BY <1>2, <2>1
<1> QED
  BY <1>3, <1>4 DEF Scale

LEMMA CredentialsSized ==
  ASSUME NEW a, NEW ctx
  PROVE  AllSized(Credentials(a, ctx))
<1> SUFFICES ASSUME NEW f \in Credentials(a, ctx) PROVE Sized(f)
  BY DEF AllSized
<1>1. CASE \E p \in Readable(a) :
            /\ TopGroup(p.path) # None
            /\ f = Sensed(Finding("C1", "C1", {<<"sensitivity", SensitivityOf[TopGroup(p.path)],
                                                Subject(p.path, ctx)>>}))
  <2>1. PICK p \in Readable(a) :
          /\ TopGroup(p.path) # None
          /\ f = Sensed(Finding("C1", "C1", {<<"sensitivity", SensitivityOf[TopGroup(p.path)],
                                              Subject(p.path, ctx)>>}))
    BY <1>1
  <2>2. SensitivityOf[TopGroup(p.path)] \in 0..Scale
    BY <2>1, Weights
  <2>3. Listed({<<"sensitivity", SensitivityOf[TopGroup(p.path)], Subject(p.path, ctx)>>})
    BY <2>2, OneListed
  <2> QED
    BY <2>1, <2>3, FindingSized
<1>2. CASE \E g \in TextOnly(a) :
            f = Sensed(Finding("C1", "C1.text", {<<"sensitivity", SensitivityOf[g], AnySubject>>}))
  <2>1. TextOnly(a) \subseteq SensitiveGroups
    BY DEF TextOnly
  <2>2. PICK g \in TextOnly(a) :
          f = Sensed(Finding("C1", "C1.text", {<<"sensitivity", SensitivityOf[g], AnySubject>>}))
    BY <1>2
  <2>3. SensitivityOf[g] \in 0..Scale
    BY <2>1, Weights
  <2>4. Listed({<<"sensitivity", SensitivityOf[g], AnySubject>>})
    BY <2>3, OneListed
  <2> QED
    BY <2>2, <2>4, FindingSized
<1> QED
  BY <1>1, <1>2 DEF Credentials

LEMMA SourcesListed ==
  ASSUME NEW a, NEW ctx
  PROVE  Listed(Sources(a, ctx))
<1> SUFFICES ASSUME NEW c \in Sources(a, ctx) PROVE c[2] \in 0..Scale
  BY DEF Listed
<1>1. CASE \E p \in Readable(a) :
            TopGroup(p.path) # None
            /\ c = <<"sensitivity", SensitivityOf[TopGroup(p.path)], Subject(p.path, ctx)>>
  BY <1>1, Weights
<1>2. CASE \E p : c = <<"sensitivity", SensitivityOf.placeholder, p>>
  BY <1>2, Weights DEF SensitivityOf
<1>3. CASE \E g \in TextOnly(a) : c = <<"sensitivity", SensitivityOf[g], AnySubject>>
  <2>1. TextOnly(a) \subseteq SensitiveGroups
    BY DEF TextOnly
  <2> QED
    BY <1>3, <2>1, Weights
<1>4. CASE c = <<"sensitivity", SensitivityOf.session, AnySubject>>
  BY <1>4, Weights DEF SensitivityOf
<1> QED
  BY <1>1, <1>2, <1>3, <1>4 DEF Sources

LEMMA ExfilSized ==
  ASSUME NEW a, NEW ctx
  PROVE  AllSized(Exfil(a, ctx))
<1> SUFFICES ASSUME NEW f \in Exfil(a, ctx) PROVE Sized(f)
  BY DEF AllSized
<1>1. PICK s \in Sinks(a) :
        \/ f = Sensed(Finding("C2", s.reason, Sources(a, ctx) \cup UNION {Both(1000, 1000, t) : t \in s.to}))
        \/ f = Finding("C2", "send", UNION {Both(1000, 800, t) : t \in s.to})
  BY DEF Exfil
<1>2. \A n \in {800, 1000} : Listed(UNION {Both(1000, n, t) : t \in s.to})
  BY Weights DEF Listed, Both
<1> QED
  BY <1>1, <1>2, SourcesListed, JoinedListed, FindingSized

LEMMA UnvettedListed ==
  ASSUME NEW a
  PROVE  Listed(Unvetted(a))
BY Weights DEF Unvetted, Listed

LEMMA UntrustedSized ==
  ASSUME NEW a, NEW ctx
  PROVE  AllSized(UntrustedCode(a, ctx))
<1> DEFINE host == IF CodeHost(a) = None THEN AnySubject ELSE CodeHost(a)
           plain == (HasShape(a) /\ FetchToShell(a.shape)) \/ "fetch_to_shell" \in a.text
           undone == a.undone # None
           hidden == undone /\ FetchToShell(a.undone)
           piped == undone /\ a.undone.sinks \cap {"pipe_to_shell", "pipe_to_interpreter"} # {}
           decodes == \/ (HasShape(a) /\ DecodeToShell(a.shape))
                      \/ (a.encodings \cap {"base64", "hex"} # {} /\ (hidden \/ piped))
                      \/ "decode_to_shell" \in a.text
           obfuscated == ~plain /\ ~decodes /\ hidden
           installs == \/ \E s \in Range(Segments(a)) :
                            s.head \in InstallHeads /\ InstallVerbs \cap Range(s.positional) # {}
                       \/ AllHeads(a) \cap InstallHeads # {} /\ "install_verb" \in a.text
           Hidden(value) == {<<"concealment", value, AnySubject>>}
           Fetched(h, rest) == Finding("C3", "fetch_to_shell", Both(750, 700, h) \cup Unvetted(a) \cup rest)
           Lookalike(h) == Finding("C3", "lookalike_installer", {<<"concealment", 800, h>>})
           Decoded(h) == Finding("C3", "decode_to_shell", Both(750, 700, h) \cup Hidden(1000))
           FromUrl(h) == Finding("C3", "install_from_url", Both(750, 700, h) \cup Unvetted(a))
           Installed(p) == Finding("C3", "package_install", Both(750, 600, p))
           RunWritten(p) == Finding("C3", "run_written_file", Both(750, 700, p))
<1>1. UntrustedCode(a, ctx) =
        IF a.kind # "exec" THEN {}
        ELSE (IF plain \/ obfuscated
              THEN {Fetched(host, IF obfuscated THEN Hidden(600) ELSE {})} ELSE {})
             \cup (IF (plain \/ obfuscated) /\ "installer_lookalike" \in a.text
                   THEN {CodeFloor(Lookalike(host), host)} ELSE {})
             \cup (IF decodes THEN {CodeFloor(Decoded(host), host)} ELSE {})
             \cup (IF "install_from_url" \in a.text THEN {FromUrl(host)} ELSE {})
             \cup (IF installs THEN {Installed(p) : p \in {q \in a.packages : q \notin ctx.plugins}} ELSE {})
             \cup (IF ctx.written # None /\ ctx.source = "pending" /\ ctx.fetched
                   THEN {RunWritten(Subject(ctx.written, ctx))} ELSE {})
  BY DEF UntrustedCode
<1> HIDE DEF plain, undone, hidden, piped, decodes, obfuscated, installs, host,
             Fetched, Lookalike, Decoded, FromUrl, Installed, RunWritten
<1> SUFFICES ASSUME NEW f \in UntrustedCode(a, ctx) PROVE Sized(f)
  BY DEF AllSized
<1>2. \/ f = Fetched(host, {}) \/ f = Fetched(host, Hidden(600))
      \/ f = CodeFloor(Lookalike(host), host) \/ f = CodeFloor(Decoded(host), host)
      \/ f = FromUrl(host)
      \/ \E p \in a.packages : f = Installed(p)
      \/ \E p : f = RunWritten(p)
  BY <1>1
<1>3. /\ Listed({}) /\ Listed(Hidden(600)) /\ Listed(Hidden(1000))
      /\ Listed({<<"concealment", 800, host>>})
      /\ \A p : Listed(Both(750, 700, p)) /\ Listed(Both(750, 600, p))
  BY Weights DEF Listed, Both
<1>4. /\ Listed(Both(750, 700, host) \cup Unvetted(a))
      /\ Listed(Both(750, 700, host) \cup Hidden(1000))
  BY <1>3, UnvettedListed, JoinedListed
<1>5. /\ Listed(Both(750, 700, host) \cup Unvetted(a) \cup {})
      /\ Listed(Both(750, 700, host) \cup Unvetted(a) \cup Hidden(600))
  BY <1>3, <1>4, JoinedListed
<1>6. /\ Sized(Fetched(host, {})) /\ Sized(Fetched(host, Hidden(600)))
      /\ Sized(FromUrl(host))
      /\ \A p : Sized(Installed(p)) /\ Sized(RunWritten(p))
  BY <1>3, <1>4, <1>5, FindingSized DEF Fetched, FromUrl, Installed, RunWritten
<1>7. Sized(Lookalike(host)) /\ Sized(Decoded(host))
  BY <1>3, <1>4, FindingSized DEF Lookalike, Decoded
<1>8. Sized(CodeFloor(Lookalike(host), host)) /\ Sized(CodeFloor(Decoded(host), host))
  BY <1>7, CodeSized
<1> QED
  BY <1>2, <1>6, <1>8

LEMMA OtherSized ==
  ASSUME NEW a, NEW ctx
  PROVE  AllSized(OtherCode(a, ctx))
<1> SUFFICES ASSUME NEW f \in OtherCode(a, ctx) PROVE Sized(f)
  BY DEF AllSized
<1> DEFINE Injected(host) == Both(750, 700, host) \cup {<<"concealment", 1000, AnySubject>>}
           Lookalike == {<<"concealment", 800, AnySubject>>}
           Host == IF a.hosts = <<>> THEN AnySubject ELSE a.hosts[1].host
<1>1. \/ f = Finding("C3", "param_injection", Injected(Host))
      \/ f = Finding("C3", "registry_redirect", Both(750, 600, Host))
      \/ f = Finding("C3", "lookalike_provider", Lookalike)
  BY DEF OtherCode
<1> HIDE DEF Host
<1>2. Listed(Injected(Host)) /\ Listed(Both(750, 600, Host)) /\ Listed(Lookalike)
  BY Weights DEF Listed, Both
<1> QED
  BY <1>1, <1>2, FindingSized

LEMMA TamperingSized ==
  ASSUME NEW reason, NEW subject
  PROVE  Sized(Tampering(reason, subject))
<1>1. /\ Listed({<<"self_modification", 1000, subject>>, <<"reach", 750, subject>>})
      /\ Listed({<<"self_modification", 1000, subject>>})
  BY Weights DEF Listed
<1> DEFINE approvals == Finding("C4", "C4.host_approvals",
                                {<<"self_modification", 1000, subject>>, <<"reach", 750, subject>>})
           plain == Finding("C4*", reason, {<<"self_modification", 1000, subject>>})
           floor == {[floor |-> "guardrail_tampering", min |-> 1000, subject |-> subject]}
<1>2. Sized(approvals) /\ Sized(plain)
  BY <1>1, FindingSized
<1>3. Tampering(reason, subject) =
        IF reason = "host_approvals" THEN approvals ELSE [plain EXCEPT !.floors = floor]
  BY DEF Tampering
<1> HIDE DEF approvals, plain, floor
<1>4. Sized([plain EXCEPT !.floors = floor])
  BY <1>2, FlooredSized
<1> QED
  BY <1>2, <1>3, <1>4

LEMMA GuardrailIs ==
  ASSUME NEW a, NEW ctx, NEW f \in Guardrail(a, ctx)
  PROVE  \E reason, subject : f = Tampering(reason, subject)
BY DEF Guardrail

LEMMA GuardrailSized ==
  ASSUME NEW a, NEW ctx
  PROVE  AllSized(Guardrail(a, ctx))
BY GuardrailIs, TamperingSized DEF AllSized

LEMMA SelfModSized ==
  ASSUME NEW a, NEW ctx
  PROVE  AllSized(SelfMod(a, ctx))
<1> SUFFICES ASSUME NEW f \in SelfMod(a, ctx) PROVE Sized(f)
  BY DEF AllSized
<1> DEFINE Modified(weight, subject) == Both(750, 600, subject) \cup {<<"self_modification", weight, subject>>}
<1>1. \A path : SelfModWeight(path) \in 0..Scale
  BY Weights DEF SelfModWeight
<1>2. PICK weight \in 0..Scale : \E subject : f = Finding("C4", "C4", Modified(weight, subject))
  <2> DEFINE Found(high, subject) == f = Finding("C4", "C4", Modified(high, subject))
             Where == CHOOSE t \in OrAny({p.path : p \in {q \in a.paths : IsDestination(q)}}) : TRUE
  <2>1. \/ \E p \in Written(a) : Found(SelfModWeight(p), Subject(p, ctx))
        \/ Found(700, Where)
        \/ Found(1000, AnySubject)
        \/ \E p \in a.packages : Found(1000, p)
    BY DEF SelfMod
  <2> HIDE DEF Found
  <2>2. 700 \in 0..Scale /\ 1000 \in 0..Scale
    BY Weights
  <2>3. \E high \in 0..Scale : \E subject : Found(high, subject)
    BY <1>1, <2>1, <2>2
  <2> QED
    BY <2>3 DEF Found
<1>3. PICK subject : f = Finding("C4", "C4", Modified(weight, subject))
  BY <1>2
<1>4. Listed(Modified(weight, subject))
  BY Weights DEF Listed, Both
<1> QED
  BY <1>3, <1>4, FindingSized

LEMMA DestroysSized ==
  ASSUME NEW rule, NEW reach \in {500, 750}, NEW subject, NEW ctx
  PROVE  Sized(Destroys(rule, reach, subject, ctx))
<1>1. Listed({}) /\ Listed(Both(reach, 1000, subject))
  BY Weights DEF Listed, Both
<1> QED
  BY <1>1, FindingSized DEF Destroys

LEMMA DestructionSized ==
  ASSUME NEW a, NEW ctx
  PROVE  AllSized(Destruction(a, ctx)) /\ AllSized(SqlDestruction(a, ctx))
BY DestroysSized DEF Destruction, SqlDestruction, AllSized

LEMMA PrivilegeSized ==
  ASSUME NEW a, NEW ctx
  PROVE  AllSized(Privilege(a, ctx))
<1> SUFFICES ASSUME NEW f \in Privilege(a, ctx) PROVE Sized(f)
  BY DEF AllSized
<1> DEFINE env == (IF HasShape(a) THEN a.shape.env ELSE {}) \cup (a.text \cap {"LD_PRELOAD=x", "PATH=x"})
           odd == HasShape(a) /\ \E w \in a.shape.head_paths \ SystemPaths : Called[w] \in Utilities
           elevates == (HasShape(a) /\ Privileged(a.shape)) \/ AllHeads(a) \cap {"su", "sudo"} # {}
           Reaches == {<<"reach", 750, AnySubject>>}
           Hides == {<<"reach", 750, AnySubject>>, <<"concealment", 600, AnySubject>>}
           Elevation == Finding("C8", "C8.sudo", IF "host_gated" \in ctx.packs THEN Reaches ELSE {})
           Setuid == Finding("C8", "C8.setuid", Reaches)
           Preload == Finding("C8", "C8.preload", Hides)
           Shadowing == Finding("C8", "C8.shadowing", Hides)
<1>0. Privilege(a, ctx) =
        IF a.kind # "exec" THEN {}
        ELSE (IF elevates THEN {Elevation} ELSE {})
             \cup (IF "setuid" \in a.text THEN {Setuid} ELSE {})
             \cup (IF "LD_PRELOAD=x" \in env THEN {Preload} ELSE {})
             \cup (IF "PATH=x" \in env \/ odd THEN {Shadowing} ELSE {})
  BY DEF Privilege
<1>1. f \in {Elevation, Setuid, Preload, Shadowing}
  <2> HIDE DEF env, odd, elevates, Elevation, Setuid, Preload, Shadowing
  <2> QED
    BY <1>0
<1>2. Listed({}) /\ Listed(Reaches) /\ Listed(Hides)
  BY Weights DEF Listed
<1>3. Sized(Elevation) /\ Sized(Setuid) /\ Sized(Preload) /\ Sized(Shadowing)
  BY <1>2, FindingSized
<1> QED
  BY <1>1, <1>3

LEMMA RemoteSized ==
  ASSUME NEW a
  PROVE  AllSized(Remote(a))
<1> SUFFICES ASSUME NEW f \in Remote(a) PROVE Sized(f)
  BY DEF AllSized
<1>1. PICK subject : f = Finding("C9", "C9", Both(1000, 1000, subject))
  BY DEF Remote
<1>2. Listed(Both(1000, 1000, subject))
  BY Weights DEF Listed, Both
<1> QED
  BY <1>1, <1>2, FindingSized

LEMMA ArtefactSized ==
  ASSUME NEW a, NEW ctx
  PROVE  AllSized(Artefact(a, ctx))
<1> SUFFICES ASSUME NEW f \in Artefact(a, ctx) PROVE Sized(f)
  BY DEF AllSized
<1> DEFINE Leaks(rule, subject) == Finding("C10", rule, {<<"sensitivity", SensitivityOf.artefact, subject>>})
<1>1. PICK rule, subject : f = Leaks(rule, subject) \/ f = Sensed(Leaks(rule, subject))
  BY Zenon DEF Artefact
<1>2. Listed({<<"sensitivity", SensitivityOf.artefact, subject>>})
  BY Weights DEF Listed, SensitivityOf
<1> QED
  BY <1>1, <1>2, FindingSized

LEMMA ConcealmentSized ==
  ASSUME NEW a
  PROVE  AllSized(Concealment(a))
<1>1. Listed({<<"concealment", 500, AnySubject>>})
  BY Weights DEF Listed
<1> QED
  BY <1>1, FindingSized DEF Concealment, AllSized

-----------------------------------------------------------------------------
(* apply_extent: every claim stays, at least as high.                       *)

LEMMA ExtendedIs ==
  ASSUME NEW c, c.value \in 0..Scale, c = Claim(c.probe, c.signal, c.value, c.subject)
  PROVE  /\ Extended(c).value \in 0..Scale /\ Extended(c).value >= c.value
         /\ Extended(c).signal = c.signal
         /\ Extended(c) = Claim(c.probe, c.signal, Extended(c).value, c.subject)
<1> DEFINE more == {Scale, c.value + Bonus}
<1>1. more \in SUBSET Nat /\ more # {} /\ Scale \in more
  <2>1. Scale \in Nat
    BY DEF Scale
  <2>2. c.value + Bonus \in Nat
    <3> DEFINE n == c.value
    <3>1. n \in 0..1000
      BY DEF Scale
    <3> HIDE DEF n
    <3>2. n + 250 \in Nat
      BY <3>1
    <3> QED
      BY <3>2 DEF n, Bonus
  <2> QED
    BY <2>1, <2>2
<1>2. Min(more) \in more /\ Min(more) <= Scale
  BY <1>1, Least
<1>3. Min(more) \in 0..Scale /\ Min(more) >= c.value
  <2>1. \A m \in more : m \in Nat /\ m >= c.value
    <3> DEFINE n == c.value
    <3>1. n \in 0..1000
      BY DEF Scale
    <3> HIDE DEF n
    <3>2. n + 250 \in Nat /\ n + 250 >= n /\ 1000 >= n
      BY <3>1
    <3>3. more = {1000, n + 250}
      BY DEF Scale, Bonus, n
    <3> HIDE DEF more
    <3> QED
      BY <3>2, <3>3 DEF n
  <2>2. Scale \in Nat
    BY DEF Scale
  <2> HIDE DEF more
  <2> QED
    BY <1>2, <2>1, <2>2
<1>4. Extended(c) = IF c.signal = "reach" /\ c.value > 0 THEN [c EXCEPT !.value = Min(more)] ELSE c
  BY DEF Extended
<1> HIDE DEF more
<1>5. [c EXCEPT !.value = Min(more)] = Claim(c.probe, c.signal, Min(more), c.subject)
  BY DEF Claim
<1>6. CASE c.signal = "reach" /\ c.value > 0
  BY <1>3, <1>4, <1>5, <1>6 DEF Claim
<1>7. CASE ~(c.signal = "reach" /\ c.value > 0)
  <2>1. Extended(c) = c /\ c.value >= c.value
    BY <1>4, <1>7
  <2> QED
    BY <2>1
<1> QED
  BY <1>6, <1>7

Raised(f) == [f EXCEPT !.claims = {Extended(c) : c \in @}]

LEMMA RaisedIs ==
  ASSUME NEW f, Sized(f)
  PROVE  /\ Raised(f) = [cls |-> f.cls, rule |-> f.rule, floors |-> f.floors, flags |-> f.flags,
                         claims |-> {Extended(c) : c \in f.claims}]
         /\ Sized(Raised(f))
<1>1. Raised(f) = [cls |-> f.cls, rule |-> f.rule, floors |-> f.floors, flags |-> f.flags,
                   claims |-> {Extended(c) : c \in f.claims}]
  <2>1. PICK cls, rule, floors, held_flags, claims :
          f = [cls |-> cls, rule |-> rule, floors |-> floors, flags |-> held_flags, claims |-> claims]
    BY DEF Sized
  <2> DEFINE more == {Extended(c) : c \in claims}
  <2>2. Raised(f) = [f EXCEPT !.claims = more] /\ {Extended(c) : c \in f.claims} = more
    BY <2>1 DEF Raised
  <2> HIDE DEF more
  <2> QED
    BY <2>1, <2>2
<1>2. Bounded({Extended(c) : c \in f.claims})
  <2> SUFFICES ASSUME NEW c \in f.claims
               PROVE  /\ Extended(c).value \in 0..Scale
                      /\ Extended(c) = Claim(Extended(c).probe, Extended(c).signal,
                                             Extended(c).value, Extended(c).subject)
    BY DEF Bounded
  <2>1. Extended(c).value \in 0..Scale /\ Extended(c) = Claim(c.probe, c.signal, Extended(c).value, c.subject)
    BY ExtendedIs DEF Sized, Bounded
  <2> QED
    BY <2>1 DEF Claim
<1> QED
  BY <1>1, <1>2 DEF Sized

LEMMA ExtentIs ==
  ASSUME NEW findings, AllSized(findings), NEW a
  PROVE  /\ AllSized(WithExtent(findings, a))
         /\ \A f \in findings : f \in WithExtent(findings, a) \/ Raised(f) \in WithExtent(findings, a)
<1> DEFINE raised == {Raised(f) : f \in findings}
           claims == ClaimsOf(raised)
           reach == ValuesOf(claims, "reach")
           extent == Finding("extent", "extent", {<<"reach", Max(reach), AnySubject>>})
<1>1. WithExtent(findings, a) = IF Extent(a) = {} \/ reach = {} THEN findings ELSE raised \cup {extent}
  BY DEF WithExtent, Raised
<1>2. AllSized(raised)
  BY RaisedIs DEF AllSized
<1>3. Bounded(claims)
  BY <1>2 DEF AllSized, Sized, Bounded, ClaimsOf
<1>4. reach # {} => Sized(extent)
  <2> HAVE reach # {}
  <2>1. reach \in SUBSET (0..Scale) /\ Scale \in Nat
    <3> HIDE DEF claims
    <3> QED
      BY <1>3 DEF ValuesOf, Bounded, Scale
  <2>2. Max(reach) \in 0..Scale
    <3> HIDE DEF reach
    <3> QED
      BY <2>1, Greatest
  <2> HIDE DEF reach
  <2> QED
    BY <2>2, OneListed, FindingSized
<1> HIDE DEF reach, extent, claims
<1>5. AllSized(WithExtent(findings, a))
  BY <1>1, <1>2, <1>4 DEF AllSized
<1>6. \A f \in findings : f \in WithExtent(findings, a) \/ Raised(f) \in WithExtent(findings, a)
  BY <1>1
<1> QED
  BY <1>5, <1>6

(* What run_detectors gathers before the extent is applied.                 *)
Detected(a, ctx) ==
  Credentials(a, ctx) \cup Exfil(a, ctx) \cup UntrustedCode(a, ctx) \cup OtherCode(a, ctx)
    \cup Guardrail(a, ctx) \cup SelfMod(a, ctx) \cup Destruction(a, ctx)
    \cup SqlDestruction(a, ctx) \cup Privilege(a, ctx) \cup Remote(a)
    \cup Artefact(a, ctx) \cup Concealment(a)

LEMMA DetectedSized ==
  ASSUME NEW a, NEW ctx
  PROVE  AllSized(Detected(a, ctx)) /\ Findings(a, ctx) = WithExtent(Detected(a, ctx), a)
<1>1. AllSized(Detected(a, ctx))
  BY CredentialsSized, ExfilSized, UntrustedSized, OtherSized, GuardrailSized, SelfModSized,
     DestructionSized, PrivilegeSized, RemoteSized, ArtefactSized, ConcealmentSized
     DEF AllSized, Detected
<1>2. Findings(a, ctx) = WithExtent(Detected(a, ctx), a)
  BY DEF Findings, Detected
<1> QED
  BY <1>1, <1>2

LEMMA FindingsSized ==
  ASSUME NEW a, NEW ctx
  PROVE  AllSized(Findings(a, ctx))
BY DetectedSized, ExtentIs

-----------------------------------------------------------------------------
(* The envelope: bounded, and what the pending call and its siblings add.   *)

LEMMA SuspicionBounded ==
  ASSUME NEW f, NEW step
  PROVE  Bounded(StepSuspicion(f, step))
<1> DEFINE weight == IF f.rule \in {"fetch_to_shell", "decode_to_shell"} THEN 800
                     ELSE IF f.rule = "install_from_url" THEN 600
                     ELSE IF f.rule = "C8.sudo" THEN 500
                     ELSE IF f.cls = "C2" THEN IF f.rule = "send" THEN 500 ELSE 850
                     ELSE IF f.cls = "C1" THEN 600 ELSE 0
           counts == IF step = "warned" THEN weight \div 2 ELSE weight
<1>1. weight \in 0..1000
  OBVIOUS
<1>2. StepSuspicion(f, step) = {Claim("aira", "overreach", counts, c.subject) : c \in {d \in f.claims : weight > 0}}
  BY DEF StepSuspicion
<1> HIDE DEF weight
<1>3. counts \in 0..Scale
  BY <1>1, Weights
<1> HIDE DEF counts
<1> QED
  BY <1>2, <1>3 DEF Bounded, Claim

StepClaims(some, ctx) == UNION {OfStep(r, ctx) : r \in {q \in some.resolved : q.step # "no"}}

LEMMA EnvelopeIs ==
  ASSUME NEW some, NEW ctx
  PROVE  /\ AiraEnvelope(some, ctx).claims =
              ClaimsOf(Counted(some, ctx)) \cup StepClaims(some, ctx)
         /\ AiraEnvelope(some, ctx).floors = UNION {f.floors : f \in Counted(some, ctx)}
         /\ AiraEnvelope(some, ctx).flags = UNION {f.flags : f \in Counted(some, ctx)}
BY DEF AiraEnvelope, Answer, Answered, StepClaims

LEMMA CountedSized ==
  ASSUME NEW some, NEW ctx
  PROVE  AllSized(Counted(some, ctx))
<1> SUFFICES ASSUME NEW f \in Counted(some, ctx) PROVE Sized(f)
  BY DEF AllSized
<1>1. CASE f \in Findings(some.pending, As(ctx, "pending"))
  BY <1>1, FindingsSized DEF AllSized
<1>2. CASE f \in Findings(some.written, As(ctx, "written_file"))
  BY <1>2, FindingsSized DEF AllSized
<1>3. CASE f \in OfResolved(some, ctx)
  <2>1. PICK r : f \in Findings(r, As(ctx, "resolved"))
    BY <1>3 DEF OfResolved
  <2> QED
    BY <2>1, FindingsSized DEF AllSized
<1>4. CASE \E s \in some.siblings : f \in FromSibling(some, s, ctx)
  <2>1. PICK s : f \in Findings(s, As(ctx, "sibling"))
    BY <1>4 DEF FromSibling
  <2> QED
    BY <2>1, FindingsSized DEF AllSized
<1> QED
  BY <1>1, <1>2, <1>3, <1>4 DEF Counted

LEMMA EnvelopeBounded ==
  ASSUME NEW some, NEW ctx
  PROVE  Bounded(AiraEnvelope(some, ctx).claims)
<1>1. Bounded(ClaimsOf(Counted(some, ctx)))
  BY CountedSized DEF AllSized, Sized, Bounded, ClaimsOf
<1>2. Bounded(StepClaims(some, ctx))
  <2> SUFFICES ASSUME NEW c \in StepClaims(some, ctx) PROVE Bounded({c})
    BY DEF Bounded
  <2>1. PICK r : c \in OfStep(r, ctx)
    BY DEF StepClaims
  <2>2. PICK f \in Findings(r, As(ctx, "resolved")) : c \in f.claims \cup StepSuspicion(f, r.step)
    BY <2>1 DEF OfStep
  <2>3. Bounded(f.claims) /\ Bounded(StepSuspicion(f, r.step))
    BY FindingsSized, SuspicionBounded DEF AllSized, Sized
  <2> QED
    BY <2>2, <2>3 DEF Bounded
<1> QED
  BY <1>1, <1>2, EnvelopeIs DEF Bounded

LEMMA EnvelopeClaims ==
  ASSUME NEW some, NEW ctx, NEW f \in Counted(some, ctx), NEW c \in f.claims,
         c.signal \notin ConfidenceSignals
  PROVE  /\ Value(AiraEnvelope(some, ctx), c.signal) >= c.value
         /\ Value(AiraEnvelope(some, ctx), c.signal) \in 0..Scale
<1>1. c \in AiraEnvelope(some, ctx).claims
  BY EnvelopeIs DEF ClaimsOf
<1> QED
  BY <1>1, EnvelopeBounded, ValueAtLeast, ValueBounded DEF Value

(* What a detector found is found, with its claims at least as high, after   *)
(* the extent was applied.                                                 *)
Carries(g, f) ==
  /\ g.cls = f.cls /\ g.rule = f.rule /\ g.floors = f.floors /\ g.flags = f.flags
  /\ \A c \in f.claims : \E d \in g.claims : d.signal = c.signal /\ d.value >= c.value

LEMMA FindingsCarry ==
  ASSUME NEW findings, AllSized(findings), NEW a, NEW f \in findings
  PROVE  \E g \in WithExtent(findings, a) : Carries(g, f)
<1>1. Sized(f)
  BY DEF AllSized
<1>2. Carries(f, f)
  BY <1>1 DEF Carries, Sized, Bounded
<1>3. Carries(Raised(f), f)
  <2>1. /\ Raised(f).cls = f.cls /\ Raised(f).rule = f.rule /\ Raised(f).floors = f.floors
        /\ Raised(f).flags = f.flags /\ Raised(f).claims = {Extended(c) : c \in f.claims}
    BY <1>1, RaisedIs
  <2>2. \A c \in f.claims : Extended(c).signal = c.signal /\ Extended(c).value >= c.value
    BY <1>1, ExtendedIs DEF Sized, Bounded
  <2> QED
    BY <2>1, <2>2 DEF Carries
<1> QED
  BY <1>2, <1>3, ExtentIs

LEMMA DetectedCarried ==
  ASSUME NEW a, NEW ctx, NEW f \in Detected(a, ctx)
  PROVE  \E g \in Findings(a, ctx) : Carries(g, f)
BY DetectedSized, FindingsCarry

LEMMA PendingCounted ==
  ASSUME NEW some, NEW ctx, NEW g \in Findings(some.pending, As(ctx, "pending"))
  PROVE  g \in Counted(some, ctx)
BY DEF Counted

LEMMA SiblingCounted ==
  ASSUME NEW some, NEW ctx, NEW s \in some.siblings,
         NEW g \in Findings(s, As(ctx, "sibling")), CountsForTheBatch(g)
  PROVE  g \in Counted(some, ctx)
<1>1. g \in FromSibling(some, s, ctx)
  BY DEF FromSibling
<1> QED
  BY <1>1 DEF Counted

-----------------------------------------------------------------------------
(* Sensitive material: read in a scan, remembered, carried by each send.    *)

LEMMA CredentialsRead ==
  ASSUME NEW a, NEW one, NEW other, Credentials(a, one) # {}
  PROVE  \E f \in Credentials(a, other) : f.flags = {"holds_sensitive"}
<1>1. \A cls, rule, claims : Sensed(Finding(cls, rule, claims)).flags = {"holds_sensitive"}
  BY DEF Sensed, Finding
<1>2. PICK f : f \in Credentials(a, one)
  OBVIOUS
<1> DEFINE ofPath(p, ctx) ==
             Sensed(Finding("C1", "C1", {<<"sensitivity", SensitivityOf[TopGroup(p.path)], Subject(p.path, ctx)>>}))
           ofText(g) == Sensed(Finding("C1", "C1.text", {<<"sensitivity", SensitivityOf[g], AnySubject>>}))
           refs == {p \in Readable(a) : /\ TopGroup(p.path) # None
                                        /\ a.kind \in {"mcp", "other"} => IsSource(p)}
           reached == IF a.kind = "exec" THEN AllHeads(a) \cap ReachHeads # {} \/ "file_arg" \in a.text
                      ELSE a.kind \in {"file_read", "mcp", "other"}
<1>3. \A ctx : Credentials(a, ctx) =
                 IF ~reached THEN {} ELSE {ofPath(p, ctx) : p \in refs} \cup {ofText(g) : g \in TextOnly(a)}
  BY DEF Credentials
<1>4. \A p, ctx : ofPath(p, ctx).flags = {"holds_sensitive"}
  BY <1>1
<1>5. \A g : ofText(g).flags = {"holds_sensitive"}
  BY <1>1
<1> HIDE DEF ofPath, ofText, refs, reached
<1>6. reached /\ (refs # {} \/ TextOnly(a) # {})
  BY <1>2, <1>3
<1>7. CASE refs # {}
  <2>1. PICK p : p \in refs
    BY <1>7
  <2>2. ofPath(p, other) \in Credentials(a, other)
    BY <1>3, <1>6, <2>1
  <2> QED
    BY <1>4, <2>2
<1>8. CASE TextOnly(a) # {}
  <2>1. PICK g : g \in TextOnly(a)
    BY <1>8
  <2>2. ofText(g) \in Credentials(a, other)
    BY <1>3, <1>6, <2>1
  <2> QED
    BY <1>5, <2>2
<1> QED
  BY <1>6, <1>7, <1>8

LEMMA ReadRemembered ==
  ASSUME NEW some, NEW one, NEW ctx, Credentials(some.pending, one) # {}
  PROVE  "holds_sensitive" \in AiraEnvelope(some, ctx).flags
<1>1. PICK f \in Credentials(some.pending, As(ctx, "pending")) : f.flags = {"holds_sensitive"}
  BY CredentialsRead
<1>2. f \in Detected(some.pending, As(ctx, "pending"))
  BY DEF Detected
<1>3. PICK g \in Findings(some.pending, As(ctx, "pending")) : g.flags = f.flags
  BY <1>2, DetectedCarried DEF Carries
<1> QED
  BY <1>1, <1>3, PendingCounted, EnvelopeIs

LEMMA SinkReaches ==
  ASSUME NEW a, NEW s \in Sinks(a)
  PROVE  s.to # {}
<1>1. \A subjects : OrAny(subjects) # {}
  BY DEF OrAny
<1> QED
  BY <1>1 DEF Sinks

LEMMA SendCarries ==
  ASSUME NEW a, NEW ctx, "holds_sensitive" \in ctx.flags, Sinks(a) # {}
  PROVE  \E f \in Exfil(a, ctx) :
           /\ \E c \in f.claims : c.signal = "sensitivity" /\ c.value = 800
           /\ \E c \in f.claims : c.signal = "reach" /\ c.value = 1000
           /\ \E c \in f.claims : c.signal = "irreversibility" /\ c.value = 1000
<1>1. PICK s : s \in Sinks(a)
  OBVIOUS
<1>2. PICK t : t \in s.to
  BY <1>1, SinkReaches
<1>3. <<"sensitivity", 800, AnySubject>> \in Sources(a, ctx)
  BY DEF Sources, SensitivityOf
<1> DEFINE ends == UNION {Both(1000, 1000, u) : u \in s.to}
           f == Sensed(Finding("C2", s.reason, Sources(a, ctx) \cup ends))
<1>4. f \in Exfil(a, ctx)
  BY <1>1, <1>3 DEF Exfil
<1>5. <<"reach", 1000, t>> \in ends /\ <<"irreversibility", 1000, t>> \in ends
  BY <1>2 DEF Both
<1> HIDE DEF ends
<1>6. f.claims = {Claim("aira", c[1], c[2], c[3]) : c \in Sources(a, ctx) \cup ends}
  BY DEF Sensed, Finding
<1> HIDE DEF f
<1>7. /\ Claim("aira", "sensitivity", 800, AnySubject) \in f.claims
      /\ Claim("aira", "reach", 1000, t) \in f.claims
      /\ Claim("aira", "irreversibility", 1000, t) \in f.claims
  BY <1>3, <1>5, <1>6
<1> QED
  BY <1>4, <1>7 DEF Claim

LEMMA PendingValue ==
  ASSUME NEW some, NEW ctx, NEW f \in Detected(some.pending, As(ctx, "pending")), NEW c \in f.claims,
         c.signal \notin ConfidenceSignals, c.value \in Nat
  PROVE  /\ Value(AiraEnvelope(some, ctx), c.signal) >= c.value
         /\ Value(AiraEnvelope(some, ctx), c.signal) \in 0..Scale
<1>1. PICK g \in Findings(some.pending, As(ctx, "pending")) : Carries(g, f)
  BY DetectedCarried
<1>2. PICK d \in g.claims : d.signal = c.signal /\ d.value >= c.value
  BY <1>1 DEF Carries
<1>3. g \in Counted(some, ctx)
  BY PendingCounted
<1>4. d.value \in 0..Scale
  BY <1>3, CountedSized DEF AllSized, Sized, Bounded
<1> DEFINE v == Value(AiraEnvelope(some, ctx), c.signal)
<1>5. v >= d.value /\ v \in 0..Scale
  BY <1>2, <1>3, EnvelopeClaims
<1> HIDE DEF v
<1>6. v >= c.value
  <2> DEFINE high == d.value
             low == c.value
  <2>1. high >= low /\ v >= high /\ low \in Nat /\ high \in 0..Scale /\ v \in 0..Scale
    BY <1>2, <1>4, <1>5
  <2>2. Scale = 1000
    BY Weights
  <2> HIDE DEF high, low
  <2>3. v >= low
    BY <2>1, <2>2
  <2> QED
    BY <2>3 DEF low
<1> QED
  BY <1>5, <1>6 DEF v

LEMMA SendScored ==
  ASSUME NEW some, NEW ctx, "holds_sensitive" \in As(ctx, "pending").flags, Sinks(some.pending) # {}
  PROVE  CarriesSecrets(AiraEnvelope(some, ctx))
<1>1. PICK f \in Exfil(some.pending, As(ctx, "pending")) :
        /\ \E c \in f.claims : c.signal = "sensitivity" /\ c.value = 800
        /\ \E c \in f.claims : c.signal = "reach" /\ c.value = 1000
        /\ \E c \in f.claims : c.signal = "irreversibility" /\ c.value = 1000
  BY SendCarries
<1>2. f \in Detected(some.pending, As(ctx, "pending"))
  BY DEF Detected
<1>3. \A s \in {"sensitivity", "reach", "irreversibility"} : s \notin ConfidenceSignals
  BY DEF ConfidenceSignals
<1>4. Value(AiraEnvelope(some, ctx), "sensitivity") >= 800
  BY <1>1, <1>2, <1>3, PendingValue
<1> DEFINE reach == Value(AiraEnvelope(some, ctx), "reach")
           lasting == Value(AiraEnvelope(some, ctx), "irreversibility")
<1>5. reach >= 1000 /\ reach \in 0..Scale
  BY <1>1, <1>2, <1>3, PendingValue
<1>6. lasting >= 1000 /\ lasting \in 0..Scale
  BY <1>1, <1>2, <1>3, PendingValue
<1> HIDE DEF reach, lasting
<1>7. reach = Scale /\ lasting = Scale
  BY <1>5, <1>6, Weights
<1> QED
  BY <1>4, <1>7 DEF CarriesSecrets, reach, lasting

-----------------------------------------------------------------------------
(* What the session holds: an answered scan that read credentials left its   *)
(* flag in the token.                                                      *)

HeldInv == held => "holds_sensitive" \in flags

LEMMA HeldInit == Init => HeldInv
BY DEF Init, HeldInv

LEMMA HeldNext == HeldInv /\ [Next]_vars => HeldInv'
<1> SUFFICES ASSUME HeldInv, [Next]_vars PROVE HeldInv'
  OBVIOUS
<1>1. ASSUME NEW calls, NEW granted, Turn(calls, granted) PROVE HeldInv'
  BY <1>1 DEF HeldInv, Turn
<1>2. ASSUME NEW answered \in BOOLEAN, Scan(answered) PROVE HeldInv'
  <2> DEFINE i == Len(answers) + 1
             c == batch[i]
             some == Batched(Calls[c], Others(i), IF c \in DOMAIN Steps THEN Steps[c] ELSE {})
             ctx == Context(Calls[c], Others(i))
             read == Credentials(Calls[c], Context(Calls[c], {})) # {}
  <2>1. /\ flags' = IF answered THEN flags \cup AiraEnvelope(some, ctx).flags ELSE flags
        /\ held' = (held \/ (answered /\ read))
    BY <1>2 DEF Scan, EnvelopeOf
  <2>2. some.pending = Calls[c]
    BY DEF Batched
  <2>3. read => "holds_sensitive" \in AiraEnvelope(some, ctx).flags
    BY <2>2, ReadRemembered
  <2> HIDE DEF some, ctx, read
  <2> QED
    BY <2>1, <2>3 DEF HeldInv
<1>3. ASSUME EndTurn PROVE HeldInv'
  BY <1>3 DEF HeldInv, EndTurn
<1>4. ASSUME Lose PROVE HeldInv'
  BY <1>4 DEF HeldInv, Lose
<1>5. CASE UNCHANGED vars
  BY <1>5 DEF HeldInv, vars
<1> QED
  BY <1>1, <1>2, <1>3, <1>4, <1>5 DEF Next

LEMMA HeldFollows == HeldInv => SecretsFollow
<1> SUFFICES ASSUME HeldInv, held, NEW c \in Library, Sinks(Calls[c]) # {}
             PROVE  CarriesSecrets(EnvelopeOf(c, {}))
  BY DEF SecretsFollow
<1> DEFINE some == Batched(Calls[c], {}, IF c \in DOMAIN Steps THEN Steps[c] ELSE {})
           ctx == Context(Calls[c], {})
<1>1. As(ctx, "pending").flags = flags
  BY DEF As, Context
<1>2. some.pending = Calls[c]
  BY DEF Batched
<1>3. EnvelopeOf(c, {}) = AiraEnvelope(some, ctx)
  BY DEF EnvelopeOf
<1> HIDE DEF some, ctx
<1> QED
  BY <1>1, <1>2, <1>3, SendScored DEF HeldInv

(* After a scan that was answered read credentials, and until the token is   *)
(* lost, every call that sends off the host is scored as carrying them: the  *)
(* flag the token carries is a source of the send (detectors.py _sources,   *)
(* state/token.py).                                                        *)
THEOREM SecretsCarried == Spec => []SecretsFollow
<1>1. HeldInv /\ [Next]_vars => HeldInv'
  BY HeldNext
<1> QED
  BY HeldInit, HeldFollows, <1>1, PTL DEF Spec

-----------------------------------------------------------------------------
(* Tampering: found whatever the context, and counted for the whole batch.  *)

LEMMA TamperingIs ==
  ASSUME NEW reason, NEW subject, NEW other
  PROVE  /\ CountsForTheBatch(Tampering(reason, subject))
         /\ \E c \in Tampering(reason, subject).claims :
              c.signal = "self_modification" /\ c.value = 1000
         /\ Tampering(reason, subject).floors # {} <=> Tampering(reason, other).floors # {}
         /\ \A f \in Tampering(reason, subject).floors : f.floor = "guardrail_tampering"
<1> DEFINE approvals(s) == Finding("C4", "C4.host_approvals",
                                   {<<"self_modification", 1000, s>>, <<"reach", 750, s>>})
           plain(s) == Finding("C4*", reason, {<<"self_modification", 1000, s>>})
           floor(s) == {[floor |-> "guardrail_tampering", min |-> 1000, subject |-> s]}
<1>1. \A s : Tampering(reason, s) =
               IF reason = "host_approvals" THEN approvals(s) ELSE [plain(s) EXCEPT !.floors = floor(s)]
  BY DEF Tampering
<1>2. ASSUME NEW s
      PROVE  /\ approvals(s).rule = "C4.host_approvals" /\ approvals(s).floors = {}
             /\ Claim("aira", "self_modification", 1000, s) \in approvals(s).claims
  <2>1. /\ approvals(s).rule = "C4.host_approvals" /\ approvals(s).floors = {}
        /\ approvals(s).claims = {Claim("aira", c[1], c[2], c[3]) :
              c \in {<<"self_modification", 1000, s>>, <<"reach", 750, s>>}}
    BY DEF Finding
  <2> QED
    BY <2>1
<1>3. ASSUME NEW s
      PROVE  /\ [plain(s) EXCEPT !.floors = floor(s)].cls = "C4*"
             /\ [plain(s) EXCEPT !.floors = floor(s)].floors = floor(s)
             /\ Claim("aira", "self_modification", 1000, s) \in [plain(s) EXCEPT !.floors = floor(s)].claims
  <2> DEFINE made == {Claim("aira", c[1], c[2], c[3]) : c \in {<<"self_modification", 1000, s>>}}
             given == floor(s)
  <2>1. plain(s) = [cls |-> "C4*", rule |-> reason, floors |-> {}, flags |-> {}, claims |-> made]
    BY DEF Finding
  <2>2. Claim("aira", "self_modification", 1000, s) \in made
    OBVIOUS
  <2> HIDE DEF made, plain, given
  <2>3. /\ [plain(s) EXCEPT !.floors = given].cls = "C4*"
        /\ [plain(s) EXCEPT !.floors = given].floors = given
        /\ [plain(s) EXCEPT !.floors = given].claims = made
    BY <2>1
  <2> QED
    BY <2>2, <2>3 DEF given
<1> HIDE DEF approvals, plain
<1>4. CASE reason = "host_approvals"
  <2>1. Tampering(reason, subject) = approvals(subject) /\ Tampering(reason, other) = approvals(other)
    BY <1>1, <1>4
  <2>2. /\ Tampering(reason, subject).rule = "C4.host_approvals"
        /\ Tampering(reason, subject).floors = {} /\ Tampering(reason, other).floors = {}
        /\ Claim("aira", "self_modification", 1000, subject) \in Tampering(reason, subject).claims
    BY <2>1, <1>2
  <2> QED
    BY <2>2 DEF CountsForTheBatch, Claim
<1>5. CASE reason # "host_approvals"
  <2>1. /\ Tampering(reason, subject) = [plain(subject) EXCEPT !.floors = floor(subject)]
        /\ Tampering(reason, other) = [plain(other) EXCEPT !.floors = floor(other)]
    BY <1>1, <1>5
  <2>2. /\ Tampering(reason, subject).cls = "C4*"
        /\ Tampering(reason, subject).floors = floor(subject)
        /\ Tampering(reason, other).floors = floor(other)
        /\ Claim("aira", "self_modification", 1000, subject) \in Tampering(reason, subject).claims
    BY <2>1, <1>3
  <2> QED
    BY <2>2 DEF CountsForTheBatch, Claim
<1> QED
  BY <1>4, <1>5

LEMMA SameTampering ==
  ASSUME NEW a, NEW one, NEW other, NEW f \in Guardrail(a, one)
  PROVE  \E reason, s, t : f = Tampering(reason, s) /\ Tampering(reason, t) \in Guardrail(a, other)
<1> DEFINE written == {p \in Written(a) : PathReason(p) # None}
           configs == {p \in Written(a) \ written : "config_file" \in Groups(p)
                                                    /\ a.kind \in WriteKinds \cup {"mcp", "other"}}
           edit == IF "names_plugin" \in a.edit THEN {"config_entry"}
                   ELSE IF "host_approvals" \in a.edit THEN {"host_approvals"} ELSE {}
           inline == a.inline \/ (HasShape(a) /\ a.shape.inline_eval)
           ofWrites(ctx) == {Tampering(PathReason(p), Subject(p, ctx)) : p \in written}
           ofEdits(ctx) == {Tampering(r, Subject(p, ctx)) : r \in edit, p \in configs}
           ofCommands ==
             IF a.kind # "exec" THEN {}
             ELSE (IF inline /\ {"write_marker", "guardrail_path"} \subseteq a.text
                   THEN {Tampering("state_dir_write", AnySubject)} ELSE {})
                  \cup {Tampering(r, AnySubject) :
                          r \in UNION {CliReasons(w) : w \in UNION {CommandsIn(l) : l \in a.lines}}}
                  \cup (IF "process_kill" \in a.text THEN {Tampering("gateway_stop", AnySubject)} ELSE {})
<1>1. \A ctx : Guardrail(a, ctx) = ofWrites(ctx) \cup ofEdits(ctx) \cup ofCommands
  BY DEF Guardrail
<1>2. f \in ofCommands => \E r : f = Tampering(r, AnySubject)
  OBVIOUS
<1> HIDE DEF ofCommands, written, configs, edit
<1>3. CASE f \in ofWrites(one)
  <2>1. PICK p \in written : f = Tampering(PathReason(p), Subject(p, one))
    BY <1>3
  <2>2. Tampering(PathReason(p), Subject(p, other)) \in ofWrites(other)
    OBVIOUS
  <2> QED
    BY <1>1, <2>1, <2>2
<1>4. CASE f \in ofEdits(one)
  <2>1. PICK r \in edit, p \in configs : f = Tampering(r, Subject(p, one))
    BY <1>4
  <2>2. Tampering(r, Subject(p, other)) \in ofEdits(other)
    OBVIOUS
  <2> QED
    BY <1>1, <2>1, <2>2
<1>5. CASE f \in ofCommands
  <2>1. PICK r : f = Tampering(r, AnySubject)
    BY <1>2, <1>5
  <2> QED
    BY <1>1, <1>5, <2>1
<1> QED
  BY <1>1, <1>3, <1>4, <1>5

(* What an answer owes a call of its batch, in any context.                 *)
Covers(envelope, call) ==
  \A ctx : \A f \in Guardrail(call, ctx) :
    /\ Value(envelope, "self_modification") = Scale
    /\ f.floors # {} => \E floor \in envelope.floors : floor.floor = "guardrail_tampering"

LEMMA CountedCovers ==
  ASSUME NEW some, NEW ctx, NEW call, NEW there,
         \A g \in Findings(call, there) : CountsForTheBatch(g) => g \in Counted(some, ctx)
  PROVE  Covers(AiraEnvelope(some, ctx), call)
<1> SUFFICES ASSUME NEW elsewhere, NEW f \in Guardrail(call, elsewhere)
             PROVE  /\ Value(AiraEnvelope(some, ctx), "self_modification") = Scale
                    /\ f.floors # {} =>
                         \E floor \in AiraEnvelope(some, ctx).floors : floor.floor = "guardrail_tampering"
  BY DEF Covers
<1>1. PICK reason, s, t : f = Tampering(reason, s) /\ Tampering(reason, t) \in Guardrail(call, there)
  BY SameTampering
<1> DEFINE found == Tampering(reason, t)
<1>2. found \in Detected(call, there)
  BY <1>1 DEF Detected
<1>3. /\ CountsForTheBatch(found)
      /\ \E c \in found.claims : c.signal = "self_modification" /\ c.value = 1000
      /\ f.floors # {} => found.floors # {}
      /\ \A floor \in found.floors : floor.floor = "guardrail_tampering"
  BY <1>1, TamperingIs
<1> HIDE DEF found
<1>4. PICK g \in Findings(call, there) : Carries(g, found)
  BY <1>2, DetectedCarried
<1>5. g \in Counted(some, ctx)
  BY <1>3, <1>4 DEF Carries, CountsForTheBatch
<1>6. PICK c \in g.claims : c.signal = "self_modification" /\ c.value >= 1000
  BY <1>3, <1>4 DEF Carries
<1>7. c.value \in 0..Scale
  BY <1>5, CountedSized DEF AllSized, Sized, Bounded
<1> DEFINE v == Value(AiraEnvelope(some, ctx), "self_modification")
           low == c.value
<1>8. v >= low /\ v \in 0..Scale /\ low >= 1000 /\ low \in 0..Scale
  BY <1>5, <1>6, <1>7, EnvelopeClaims DEF ConfidenceSignals
<1>9. g.floors = found.floors
  BY <1>4 DEF Carries
<1>10. AiraEnvelope(some, ctx).floors = UNION {h.floors : h \in Counted(some, ctx)}
  BY EnvelopeIs
<1>11. g.floors \subseteq AiraEnvelope(some, ctx).floors
  BY <1>5, <1>10
<1>12. Scale = 1000
  BY Weights
<1> HIDE DEF v, low
<1>13. v = Scale
  BY <1>8, <1>12
<1> QED
  BY <1>3, <1>9, <1>11, <1>13 DEF v

(* Every answer so far covers every call of its batch.                      *)
CoverInv ==
  /\ \E some : answers \in Seq(some)
  /\ \A i \in DOMAIN answers : answers[i] # None =>
       \A j \in DOMAIN batch : Covers(answers[i], Calls[batch[j]])

LEMMA CoverInit == Init => CoverInv
<1> SUFFICES ASSUME Init PROVE CoverInv
  OBVIOUS
<1>1. answers = <<>> /\ answers \in Seq({})
  BY DEF Init
<1> QED
  BY <1>1 DEF CoverInv

LEMMA ScanCovers ==
  ASSUME NEW i \in DOMAIN batch, NEW j \in DOMAIN batch
  PROVE  Covers(EnvelopeOf(batch[i], Others(i)), Calls[batch[j]])
<1> DEFINE c == batch[i]
           some == Batched(Calls[c], Others(i), IF c \in DOMAIN Steps THEN Steps[c] ELSE {})
           ctx == Context(Calls[c], Others(i))
<1>1. EnvelopeOf(batch[i], Others(i)) = AiraEnvelope(some, ctx)
  BY DEF EnvelopeOf
<1>2. some.pending = Calls[c] /\ some.siblings = {Calls[d] : d \in Others(i)}
  BY DEF Batched
<1> HIDE DEF some, ctx
<1>3. CASE j = i
  <2>1. \A g \in Findings(Calls[batch[j]], As(ctx, "pending")) : g \in Counted(some, ctx)
    BY <1>2, <1>3, PendingCounted
  <2> QED
    BY <1>1, <2>1, CountedCovers
<1>4. CASE j # i
  <2>1. Calls[batch[j]] \in some.siblings
    BY <1>2, <1>4 DEF Others
  <2>2. \A g \in Findings(Calls[batch[j]], As(ctx, "sibling")) :
          CountsForTheBatch(g) => g \in Counted(some, ctx)
    BY <2>1, SiblingCounted
  <2> QED
    BY <1>1, <2>2, CountedCovers
<1> QED
  BY <1>3, <1>4

LEMMA Appended ==
  ASSUME NEW some, NEW s \in Seq(some), NEW e
  PROVE  /\ Append(s, e) \in Seq(some \cup {e})
         /\ \A k \in DOMAIN Append(s, e) :
              \/ k \in DOMAIN s /\ Append(s, e)[k] = s[k]
              \/ Append(s, e)[k] = e
OBVIOUS

LEMMA CoverNext == CoverInv /\ [Next]_vars => CoverInv'
<1> SUFFICES ASSUME CoverInv, [Next]_vars PROVE CoverInv'
  OBVIOUS
<1>1. ASSUME NEW calls, NEW granted, Turn(calls, granted) PROVE CoverInv'
  <2>1. answers' = <<>> /\ answers' \in Seq({})
    BY <1>1 DEF Turn
  <2> QED
    BY <2>1 DEF CoverInv
<1>2. ASSUME NEW answered \in BOOLEAN, Scan(answered) PROVE CoverInv'
  <2> DEFINE i == Len(answers) + 1
             e == EnvelopeOf(batch[i], Others(i))
             added == IF answered THEN e ELSE None
  <2>1. i \in DOMAIN batch /\ answers' = Append(answers, added) /\ batch' = batch
    BY <1>2 DEF Scan
  <2>2. \A j \in DOMAIN batch : Covers(e, Calls[batch[j]])
    BY <2>1, ScanCovers
  <2>3. PICK some : answers \in Seq(some)
    BY DEF CoverInv
  <2> HIDE DEF i, e
  <2>4. added # None => \A j \in DOMAIN batch : Covers(added, Calls[batch[j]])
    BY <2>2
  <2> HIDE DEF added
  <2>5. /\ answers' \in Seq(some \cup {added})
        /\ \A k \in DOMAIN answers' : \/ k \in DOMAIN answers /\ answers'[k] = answers[k]
                                     \/ answers'[k] = added
    BY <2>1, <2>3, Appended
  <2>6. ASSUME NEW k \in DOMAIN answers', answers'[k] # None, NEW j \in DOMAIN batch'
        PROVE  Covers(answers'[k], Calls[batch'[j]])
    <3>1. CASE k \in DOMAIN answers /\ answers'[k] = answers[k]
      BY <2>1, <2>6, <3>1 DEF CoverInv
    <3>2. CASE answers'[k] = added
      BY <2>1, <2>4, <2>6, <3>2
    <3> QED
      BY <2>5, <2>6, <3>1, <3>2
  <2> QED
    BY <2>5, <2>6 DEF CoverInv
<1>3. ASSUME EndTurn PROVE CoverInv'
  <2>1. answers' = <<>> /\ answers' \in Seq({})
    BY <1>3 DEF EndTurn
  <2> QED
    BY <2>1 DEF CoverInv
<1>4. ASSUME Lose PROVE CoverInv'
  BY <1>4 DEF CoverInv, Lose
<1>5. CASE UNCHANGED vars
  BY <1>5 DEF CoverInv, vars
<1> QED
  BY <1>1, <1>2, <1>3, <1>4, <1>5 DEF Next

LEMMA CoverFollows == CoverInv => TamperingCoversBatch
<1> SUFFICES ASSUME CoverInv, NEW i \in DOMAIN answers, answers[i] # None, NEW j \in DOMAIN batch,
                    TamperingIn(batch[j], Others(j)) # {}
             PROVE  /\ Value(answers[i], "self_modification") = Scale
                    /\ (\E f \in TamperingIn(batch[j], Others(j)) : f.floors # {}) =>
                         \E f \in answers[i].floors : f.floor = "guardrail_tampering"
  BY DEF TamperingCoversBatch
<1>1. Covers(answers[i], Calls[batch[j]])
  BY DEF CoverInv
<1>2. \A f \in TamperingIn(batch[j], Others(j)) :
        /\ Value(answers[i], "self_modification") = Scale
        /\ f.floors # {} => \E floor \in answers[i].floors : floor.floor = "guardrail_tampering"
  BY <1>1 DEF Covers, TamperingIn
<1> QED
  BY <1>2

(* A call of a batch that tampers with a guardrail lifts the answer of every *)
(* call of its batch to the full self-modification, and gives it the floor   *)
(* (probes/aira.py, which runs the detectors over the siblings), whichever   *)
(* scan comes first and whatever context each is given.                     *)
THEOREM TamperingCovers == Spec => []TamperingCoversBatch
<1>1. CoverInv /\ [Next]_vars => CoverInv'
  BY CoverNext
<1> QED
  BY CoverInit, CoverFollows, <1>1, PTL DEF Spec

=============================================================================
