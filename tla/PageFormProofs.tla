--------------------------- MODULE PageFormProofs ---------------------------
(***************************************************************************)
(* The scanner makes one pass and remembers a handful of facts; the         *)
(* properties speak of the page as a whole.  What ties them together is an  *)
(* account of what a scan of the first n tokens says about those tokens:    *)
(* ScanOK of the form and its controls, TextsOK of the texts collected.     *)
(* Each token's handler is shown to carry the account one token further.    *)
(*                                                                          *)
(* What the page's recursive functions compute is proved by way of a least  *)
(* place where they would not, there being none.                            *)
(***************************************************************************)
EXTENDS PageForm, FiniteSetTheorems, WellFoundedInduction, TLAPS

-----------------------------------------------------------------------------
(* Templates, counted to the end of the page *)

\* A set of numbers has a least one.
LEMMA LeastOfAll ==
    ASSUME NEW T \in SUBSET Nat, T # {}
    PROVE  \E m \in T: \A k \in T: m <= k
<1> DEFINE below == {p \in Nat \X Nat: p[1] < p[2]}
<1>1. IsWellFoundedOn(below, Nat)
  BY NatLessThanWellFounded, Zenon DEF OpToRel
<1>2. PICK m \in T: \A k \in T: ~(<<k, m>> \in below)
  BY <1>1, WFMin
<1>3. ASSUME NEW k \in T PROVE m <= k
  <2>1. <<k, m>> \in Nat \X Nat /\ <<k, m>>[1] = k /\ <<k, m>>[2] = m
    OBVIOUS
  <2>2. ~(k < m)
    BY <1>2, <2>1
  <2> QED
    BY <2>2
<1> QED
  BY <1>3

\* How many templates are open follows its recursion to the end of the page.
LEMMA TemplatesCounted ==
    ASSUME Len(page) \in Nat
    PROVE  /\ OpenTemplates \in [0..Len(page) -> Nat] /\ OpenTemplates[0] = 0
           /\ \A i \in 1..Len(page):
                  OpenTemplates[i] = IF Opens(i, "template") THEN OpenTemplates[i - 1] + 1
                                     ELSE IF Ends(i, "template") /\ OpenTemplates[i - 1] > 0
                                     THEN OpenTemplates[i - 1] - 1 ELSE OpenTemplates[i - 1]
<1> DEFINE next(f, i) == IF i = 0 THEN 0
                         ELSE IF Opens(i, "template") THEN f[i - 1] + 1
                         ELSE IF Ends(i, "template") /\ f[i - 1] > 0 THEN f[i - 1] - 1
                         ELSE f[i - 1]
           counts(f, n) == f \in [0..n -> Nat] /\ \A i \in 0..n: f[i] = next(f, i)
           bad == {n \in 0..Len(page): ~\E f: counts(f, n)}
<1>1. ASSUME NEW n \in bad, \A k \in bad: n <= k PROVE FALSE
  <2>1. CASE n = 0
    <3>1. counts([i \in 0..0 |-> 0], 0)
      OBVIOUS
    <3> QED
      BY <2>1, <3>1
  <2>2. CASE n # 0
    <3>0. n \in 1..Len(page)
      BY <1>1, <2>2
    <3>1. n \in Nat /\ n - 1 \in 0..Len(page) /\ n - 1 \notin bad
      <4>1. n - 1 \notin bad
        <5> HIDE DEF bad
        <5> QED
          BY <1>1, <3>0
      <4> QED
        BY <3>0, <4>1
    <3>2. PICK f: counts(f, n - 1)
      BY <3>1
    <3> DEFINE g == [i \in 0..n |-> IF i = n THEN next(f, n) ELSE f[i]]
    <3>3. f[n - 1] \in Nat /\ next(f, n) \in Nat
      BY <3>1, <3>2
    <3>4. g \in [0..n -> Nat]
      BY <3>1, <3>2, <3>3
    <3>5. ASSUME NEW i \in 0..n PROVE g[i] = next(g, i)
      <4>1. i # 0 => g[i - 1] = f[i - 1]
        BY <3>1
      <4>2. next(g, i) = next(f, i)
        BY <4>1
      <4>3. g[i] = next(f, i)
        BY <3>1, <3>2
      <4> QED
        BY <4>2, <4>3
    <3> QED
      BY <3>4, <3>5
  <2> QED
    BY <2>1, <2>2
<1>2. bad = {}
  <2>1. bad \in SUBSET Nat
    OBVIOUS
  <2> HIDE DEF bad
  <2> QED
    BY <1>1, <2>1, LeastOfAll
<1>3. PICK f: counts(f, Len(page))
  BY <1>2
<1>4. f = [i \in 0..Len(page) |-> next(f, i)]
  BY <1>3
<1>5. OpenTemplates = [i \in 0..Len(page) |-> next(OpenTemplates, i)]
  BY <1>4 DEF OpenTemplates
<1>6. OpenTemplates \in [0..Len(page) -> Nat]
  <2> DEFINE wrong == {i \in 0..Len(page): OpenTemplates[i] \notin Nat}
  <2>1. ASSUME NEW i \in wrong, \A k \in wrong: i <= k PROVE FALSE
    <3>1. i # 0 => i - 1 \in 0..Len(page) /\ i - 1 \notin wrong
      BY <2>1
    <3>2. OpenTemplates[i] = next(OpenTemplates, i)
      BY <1>5
    <3> QED
      BY <3>1, <3>2
  <2>2. wrong = {}
    <3>1. wrong \in SUBSET Nat
      OBVIOUS
    <3> HIDE DEF wrong
    <3> QED
      BY <2>1, <3>1, LeastOfAll
  <2>3. DOMAIN OpenTemplates = 0..Len(page)
    BY <1>5
  <2>4. OpenTemplates = [i \in 0..Len(page) |-> OpenTemplates[i]]
    <3> DEFINE F == [i \in 0..Len(page) |-> next(OpenTemplates, i)]
    <3>1. F = [i \in 0..Len(page) |-> F[i]]
      OBVIOUS
    <3>2. OpenTemplates = F
      BY <1>5
    <3> QED
      BY <3>1, <3>2
  <2> QED
    BY <2>2, <2>4
<1>7. OpenTemplates[0] = 0
  BY <1>5
<1>8. ASSUME NEW i \in 1..Len(page) PROVE OpenTemplates[i] = next(OpenTemplates, i)
  BY <1>5
<1> QED
  BY <1>6, <1>7, <1>8

-----------------------------------------------------------------------------
(* What a scan notes of the form, and what each token adds to it *)

\* What a scan is made of.
Parts == {"forms", "inForm", "action", "post", "controls", "labels", "tiles", "errors",
          "capture", "templates", "suspicious"}

\* A page made of tokens as PageAssumption has them.
PageShape ==
    /\ Len(page) \in Nat /\ DOMAIN page = 1..Len(page)
    /\ \A i \in DOMAIN page:
           /\ page[i].token \in {"start", "end"} => page[i].name # Absent
           /\ page[i].token = "start" => /\ page[i].closed \in BOOLEAN /\ page[i].away \in BOOLEAN
                                        /\ page[i].for \in Int /\ page[i].device \in Int

\* What the scanner notes of a control.
Noted(i) == [name |-> page[i].field, kind |-> page[i].kind,
             value |-> page[i].value, checked |-> page[i].checked]

\* All that could be noted of this page.
AllNoted == {Noted(i): i \in DOMAIN page}

\* Of the first n tokens, the forms and the named controls that a browser would show.
FormsUpTo(n) == {i \in Live: i <= n /\ Starts(i, "form")}
NamedUpTo(n) == {i \in Controls(Live): i <= n /\ page[i].field # Absent}

\* The controls noted are the live, named ones so far, in page order: g says where each is.
Finds(g, controls, n) ==
    /\ g \in [DOMAIN controls -> NamedUpTo(n)]
    /\ \A i \in NamedUpTo(n): \E k \in DOMAIN controls: g[k] = i
    /\ \A k, l \in DOMAIN controls: k < l => g[k] < g[l]
    /\ \A k \in DOMAIN controls: controls[k] = Noted(g[k])

\* What a text is collected for.
Targets == {"label", "tile", "error"}

\* What is being collected has a place to go.
CaptureOK(s) ==
    /\ {"tag", "target"} \subseteq DOMAIN s.capture
    /\ s.capture.tag # Absent => s.capture.target \in Targets

\* What a scan of the first n tokens has noted, unless it found something suspicious.
ScanOK(s, n) ==
    /\ DOMAIN s = Parts /\ CaptureOK(s)
    /\ s.forms \in Nat /\ s.inForm \in BOOLEAN /\ s.suspicious \in BOOLEAN
    /\ s.controls \in Seq(AllNoted)
    /\ s.templates = OpenTemplates[n]
    /\ s.inForm <=> InForm(n + 1, Live)
    /\ ~s.suspicious =>
           /\ s.forms = Cardinality(FormsUpTo(n))
           /\ \A i \in Controls(Live):
                  i <= n => ~page[i].away /\ (page[i].field # Absent => InForm(i, Live))
           /\ \E g: Finds(g, s.controls, n)

\* Begin leaves alone what is said of the form and its controls.
LEMMA BeginCaptures ==
    ASSUME NEW s, NEW tag, DOMAIN s = Parts, CaptureOK(s), NEW target \in Targets, NEW ref
    PROVE  LET t == Begin(s, target, ref, tag)
           IN  /\ DOMAIN t = Parts /\ CaptureOK(t) /\ t.forms = s.forms /\ t.inForm = s.inForm
               /\ t.suspicious = s.suspicious /\ t.controls = s.controls
               /\ t.templates = s.templates
<1>1. CASE Begin(s, target, ref, tag) = s
  BY <1>1
<1>2. CASE Begin(s, target, ref, tag) =
              [s EXCEPT !.capture = [target |-> target, ref |-> ref, tag |-> tag.name,
                                     depth |-> 1, text |-> <<>>]]
  <2> DEFINE t == Begin(s, target, ref, tag)
             c == [target |-> target, ref |-> ref, tag |-> tag.name, depth |-> 1, text |-> <<>>]
  <2>1. DOMAIN t = Parts /\ t.capture = c
    BY <1>2 DEF Parts
  <2>2. {"tag", "target"} \subseteq DOMAIN c /\ c.target = target
    OBVIOUS
  <2>3. CaptureOK(t)
    BY <2>1, <2>2 DEF CaptureOK
  <2> QED
    BY <1>2, <2>1, <2>3 DEF Parts
<1> QED
  BY <1>1, <1>2 DEF Begin

\* Marked leaves alone what is said of the form and its controls.
LEMMA MarkedLeaves ==
    ASSUME NEW s, NEW tag, DOMAIN s = Parts, CaptureOK(s)
    PROVE  LET t == Marked(s, tag)
           IN  /\ DOMAIN t = Parts /\ CaptureOK(t) /\ t.forms = s.forms /\ t.inForm = s.inForm
               /\ t.suspicious = s.suspicious /\ t.controls = s.controls
               /\ t.templates = s.templates
<1>1. ASSUME NEW r, DOMAIN r = Parts, CaptureOK(r), NEW target \in Targets, NEW ref
      PROVE  LET t == Begin(r, target, ref, tag)
             IN  /\ DOMAIN t = Parts /\ CaptureOK(t) /\ t.forms = r.forms /\ t.inForm = r.inForm
                 /\ t.suspicious = r.suspicious /\ t.controls = r.controls
                 /\ t.templates = r.templates
  BY <1>1, BeginCaptures
<1>2. CASE IsFieldError(tag.id)
  BY <1>1, <1>2 DEF Marked, Targets
<1>3. CASE ~IsFieldError(tag.id) /\ tag.device < 0
  BY <1>3 DEF Marked
<1>4. CASE ~IsFieldError(tag.id) /\ ~(tag.device < 0)
  <2> DEFINE tile  == [index |-> tag.device, credential |-> Credential(tag),
                       isInput |-> tag.name = "input", text |-> <<>>]
             added == [s EXCEPT !.tiles = Append(@, tile)]
  <2>1. /\ DOMAIN added = Parts /\ CaptureOK(added)
        /\ added.forms = s.forms /\ added.inForm = s.inForm
        /\ added.suspicious = s.suspicious /\ added.controls = s.controls
        /\ added.templates = s.templates
    BY DEF Parts, CaptureOK
  <2>2. Marked(s, tag) = IF tile.isInput THEN added ELSE Begin(added, "tile", Len(added.tiles), tag)
    BY <1>4 DEF Marked
  <2>3. "tile" \in Targets
    BY DEF Targets
  <2> HIDE DEF added, tile
  <2> QED
    BY <1>1, <2>1, <2>2, <2>3
<1> QED
  BY <1>2, <1>3, <1>4

\* The elements the scanner takes for controls.
IsControl(tag) == tag.name \in {"input", "button"}

\* What a start tag that is live adds.
LEMMA OpenedAdds ==
    ASSUME NEW s, NEW tag, DOMAIN s = Parts, CaptureOK(s),
           s.inForm \in BOOLEAN, s.suspicious \in BOOLEAN, tag.away \in BOOLEAN
    PROVE  LET t == Opened(s, tag)
           IN  /\ DOMAIN t = Parts /\ CaptureOK(t) /\ t.templates = s.templates
               /\ t.inForm \in BOOLEAN /\ t.suspicious \in BOOLEAN
               /\ t.inForm <=> s.inForm \/ tag.name = "form"
               /\ t.forms = IF tag.name = "form" /\ ~s.inForm THEN s.forms + 1 ELSE s.forms
               /\ t.suspicious <=>
                      \/ s.suspicious \/ (tag.name = "form" /\ s.inForm)
                      \/ IsControl(tag) /\ (tag.away \/ (tag.field # Absent /\ ~s.inForm))
               /\ t.controls =
                      IF IsControl(tag) /\ tag.field # Absent /\ s.inForm
                      THEN Append(s.controls, [name |-> tag.field, kind |-> tag.kind,
                                               value |-> tag.value, checked |-> tag.checked])
                      ELSE s.controls
<1>1. CASE tag.name = "form" /\ s.inForm
  <2>1. Opened(s, tag) = [s EXCEPT !.suspicious = TRUE]
    BY <1>1 DEF Opened
  <2> QED
    BY <1>1, <2>1 DEF Parts, IsControl, CaptureOK
<1>2. CASE tag.name = "form" /\ ~s.inForm
  <2>1. Opened(s, tag) =
          [s EXCEPT !.inForm = TRUE, !.forms = @ + 1, !.action = tag.action, !.post = tag.post]
    BY <1>2 DEF Opened
  <2> QED
    BY <1>2, <2>1 DEF Parts, IsControl, CaptureOK
<1>3. CASE IsControl(tag)
  <2>1. Opened(s, tag) = Control(s, tag) /\ tag.name # "form"
    BY <1>3 DEF Opened, IsControl
  <2> DEFINE seen == [s EXCEPT !.suspicious = @ \/ tag.away]
  <2>2. /\ DOMAIN seen = Parts /\ CaptureOK(seen)
        /\ seen.templates = s.templates /\ seen.inForm = s.inForm
        /\ seen.forms = s.forms /\ seen.controls = s.controls
        /\ seen.suspicious \in BOOLEAN /\ (seen.suspicious <=> s.suspicious \/ tag.away)
    BY DEF Parts, CaptureOK
  <2>3. CASE tag.field = Absent
    <3>1. Control(s, tag) = seen
      BY <2>3 DEF Control
    <3> HIDE DEF seen
    <3> QED
      BY <1>3, <2>1, <2>2, <2>3, <3>1
  <2>4. CASE tag.field # Absent /\ ~s.inForm
    <3>1. Control(s, tag) = [seen EXCEPT !.suspicious = TRUE]
      BY <2>4 DEF Control
    <3> HIDE DEF seen
    <3> QED
      BY <1>3, <2>1, <2>2, <2>4, <3>1 DEF Parts, CaptureOK
  <2>5. CASE tag.field # Absent /\ s.inForm
    <3> DEFINE control == [name |-> tag.field, kind |-> tag.kind,
                           value |-> tag.value, checked |-> tag.checked]
    <3>1. Control(s, tag) = [seen EXCEPT !.controls = Append(@, control)]
      BY <2>5 DEF Control
    <3> HIDE DEF seen, control
    <3>2. /\ DOMAIN Control(s, tag) = Parts /\ CaptureOK(Control(s, tag))
          /\ Control(s, tag).controls = Append(s.controls, control)
          /\ Control(s, tag).templates = s.templates /\ Control(s, tag).inForm = s.inForm
          /\ Control(s, tag).forms = s.forms /\ Control(s, tag).suspicious = seen.suspicious
      BY <2>2, <3>1 DEF Parts, CaptureOK
    <3> QED
      BY <1>3, <2>1, <2>2, <2>5, <3>2 DEF control
  <2> QED
    BY <2>3, <2>4, <2>5
<1>4. CASE tag.name # "form" /\ ~IsControl(tag)
  <2>1. Opened(s, tag) = s \/ \E ref: Opened(s, tag) = Begin(s, "label", ref, tag)
    BY <1>4 DEF Opened, IsControl
  <2>2. LET t == Opened(s, tag)
        IN  /\ DOMAIN t = Parts /\ CaptureOK(t) /\ t.forms = s.forms /\ t.inForm = s.inForm
            /\ t.suspicious = s.suspicious /\ t.controls = s.controls
            /\ t.templates = s.templates
    BY <2>1, BeginCaptures DEF Targets
  <2> QED
    BY <1>4, <2>2
<1> QED
  BY <1>1, <1>2, <1>3, <1>4

\* Two scans that note the same of the form and its controls.
SameForm(t, s) ==
    /\ t.forms = s.forms /\ t.inForm = s.inForm /\ t.suspicious = s.suspicious
    /\ t.controls = s.controls

\* A start tag either opens a template, or is within one, or adds what it is.
LEMMA StartAdds ==
    ASSUME NEW s, NEW tag, DOMAIN s = Parts, CaptureOK(s), s.inForm \in BOOLEAN,
           s.suspicious \in BOOLEAN, s.templates \in Nat,
           tag.away \in BOOLEAN, tag.closed \in BOOLEAN
    PROVE  LET t     == Start(s, tag)
               inside == s.templates + IF tag.name = "template" /\ ~tag.closed THEN 1 ELSE 0
           IN  /\ DOMAIN t = Parts /\ CaptureOK(t) /\ t.templates = inside
               /\ inside > 0 => SameForm(t, s)
               /\ inside = 0 => \E r: /\ DOMAIN r = Parts /\ CaptureOK(r) /\ SameForm(r, s)
                                      /\ r.templates = s.templates
                                      /\ SameForm(t, Opened(r, tag))
<1> DEFINE nests   == tag.name = "template" /\ ~tag.closed
           inside  == [s EXCEPT !.templates = @ + IF nests THEN 1 ELSE 0]
           deepens == inside.capture.tag = tag.name /\ ~tag.closed
           entered == [inside EXCEPT !.capture.depth = @ + IF deepens THEN 1 ELSE 0]
<1>1. /\ DOMAIN inside = Parts /\ CaptureOK(inside) /\ SameForm(inside, s)
      /\ inside.templates = s.templates + IF nests THEN 1 ELSE 0
  BY DEF Parts, SameForm, CaptureOK
<1>2. Start(s, tag) = IF inside.templates > 0 THEN inside ELSE Marked(Opened(entered, tag), tag)
  BY DEF Start
<1>3. CASE inside.templates > 0
  <2> HIDE DEF inside
  <2> QED
    BY <1>1, <1>2, <1>3
<1>4. CASE ~(inside.templates > 0)
  <2>0. inside.templates = 0 /\ s.templates = 0
    <3> HIDE DEF inside
    <3> QED
      BY <1>1, <1>4
  <2>1. /\ DOMAIN entered = Parts /\ CaptureOK(entered)
        /\ SameForm(entered, inside) /\ entered.templates = inside.templates
    <3> HIDE DEF inside
    <3> QED
      BY <1>1 DEF Parts, SameForm, CaptureOK
  <2> HIDE DEF entered, inside
  <2>2. SameForm(entered, s) /\ entered.templates = 0
    BY <1>1, <2>0, <2>1 DEF SameForm
  <2>3. LET t == Opened(entered, tag) IN DOMAIN t = Parts /\ CaptureOK(t) /\ t.templates = 0
    BY <2>1, <2>2, OpenedAdds DEF SameForm
  <2>4. LET t == Marked(Opened(entered, tag), tag)
        IN  /\ DOMAIN t = Parts /\ CaptureOK(t) /\ t.templates = 0
            /\ SameForm(t, Opened(entered, tag))
    BY <2>3, MarkedLeaves DEF SameForm
  <2> QED
    BY <1>1, <1>2, <1>4, <2>0, <2>1, <2>2, <2>4
<1> QED
  BY <1>3, <1>4

\* Closed notes a text, and nothing of the form.
LEMMA ClosedLeaves ==
    ASSUME NEW s, DOMAIN s = Parts, s.capture.target \in Targets
    PROVE  LET t == Closed(s)
           IN  /\ DOMAIN t = Parts /\ CaptureOK(t) /\ SameForm(t, s)
               /\ t.templates = s.templates
<1> DEFINE done == [s EXCEPT !.capture = NoCapture]
           text == Visible(s.capture.text)
<1>1. /\ DOMAIN done = Parts /\ CaptureOK(done) /\ SameForm(done, s)
      /\ done.templates = s.templates
  BY DEF Parts, SameForm, CaptureOK, NoCapture
<1>2. \/ Closed(s) = done
      \/ \E label: Closed(s) = [done EXCEPT !.labels = label]
      \/ \E tiles: Closed(s) = [done EXCEPT !.tiles = tiles]
      \/ \E errors: Closed(s) = [done EXCEPT !.errors = errors]
  <2>1. CASE s.capture.target = "label"
    <3>1. Closed(s) = [done EXCEPT !.labels = Append(@, [for |-> s.capture.ref, text |-> text])]
      BY <2>1 DEF Closed
    <3> QED
      BY <3>1
  <2>2. CASE s.capture.target = "tile"
    <3>1. Closed(s) = [done EXCEPT !.tiles[s.capture.ref].text = text]
      BY <2>2 DEF Closed
    <3> QED
      BY <3>1
  <2>3. CASE s.capture.target = "error"
    <3>1. Closed(s) = IF text = <<>> THEN done ELSE [done EXCEPT !.errors = Append(@, text)]
      BY <2>3 DEF Closed
    <3> QED
      BY <3>1
  <2> QED
    BY <2>1, <2>2, <2>3 DEF Targets
<1> HIDE DEF done
<1> QED
  BY <1>1, <1>2 DEF Parts, SameForm, CaptureOK

\* An end tag leaves a template, or the form, or a capture.
LEMMA EndLeaves ==
    ASSUME NEW s, NEW name, DOMAIN s = Parts, CaptureOK(s), s.inForm \in BOOLEAN,
           s.templates \in Nat, name # Absent
    PROVE  LET t == End(s, name)
           IN  /\ DOMAIN t = Parts /\ CaptureOK(t)
               /\ t.templates = IF name = "template" /\ s.templates > 0
                                THEN s.templates - 1 ELSE s.templates
               /\ t.forms = s.forms /\ t.suspicious = s.suspicious /\ t.controls = s.controls
               /\ t.inForm \in BOOLEAN
               /\ t.inForm <=> s.inForm /\ (s.templates > 0 \/ name # "form")
<1>1. CASE s.templates > 0
  <2>1. End(s, name) = [s EXCEPT !.templates = @ - IF name = "template" THEN 1 ELSE 0]
    BY <1>1 DEF End
  <2>2. LET t == End(s, name)
        IN  /\ DOMAIN t = Parts /\ CaptureOK(t) /\ SameForm(t, s)
            /\ t.templates = s.templates - IF name = "template" THEN 1 ELSE 0
    BY <2>1 DEF Parts, CaptureOK, SameForm
  <2>3. IF name = "template" /\ s.templates > 0
        THEN End(s, name).templates = s.templates - 1 ELSE End(s, name).templates = s.templates
    <3>1. CASE name = "template"
      BY <1>1, <2>2, <3>1
    <3>2. CASE name # "template"
      <4>1. End(s, name).templates = s.templates - 0
        BY <2>2, <3>2
      <4>2. \A m \in Nat: m - 0 = m
        OBVIOUS
      <4>3. End(s, name).templates = s.templates
        BY <4>1, <4>2
      <4> QED
        BY <3>2, <4>3
    <3> QED
      BY <3>1, <3>2
  <2>4. /\ End(s, name).inForm \in BOOLEAN
        /\ End(s, name).inForm <=> s.inForm /\ (s.templates > 0 \/ name # "form")
    BY <1>1, <2>2 DEF SameForm
  <2> QED
    BY <2>2, <2>3, <2>4 DEF SameForm
<1>2. CASE ~(s.templates > 0)
  <2> DEFINE left == [s EXCEPT !.inForm = @ /\ name # "form"]
  <2>1. /\ DOMAIN left = Parts /\ CaptureOK(left) /\ left.templates = s.templates
        /\ left.forms = s.forms /\ left.suspicious = s.suspicious /\ left.controls = s.controls
        /\ left.inForm \in BOOLEAN /\ (left.inForm <=> s.inForm /\ name # "form")
    BY DEF Parts, CaptureOK
  <2>2. End(s, name) = IF left.capture.tag # name THEN left
                       ELSE IF left.capture.depth > 1 THEN [left EXCEPT !.capture.depth = @ - 1]
                       ELSE Closed(left)
    BY <1>2 DEF End
  <2> HIDE DEF left
  <2>3. LET t == [left EXCEPT !.capture.depth = @ - 1]
        IN  /\ DOMAIN t = Parts /\ CaptureOK(t) /\ SameForm(t, left)
            /\ t.templates = left.templates
    BY <2>1 DEF Parts, CaptureOK, SameForm
  <2>4. ASSUME left.capture.tag = name
        PROVE  LET t == Closed(left)
               IN  /\ DOMAIN t = Parts /\ CaptureOK(t) /\ SameForm(t, left)
                   /\ t.templates = left.templates
    <3>1. left.capture.target \in Targets
      BY <2>1, <2>4 DEF CaptureOK
    <3> QED
      BY <2>1, <3>1, ClosedLeaves
  <2>5. LET t == End(s, name)
        IN  /\ DOMAIN t = Parts /\ CaptureOK(t) /\ SameForm(t, left)
            /\ t.templates = left.templates
    BY <2>1, <2>2, <2>3, <2>4 DEF SameForm
  <2> QED
    BY <1>2, <2>1, <2>5 DEF SameForm
<1> QED
  BY <1>1, <1>2

\* A text is collected, and nothing else.
LEMMA TextLeaves ==
    ASSUME NEW s, NEW piece, DOMAIN s = Parts, CaptureOK(s)
    PROVE  LET t == Text(s, piece)
           IN  /\ DOMAIN t = Parts /\ CaptureOK(t) /\ SameForm(t, s)
               /\ t.templates = s.templates
BY DEF Text, Parts, CaptureOK, SameForm

-----------------------------------------------------------------------------
(* The page one token further *)

\* Whether the token after the first n is live.
LEMMA NextLive ==
    ASSUME PageShape, NEW n \in 0..(Len(page) - 1)
    PROVE  /\ n + 1 \in DOMAIN page /\ n + 1 \in 1..Len(page)
           /\ n + 1 \in Live <=> OpenTemplates[n] = 0 /\ OpenTemplates[n + 1] = 0
           /\ Live \subseteq 1..Len(page)
<1>1. n + 1 \in DOMAIN page /\ n + 1 \in 1..Len(page) /\ (n + 1) - 1 = n
  BY DEF PageShape
<1> QED
  BY <1>1 DEF Live, PageShape

\* The controls are among the page's tokens.
LEMMA ControlsAreTokens ==
    ASSUME PageShape
    PROVE  Controls(Live) \subseteq 1..Len(page) /\ Controls(Live) \subseteq Nat
<1>1. Controls(Live) \subseteq Live /\ Live \subseteq DOMAIN page
  BY DEF Controls, Live
<1> QED
  BY <1>1 DEF PageShape

\* A live token opens the form, closes it, or leaves it as it is; another leaves it.
LEMMA NextInForm ==
    ASSUME PageShape, NEW n \in 0..(Len(page) - 1)
    PROVE  InForm(n + 2, Live) <=>
               \/ n + 1 \in Live /\ Starts(n + 1, "form")
               \/ InForm(n + 1, Live) /\ ~(n + 1 \in Live /\ Ends(n + 1, "form"))
<1>1. Live \subseteq Nat
  BY NextLive DEF PageShape
<1>2. Starts(n + 1, "form") => ~Ends(n + 1, "form")
  BY DEF Starts, Ends
<1>3. ASSUME n + 1 \in Live, Starts(n + 1, "form") PROVE InForm(n + 2, Live)
  BY <1>1, <1>3 DEF InForm
<1>4. ASSUME InForm(n + 1, Live), ~(n + 1 \in Live /\ Ends(n + 1, "form"))
      PROVE  InForm(n + 2, Live)
  BY <1>1, <1>4 DEF InForm
<1>5. ASSUME InForm(n + 2, Live), ~(n + 1 \in Live /\ Starts(n + 1, "form"))
      PROVE  InForm(n + 1, Live) /\ ~(n + 1 \in Live /\ Ends(n + 1, "form"))
  <2>1. PICK j \in Live: /\ j < n + 2 /\ Starts(j, "form")
                         /\ \A k \in Live: j < k /\ k < n + 2 => ~Ends(k, "form")
    BY <1>5 DEF InForm
  <2>2. j \in Nat /\ j < n + 1
    BY <1>1, <1>5, <2>1
  <2> QED
    BY <1>1, <2>1, <2>2 DEF InForm
<1> QED
  BY <1>3, <1>4, <1>5

\* The next token is one more form, or the forms are those so far.
LEMMA NextForms ==
    ASSUME PageShape, NEW n \in 0..(Len(page) - 1)
    PROVE  /\ IsFiniteSet(FormsUpTo(n)) /\ n + 1 \notin FormsUpTo(n)
           /\ FormsUpTo(n + 1) = IF n + 1 \in Live /\ Starts(n + 1, "form")
                                 THEN FormsUpTo(n) \cup {n + 1} ELSE FormsUpTo(n)
<1>1. Live \subseteq 1..Len(page) /\ Len(page) \in Nat /\ n \in Nat
  BY NextLive DEF PageShape
<1>2. IsFiniteSet(1..Len(page))
  BY <1>1, FS_Interval
<1>3. IsFiniteSet(FormsUpTo(n))
  <2>1. FormsUpTo(n) \subseteq 1..Len(page)
    BY <1>1 DEF FormsUpTo
  <2> QED
    BY <1>2, <2>1, FS_Subset
<1>4. n + 1 \notin FormsUpTo(n)
  BY DEF FormsUpTo
<1>5. \A i: i \in FormsUpTo(n + 1) <=>
               i \in FormsUpTo(n) \/ (i = n + 1 /\ n + 1 \in Live /\ Starts(n + 1, "form"))
  <2>1. \A i \in Live: i <= n + 1 <=> i <= n \/ i = n + 1
    BY <1>1
  <2> QED
    BY <2>1 DEF FormsUpTo
<1>6. FormsUpTo(n + 1) = IF n + 1 \in Live /\ Starts(n + 1, "form")
                         THEN FormsUpTo(n) \cup {n + 1} ELSE FormsUpTo(n)
  BY <1>5
<1> QED
  BY <1>3, <1>4, <1>6

\* The next token is one more named control, or these are those so far.
LEMMA NextNamed ==
    ASSUME PageShape, NEW n \in 0..(Len(page) - 1)
    PROVE  /\ n + 1 \notin NamedUpTo(n) /\ NamedUpTo(n) \subseteq 1..n
           /\ NamedUpTo(n + 1) = IF n + 1 \in Controls(Live) /\ page[n + 1].field # Absent
                                 THEN NamedUpTo(n) \cup {n + 1} ELSE NamedUpTo(n)
<1>1. Controls(Live) \subseteq 1..Len(page) /\ Len(page) \in Nat /\ n \in Nat
  BY NextLive DEF PageShape, Controls
<1>2. \A i: i \in NamedUpTo(n + 1) <=>
               \/ i \in NamedUpTo(n)
               \/ i = n + 1 /\ n + 1 \in Controls(Live) /\ page[n + 1].field # Absent
  <2>1. \A i \in Controls(Live): i <= n + 1 <=> i <= n \/ i = n + 1
    BY <1>1
  <2> QED
    BY <2>1 DEF NamedUpTo
<1>3. ASSUME NEW i \in NamedUpTo(n) PROVE i \in 1..n
  <2>1. i \in Controls(Live) /\ i <= n
    BY DEF NamedUpTo
  <2> QED
    BY <1>1, <2>1
<1>4. n + 1 \notin 1..n
  BY <1>1
<1>5. NamedUpTo(n + 1) = IF n + 1 \in Controls(Live) /\ page[n + 1].field # Absent
                         THEN NamedUpTo(n) \cup {n + 1} ELSE NamedUpTo(n)
  BY <1>2
<1> QED
  BY <1>3, <1>4, <1>5

-----------------------------------------------------------------------------
(* Sifted sequences *)

\* What Append leaves of a sequence.
LEMMA Appended ==
    ASSUME NEW S, NEW q \in Seq(S), NEW e \in S
    PROVE  /\ Len(q) \in Nat /\ DOMAIN q = 1..Len(q) /\ Append(q, e) \in Seq(S)
           /\ DOMAIN Append(q, e) = 1..(Len(q) + 1) /\ Append(q, e)[Len(q) + 1] = e
           /\ \A k \in DOMAIN q: Append(q, e)[k] = q[k]
OBVIOUS

\* Sifted follows its recursion to the end of the sequence.
LEMMA SiftedCounted ==
    ASSUME NEW S, NEW q \in Seq(S), NEW P \in SUBSET (DOMAIN q)
    PROVE  \E f \in [0..Len(q) -> Seq(S)]:
               /\ Sifted(q, P) = f[Len(q)] /\ f[0] = <<>>
               /\ \A n \in 1..Len(q):
                      f[n] = IF n \in P THEN Append(f[n - 1], q[n]) ELSE f[n - 1]
<1> DEFINE next(f, n) == IF n = 0 THEN <<>>
                         ELSE IF n \in P THEN Append(f[n - 1], q[n]) ELSE f[n - 1]
           counts(f, n) == f \in [0..n -> Seq(S)] /\ \A i \in 0..n: f[i] = next(f, i)
           bad == {n \in 0..Len(q): ~\E f: counts(f, n)}
           kept == CHOOSE f: f = [n \in 0..Len(q) |-> next(f, n)]
<1>0. Len(q) \in Nat /\ DOMAIN q = 1..Len(q) /\ \A n \in 1..Len(q): q[n] \in S
  OBVIOUS
<1>1. ASSUME NEW n \in bad, \A k \in bad: n <= k PROVE FALSE
  <2>1. CASE n = 0
    <3>1. counts([i \in 0..0 |-> <<>>], 0)
      OBVIOUS
    <3> QED
      BY <2>1, <3>1
  <2>2. CASE n # 0
    <3>0. n \in 1..Len(q) /\ n \in Nat /\ n - 1 \in 0..Len(q)
      BY <1>0, <1>1, <2>2
    <3>1. n - 1 \notin bad
      <4> HIDE DEF bad
      <4> QED
        BY <1>1, <3>0
    <3>2. PICK f: counts(f, n - 1)
      BY <3>0, <3>1
    <3> DEFINE g == [i \in 0..n |-> IF i = n THEN next(f, n) ELSE f[i]]
    <3>3. f[n - 1] \in Seq(S) /\ next(f, n) \in Seq(S)
      BY <1>0, <3>0, <3>2
    <3>4. g \in [0..n -> Seq(S)]
      <4> HIDE DEF next
      <4>1. \A i \in 0..n: i # n => i \in 0..(n - 1)
        BY <3>0
      <4>2. f \in [0..(n - 1) -> Seq(S)]
        BY <3>2
      <4>3. \A i \in 0..n: i # n => f[i] \in Seq(S)
        BY <4>1, <4>2
      <4> QED
        BY <3>3, <4>3
    <3>5. ASSUME NEW i \in 0..n PROVE g[i] = next(g, i)
      <4>1. i # 0 => g[i - 1] = f[i - 1]
        BY <3>0
      <4>2. next(g, i) = next(f, i)
        BY <4>1
      <4>3. i # n => i \in 0..(n - 1)
        BY <3>0
      <4>4. i # n => f[i] = next(f, i)
        BY <3>2, <4>3
      <4>5. g[i] = IF i = n THEN next(f, n) ELSE f[i]
        OBVIOUS
      <4>6. g[i] = next(f, i)
        <5> HIDE DEF next, g
        <5> QED
          BY <4>4, <4>5
      <4> QED
        BY <4>2, <4>6
    <3> QED
      BY <3>4, <3>5
  <2> QED
    BY <2>1, <2>2
<1>2. bad = {}
  <2>1. bad \in SUBSET Nat
    BY <1>0
  <2> HIDE DEF bad
  <2> QED
    BY <1>1, <2>1, LeastOfAll
<1>3. PICK f: counts(f, Len(q))
  <2>1. Len(q) \in 0..Len(q)
    BY <1>0
  <2>2. \E f: counts(f, Len(q))
    <3> HIDE DEF counts
    <3> QED
      BY <1>2, <2>1
  <2> QED
    BY <2>2
<1>4. f = [n \in 0..Len(q) |-> next(f, n)]
  BY <1>3
<1>5. kept = [n \in 0..Len(q) |-> next(kept, n)]
  BY <1>4
<1>6. Sifted(q, P) = kept[Len(q)]
  BY DEF Sifted
<1> HIDE DEF kept
<1>7. \A n \in 0..Len(q): kept[n] = next(kept, n)
  BY <1>5
<1>8. kept \in [0..Len(q) -> Seq(S)]
  <2> DEFINE wrong == {n \in 0..Len(q): kept[n] \notin Seq(S)}
  <2>1. ASSUME NEW n \in wrong, \A k \in wrong: n <= k PROVE FALSE
    <3>1. n # 0 => n \in 1..Len(q) /\ n - 1 \in 0..Len(q) /\ n - 1 \notin wrong
      BY <1>0, <2>1
    <3>2. n # 0 => kept[n - 1] \in Seq(S) /\ q[n] \in S
      BY <1>0, <3>1
    <3>3. kept[n] = next(kept, n)
      BY <1>7
    <3>4. next(kept, n) \in Seq(S)
      BY <3>2
    <3> QED
      BY <3>3, <3>4
  <2>2. wrong = {}
    <3>1. wrong \in SUBSET Nat
      BY <1>0
    <3> HIDE DEF wrong
    <3> QED
      BY <2>1, <3>1, LeastOfAll
  <2>3. \A n \in 0..Len(q): kept[n] \in Seq(S)
    BY <2>2
  <2>4. kept = [n \in 0..Len(q) |-> kept[n]]
    <3> DEFINE F == [n \in 0..Len(q) |-> next(kept, n)]
    <3>1. F = [n \in 0..Len(q) |-> F[n]]
      OBVIOUS
    <3>2. kept = F
      BY <1>5
    <3> QED
      BY <3>1, <3>2
  <2> QED
    BY <2>3, <2>4
<1>9. kept[0] = <<>>
  BY <1>0, <1>7
<1>10. \A n \in 1..Len(q): kept[n] = IF n \in P THEN Append(kept[n - 1], q[n]) ELSE kept[n - 1]
  BY <1>0, <1>7
<1> QED
  BY <1>6, <1>8, <1>9, <1>10

\* What Sifted keeps: as many elements as there are places, and those at the places.
LEMMA SiftedElements ==
    ASSUME NEW S, NEW q \in Seq(S), NEW P \in SUBSET (DOMAIN q)
    PROVE  /\ Sifted(q, P) \in Seq(S)
           /\ IsFiniteSet(P) /\ Len(Sifted(q, P)) = Cardinality(P)
           /\ \A i \in P: \E k \in DOMAIN Sifted(q, P): Sifted(q, P)[k] = q[i]
           /\ \A k \in DOMAIN Sifted(q, P): \E i \in P: Sifted(q, P)[k] = q[i]
<1>0. Len(q) \in Nat /\ DOMAIN q = 1..Len(q) /\ \A n \in 1..Len(q): q[n] \in S
  OBVIOUS
<1>1. PICK f \in [0..Len(q) -> Seq(S)]:
          /\ Sifted(q, P) = f[Len(q)] /\ f[0] = <<>>
          /\ \A n \in 1..Len(q): f[n] = IF n \in P THEN Append(f[n - 1], q[n]) ELSE f[n - 1]
  BY SiftedCounted
<1> DEFINE upTo(n) == {i \in P: i <= n}
           good(n) == /\ IsFiniteSet(upTo(n)) /\ Len(f[n]) = Cardinality(upTo(n))
                      /\ \A i \in upTo(n): \E k \in DOMAIN f[n]: f[n][k] = q[i]
                      /\ \A k \in DOMAIN f[n]: \E i \in upTo(n): f[n][k] = q[i]
           bad == {n \in 0..Len(q): ~good(n)}
<1>2. ASSUME NEW n \in bad, \A k \in bad: n <= k PROVE FALSE
  <2>1. CASE n = 0
    <3>1. upTo(0) = {}
      BY <1>0
    <3>2. IsFiniteSet({}) /\ Cardinality({}) = 0
      BY FS_EmptySet
    <3>3. DOMAIN f[0] = {} /\ Len(f[0]) = 0
      BY <1>1
    <3> HIDE DEF upTo
    <3>4. good(0)
      BY <3>1, <3>2, <3>3
    <3> QED
      BY <1>2, <2>1, <3>4
  <2>2. CASE n # 0
    <3>0. n \in 1..Len(q) /\ n \in Nat /\ n - 1 \in 0..Len(q)
      BY <1>0, <1>2, <2>2
    <3>1. n - 1 \notin bad
      <4> HIDE DEF bad
      <4> QED
        BY <1>2, <3>0
    <3>2. good(n - 1)
      BY <3>0, <3>1
    <3>3. f[n - 1] \in Seq(S)
      BY <1>1, <3>0
    <3>4. CASE n \in P
      <4>1. f[n] = Append(f[n - 1], q[n]) /\ q[n] \in S
        BY <1>0, <1>1, <3>0, <3>4
      <4>2. upTo(n) = upTo(n - 1) \cup {n} /\ n \notin upTo(n - 1)
        BY <1>0, <3>0, <3>4
      <4> HIDE DEF upTo
      <4>3. IsFiniteSet(upTo(n)) /\ Cardinality(upTo(n)) = Cardinality(upTo(n - 1)) + 1
        <5>1. IsFiniteSet(upTo(n - 1))
          BY <3>2
        <5> HIDE DEF bad, good
        <5> QED
          BY <4>2, <5>1, FS_AddElement
      <4>4. /\ Len(f[n - 1]) \in Nat /\ DOMAIN f[n - 1] = 1..Len(f[n - 1])
            /\ DOMAIN f[n] = 1..(Len(f[n - 1]) + 1) /\ f[n][Len(f[n - 1]) + 1] = q[n]
            /\ \A k \in DOMAIN f[n - 1]: f[n][k] = f[n - 1][k]
            /\ f[n] \in Seq(S)
        BY <3>3, <4>1, Appended
      <4>5. Len(f[n]) = Len(f[n - 1]) + 1
        BY <3>3, <4>1
      <4>6. /\ Len(f[n - 1]) + 1 \in DOMAIN f[n]
            /\ \A k \in DOMAIN f[n - 1]: k \in DOMAIN f[n]
            /\ \A k \in DOMAIN f[n]: k = Len(f[n - 1]) + 1 \/ k \in DOMAIN f[n - 1]
        BY <4>4
      <4>7. Len(f[n]) = Cardinality(upTo(n))
        BY <3>2, <4>3, <4>5
      <4>8. ASSUME NEW i \in upTo(n) PROVE \E k \in DOMAIN f[n]: f[n][k] = q[i]
        <5>1. CASE i = n
          BY <4>4, <4>6, <5>1
        <5>2. CASE i \in upTo(n - 1)
          BY <3>2, <4>4, <4>6, <5>2
        <5> QED
          BY <4>2, <5>1, <5>2
      <4>9. ASSUME NEW k \in DOMAIN f[n] PROVE \E i \in upTo(n): f[n][k] = q[i]
        <5>1. CASE k = Len(f[n - 1]) + 1
          BY <4>2, <4>4, <5>1
        <5>2. CASE k \in DOMAIN f[n - 1]
          BY <3>2, <4>2, <4>4, <5>2
        <5> QED
          BY <4>6, <5>1, <5>2
      <4>10. good(n)
        BY <4>3, <4>7, <4>8, <4>9
      <4> QED
        BY <1>2, <4>10
    <3>5. CASE n \notin P
      <4>1. f[n] = f[n - 1]
        BY <1>1, <3>0, <3>5
      <4>2. upTo(n) = upTo(n - 1)
        BY <1>0, <3>0, <3>5
      <4> HIDE DEF upTo
      <4>3. good(n)
        BY <3>2, <4>1, <4>2
      <4> QED
        BY <1>2, <4>3
    <3> QED
      BY <3>4, <3>5
  <2> QED
    BY <2>1, <2>2
<1>3. bad = {}
  <2>1. bad \in SUBSET Nat
    BY <1>0
  <2> HIDE DEF bad
  <2> QED
    BY <1>2, <2>1, LeastOfAll
<1>4. good(Len(q))
  <2> HIDE DEF good
  <2> QED
    BY <1>0, <1>3
<1>5. upTo(Len(q)) = P
  BY <1>0
<1>6. f[Len(q)] \in Seq(S)
  BY <1>0, <1>1
<1> HIDE DEF upTo
<1> QED
  BY <1>1, <1>4, <1>5, <1>6

-----------------------------------------------------------------------------
(* A scan one token further *)

\* A control that is noted is found, in its order.
LEMMA FindsNext ==
    ASSUME PageShape, NEW n \in 0..(Len(page) - 1), NEW g, NEW controls,
           controls \in Seq(AllNoted), Finds(g, controls, n),
           n + 1 \in Controls(Live), page[n + 1].field # Absent
    PROVE  \E f: Finds(f, Append(controls, Noted(n + 1)), n + 1)
<1> DEFINE next == Append(controls, Noted(n + 1))
           last == Len(controls) + 1
           f    == [k \in 1..last |-> IF k = last THEN n + 1 ELSE g[k]]
<1>1. /\ Len(controls) \in Nat /\ DOMAIN controls = 1..Len(controls)
      /\ DOMAIN next = 1..last /\ next[last] = Noted(n + 1)
      /\ \A k \in DOMAIN controls: next[k] = controls[k]
  <2>1. Noted(n + 1) \in AllNoted
    BY NextLive DEF AllNoted
  <2> QED
    BY <2>1, Appended
<1>2. NamedUpTo(n + 1) = NamedUpTo(n) \cup {n + 1} /\ NamedUpTo(n) \subseteq 1..n
  BY NextNamed
<1>3. n \in Nat
  BY DEF PageShape
<1> HIDE DEF next
<1>4. /\ g \in [DOMAIN controls -> NamedUpTo(n)]
      /\ \A i \in NamedUpTo(n): \E k \in DOMAIN controls: g[k] = i
      /\ \A k, l \in DOMAIN controls: k < l => g[k] < g[l]
      /\ \A k \in DOMAIN controls: controls[k] = Noted(g[k])
  BY DEF Finds
<1>5. \A k \in DOMAIN controls: k \in 1..last /\ f[k] = g[k] /\ f[k] \in 1..n
  BY <1>1, <1>2, <1>4
<1>6. last \in 1..last /\ f[last] = n + 1
  BY <1>1
<1>7. \A k \in 1..last: k = last \/ k \in DOMAIN controls
  BY <1>1
<1>8. f \in [1..last -> NamedUpTo(n + 1)]
  BY <1>2, <1>4, <1>5, <1>6, <1>7
<1>9. \A i \in NamedUpTo(n + 1): \E k \in 1..last: f[k] = i
  BY <1>2, <1>4, <1>5, <1>6
<1>10. ASSUME NEW k \in 1..last, NEW l \in 1..last, k < l PROVE f[k] < f[l]
  <2>1. k \in DOMAIN controls
    BY <1>1, <1>7, <1>10
  <2>2. CASE l = last
    <3>1. f[k] \in 1..n /\ f[l] = n + 1
      BY <1>5, <1>6, <2>1, <2>2
    <3> HIDE DEF f
    <3> QED
      BY <1>3, <3>1
  <2>3. CASE l # last
    BY <1>4, <1>5, <1>7, <1>10, <2>1, <2>3
  <2> QED
    BY <2>2, <2>3
<1>11. \A k \in 1..last: next[k] = Noted(f[k])
  BY <1>1, <1>4, <1>5, <1>6, <1>7
<1>12. Finds(f, next, n + 1)
  <2> HIDE DEF f
  <2> QED
    BY <1>1, <1>8, <1>9, <1>10, <1>11 DEF Finds
<1> QED
  BY <1>12 DEF next

\* Where no control is added, those found are as before.
LEMMA FindsSame ==
    ASSUME PageShape, NEW n \in 0..(Len(page) - 1), NEW g, NEW controls, Finds(g, controls, n),
           ~(n + 1 \in Controls(Live) /\ page[n + 1].field # Absent)
    PROVE  Finds(g, controls, n + 1)
<1>1. NamedUpTo(n + 1) = NamedUpTo(n)
  BY NextNamed
<1> QED
  BY <1>1 DEF Finds

\* A token that opens no form, closes none and is no control leaves a scan as it should be.
LEMMA NothingAdded ==
    ASSUME PageShape, NEW n \in 0..(Len(page) - 1), NEW s, NEW t, ScanOK(s, n),
           DOMAIN t = Parts, CaptureOK(t), SameForm(t, s), t.templates = OpenTemplates[n + 1],
           n + 1 \in Live => ~Starts(n + 1, "form") /\ ~Ends(n + 1, "form"),
           n + 1 \notin Controls(Live)
    PROVE  ScanOK(t, n + 1)
<1>0. n \in Nat /\ (n + 1) + 1 = n + 2
  BY DEF PageShape
<1>1. InForm(n + 2, Live) <=> InForm(n + 1, Live)
  BY NextInForm
<1>2. FormsUpTo(n + 1) = FormsUpTo(n)
  BY NextForms
<1>3. \A i \in Controls(Live): i <= n + 1 => i <= n
  BY <1>0, ControlsAreTokens
<1>4. \A g: Finds(g, s.controls, n) => Finds(g, t.controls, n + 1)
  BY FindsSame DEF SameForm
<1>5. /\ t.forms \in Nat /\ t.inForm \in BOOLEAN /\ t.suspicious \in BOOLEAN
      /\ t.controls \in Seq(AllNoted)
      /\ t.inForm <=> InForm((n + 1) + 1, Live)
  BY <1>0, <1>1 DEF ScanOK, SameForm
<1>6. ASSUME ~t.suspicious
      PROVE  /\ t.forms = Cardinality(FormsUpTo(n + 1))
             /\ \A i \in Controls(Live):
                    i <= n + 1 => ~page[i].away /\ (page[i].field # Absent => InForm(i, Live))
             /\ \E g: Finds(g, t.controls, n + 1)
  <2>1. /\ s.forms = Cardinality(FormsUpTo(n))
        /\ \A i \in Controls(Live):
               i <= n => ~page[i].away /\ (page[i].field # Absent => InForm(i, Live))
        /\ \E g: Finds(g, s.controls, n)
    BY <1>6 DEF ScanOK, SameForm
  <2>2. t.forms = Cardinality(FormsUpTo(n + 1))
    BY <1>2, <2>1 DEF SameForm
  <2>3. \A i \in Controls(Live):
            i <= n + 1 => ~page[i].away /\ (page[i].field # Absent => InForm(i, Live))
    BY <1>3, <2>1
  <2> QED
    BY <1>4, <2>1, <2>2, <2>3
<1> QED
  BY <1>5, <1>6 DEF ScanOK

\* A start tag.
LEMMA StartScanned ==
    ASSUME PageShape, NEW n \in 0..(Len(page) - 1), NEW s, ScanOK(s, n),
           page[n + 1].token = "start"
    PROVE  ScanOK(Start(s, page[n + 1]), n + 1)
<1> DEFINE tag    == page[n + 1]
           t      == Start(s, tag)
           inside == s.templates + IF tag.name = "template" /\ ~tag.closed THEN 1 ELSE 0
<1>1. n \in Nat /\ n + 1 \in 1..Len(page) /\ (n + 1) - 1 = n /\ (n + 1) + 1 = n + 2
  BY DEF PageShape
<1>2. OpenTemplates[n] \in Nat /\ s.templates = OpenTemplates[n]
  BY <1>1, TemplatesCounted DEF PageShape, ScanOK
<1>3. OpenTemplates[n + 1] = inside
  <2>1. ~Ends(n + 1, "template")
    BY DEF Ends
  <2>2. Opens(n + 1, "template") <=> tag.name = "template" /\ ~tag.closed
    BY DEF Opens, Starts
  <2> QED
    BY <1>1, <1>2, <2>1, <2>2, TemplatesCounted DEF PageShape
<1>4. tag.away \in BOOLEAN /\ tag.closed \in BOOLEAN
  BY <1>1 DEF PageShape
<1>5. /\ DOMAIN s = Parts /\ CaptureOK(s) /\ s.inForm \in BOOLEAN /\ s.suspicious \in BOOLEAN
      /\ s.forms \in Nat /\ s.controls \in Seq(AllNoted) /\ (s.inForm <=> InForm(n + 1, Live))
  BY DEF ScanOK
<1>6. /\ DOMAIN t = Parts /\ CaptureOK(t) /\ t.templates = inside
      /\ inside > 0 => SameForm(t, s)
      /\ inside = 0 => \E r: /\ DOMAIN r = Parts /\ CaptureOK(r) /\ SameForm(r, s)
                             /\ r.templates = s.templates /\ SameForm(t, Opened(r, tag))
  BY <1>2, <1>4, <1>5, StartAdds
<1>7. CASE inside > 0
  <2>1. n + 1 \notin Live
    <3>1. OpenTemplates[n + 1] > 0
      BY <1>3, <1>7
    <3> QED
      BY <3>1, NextLive
  <2>2. n + 1 \notin Controls(Live)
    BY <2>1 DEF Controls
  <2> HIDE DEF t, inside
  <2>3. ScanOK(t, n + 1)
    BY <1>3, <1>6, <1>7, <2>1, <2>2, NothingAdded
  <2> QED
    BY <2>3 DEF t
<1>8. CASE ~(inside > 0)
  <2>1. inside = 0 /\ s.templates = 0
    BY <1>2, <1>8
  <2>2. n + 1 \in Live
    BY <1>2, <1>3, <2>1, NextLive
  <2>3. n + 1 \in Controls(Live) <=> IsControl(tag)
    BY <2>2 DEF Controls, IsControl
  <2>4. Starts(n + 1, "form") <=> tag.name = "form"
    BY DEF Starts
  <2>5. ~Ends(n + 1, "form")
    BY DEF Ends
  <2> HIDE DEF inside
  <2>6. PICK r: /\ DOMAIN r = Parts /\ CaptureOK(r) /\ SameForm(r, s)
                /\ r.templates = s.templates /\ SameForm(t, Opened(r, tag))
    BY <1>6, <2>1
  <2> HIDE DEF t
  <2>7. LET u == Opened(r, tag)
        IN  /\ u.inForm \in BOOLEAN /\ u.suspicious \in BOOLEAN
            /\ u.inForm <=> r.inForm \/ tag.name = "form"
            /\ u.forms = IF tag.name = "form" /\ ~r.inForm THEN r.forms + 1 ELSE r.forms
            /\ u.suspicious <=>
                   \/ r.suspicious \/ (tag.name = "form" /\ r.inForm)
                   \/ IsControl(tag) /\ (tag.away \/ (tag.field # Absent /\ ~r.inForm))
            /\ u.controls =
                   IF IsControl(tag) /\ tag.field # Absent /\ r.inForm
                   THEN Append(r.controls, Noted(n + 1)) ELSE r.controls
    BY <1>4, <1>5, <2>6, OpenedAdds DEF SameForm, Noted
  <2>8. /\ t.inForm \in BOOLEAN /\ t.suspicious \in BOOLEAN
        /\ t.inForm <=> s.inForm \/ tag.name = "form"
        /\ t.forms = IF tag.name = "form" /\ ~s.inForm THEN s.forms + 1 ELSE s.forms
        /\ t.suspicious <=>
               \/ s.suspicious \/ (tag.name = "form" /\ s.inForm)
               \/ IsControl(tag) /\ (tag.away \/ (tag.field # Absent /\ ~s.inForm))
        /\ t.controls =
               IF IsControl(tag) /\ tag.field # Absent /\ s.inForm
               THEN Append(s.controls, Noted(n + 1)) ELSE s.controls
    BY <2>6, <2>7 DEF SameForm
  <2>9. t.inForm <=> InForm((n + 1) + 1, Live)
    BY <1>1, <1>5, <2>2, <2>4, <2>5, <2>8, NextInForm
  <2>10. t.forms \in Nat
    BY <1>5, <2>8
  <2>11. t.controls \in Seq(AllNoted)
    <3>1. Noted(n + 1) \in AllNoted
      BY <1>1 DEF AllNoted, PageShape
    <3> QED
      BY <1>5, <2>8, <3>1, Appended
  <2>12. ASSUME ~t.suspicious
         PROVE  /\ t.forms = Cardinality(FormsUpTo(n + 1))
                /\ \A i \in Controls(Live):
                       i <= n + 1 => ~page[i].away /\ (page[i].field # Absent => InForm(i, Live))
                /\ \E g: Finds(g, t.controls, n + 1)
    <3>1. /\ ~s.suspicious /\ ~(tag.name = "form" /\ s.inForm)
          /\ IsControl(tag) => ~tag.away /\ (tag.field # Absent => s.inForm)
      BY <2>8, <2>12
    <3>2. /\ s.forms = Cardinality(FormsUpTo(n))
          /\ \A i \in Controls(Live):
                 i <= n => ~page[i].away /\ (page[i].field # Absent => InForm(i, Live))
          /\ \E g: Finds(g, s.controls, n)
      BY <3>1 DEF ScanOK
    <3>3. t.forms = Cardinality(FormsUpTo(n + 1))
      <4>1. CASE tag.name = "form"
        <5>1. FormsUpTo(n + 1) = FormsUpTo(n) \cup {n + 1} /\ n + 1 \notin FormsUpTo(n)
          BY <2>2, <2>4, <4>1, NextForms
        <5>2. Cardinality(FormsUpTo(n + 1)) = Cardinality(FormsUpTo(n)) + 1
          BY <5>1, NextForms, FS_AddElement
        <5>3. t.forms = s.forms + 1
          BY <2>8, <3>1, <4>1
        <5> QED
          BY <3>2, <5>2, <5>3
      <4>2. CASE tag.name # "form"
        BY <2>4, <2>8, <3>2, <4>2, NextForms
      <4> QED
        BY <4>1, <4>2
    <3>4. ASSUME NEW i \in Controls(Live), i <= n + 1
          PROVE  ~page[i].away /\ (page[i].field # Absent => InForm(i, Live))
      <4>1. CASE i = n + 1
        BY <1>5, <2>3, <3>1, <4>1
      <4>2. CASE i # n + 1
        <5>1. i \in Nat
          BY ControlsAreTokens
        <5>2. i <= n
          BY <1>1, <3>4, <4>2, <5>1
        <5> QED
          BY <3>2, <5>2
      <4> QED
        BY <4>1, <4>2
    <3>5. \E g: Finds(g, t.controls, n + 1)
      <4>1. PICK g: Finds(g, s.controls, n)
        BY <3>2
      <4>2. CASE IsControl(tag) /\ tag.field # Absent
        <5>1. t.controls = Append(s.controls, Noted(n + 1))
          BY <2>8, <3>1, <4>2
        <5>2. \E f: Finds(f, Append(s.controls, Noted(n + 1)), n + 1)
          BY <1>5, <2>3, <4>1, <4>2, FindsNext
        <5> QED
          BY <5>1, <5>2
      <4>3. CASE ~(IsControl(tag) /\ tag.field # Absent)
        <5>1. t.controls = s.controls
          BY <2>8, <4>3
        <5>2. Finds(g, s.controls, n + 1)
          BY <2>3, <4>1, <4>3, FindsSame
        <5> QED
          BY <5>1, <5>2
      <4> QED
        BY <4>2, <4>3
    <3> QED
      BY <3>3, <3>4, <3>5
  <2>13. ScanOK(t, n + 1)
    BY <1>3, <1>6, <2>8, <2>9, <2>10, <2>11, <2>12 DEF ScanOK
  <2> QED
    BY <2>13 DEF t
<1> QED
  BY <1>7, <1>8

\* An end tag.
LEMMA EndScanned ==
    ASSUME PageShape, NEW n \in 0..(Len(page) - 1), NEW s, ScanOK(s, n),
           page[n + 1].token = "end"
    PROVE  ScanOK(End(s, page[n + 1].name), n + 1)
<1> DEFINE name == page[n + 1].name
           t    == End(s, name)
<1>1. n \in Nat /\ n + 1 \in 1..Len(page) /\ (n + 1) - 1 = n /\ (n + 1) + 1 = n + 2
  BY DEF PageShape
<1>2. OpenTemplates[n] \in Nat /\ s.templates = OpenTemplates[n]
  BY <1>1, TemplatesCounted DEF PageShape, ScanOK
<1>3. name # Absent
  BY <1>1 DEF PageShape
<1>4. /\ DOMAIN s = Parts /\ CaptureOK(s) /\ s.inForm \in BOOLEAN /\ s.suspicious \in BOOLEAN
      /\ s.forms \in Nat /\ s.controls \in Seq(AllNoted) /\ (s.inForm <=> InForm(n + 1, Live))
  BY DEF ScanOK
<1>5. /\ DOMAIN t = Parts /\ CaptureOK(t)
      /\ t.templates = IF name = "template" /\ s.templates > 0
                       THEN s.templates - 1 ELSE s.templates
      /\ t.forms = s.forms /\ t.suspicious = s.suspicious /\ t.controls = s.controls
      /\ t.inForm \in BOOLEAN
      /\ t.inForm <=> s.inForm /\ (s.templates > 0 \/ name # "form")
  BY <1>2, <1>3, <1>4, EndLeaves
<1>6. OpenTemplates[n + 1] = t.templates
  <2>1. ~Opens(n + 1, "template")
    BY DEF Opens, Starts
  <2>2. Ends(n + 1, "template") <=> name = "template"
    BY DEF Ends
  <2> HIDE DEF t
  <2> QED
    BY <1>1, <1>2, <1>5, <2>1, <2>2, TemplatesCounted DEF PageShape
<1>7. n + 1 \notin Controls(Live) /\ ~Starts(n + 1, "form")
  BY DEF Controls, Starts
<1>8. Ends(n + 1, "form") <=> name = "form"
  BY DEF Ends
<1>9. name = "form" => (n + 1 \in Live <=> s.templates = 0)
  <2> HIDE DEF t
  <2>1. name = "form" => t.templates = s.templates
    BY <1>5
  <2> QED
    BY <1>2, <1>6, <2>1, NextLive
<1> HIDE DEF t
<1>10. CASE name = "form" /\ s.templates = 0
  <2>1. ~t.inForm /\ ~InForm((n + 1) + 1, Live)
    BY <1>1, <1>2, <1>5, <1>7, <1>8, <1>9, <1>10, NextInForm
  <2>2. FormsUpTo(n + 1) = FormsUpTo(n)
    BY <1>7, NextForms
  <2>3. \A i \in Controls(Live): i <= n + 1 => i <= n
    BY <1>1, <1>7, ControlsAreTokens
  <2>4. \A g: Finds(g, s.controls, n) => Finds(g, t.controls, n + 1)
    BY <1>5, <1>7, FindsSame
  <2>5. ASSUME ~t.suspicious
        PROVE  /\ t.forms = Cardinality(FormsUpTo(n + 1))
               /\ \A i \in Controls(Live):
                      i <= n + 1 => ~page[i].away /\ (page[i].field # Absent => InForm(i, Live))
               /\ \E g: Finds(g, t.controls, n + 1)
    <3>1. /\ s.forms = Cardinality(FormsUpTo(n))
          /\ \A i \in Controls(Live):
                 i <= n => ~page[i].away /\ (page[i].field # Absent => InForm(i, Live))
          /\ \E g: Finds(g, s.controls, n)
      BY <1>5, <2>5 DEF ScanOK
    <3> QED
      BY <1>5, <2>2, <2>3, <2>4, <3>1
  <2>6. ScanOK(t, n + 1)
    BY <1>4, <1>5, <1>6, <2>1, <2>5 DEF ScanOK
  <2> QED
    BY <2>6 DEF t
<1>11. CASE ~(name = "form" /\ s.templates = 0)
  <2>1. SameForm(t, s)
    BY <1>2, <1>4, <1>5, <1>11 DEF SameForm
  <2>2. n + 1 \in Live => ~Ends(n + 1, "form")
    BY <1>8, <1>9, <1>11
  <2>3. ScanOK(t, n + 1)
    BY <1>5, <1>6, <1>7, <2>1, <2>2, NothingAdded
  <2> QED
    BY <2>3 DEF t
<1> QED
  BY <1>10, <1>11

\* A piece of text.
LEMMA TextScanned ==
    ASSUME PageShape, NEW n \in 0..(Len(page) - 1), NEW s, ScanOK(s, n),
           page[n + 1].token = "text"
    PROVE  ScanOK(Text(s, page[n + 1].text), n + 1)
<1> DEFINE t == Text(s, page[n + 1].text)
<1>1. n \in Nat /\ n + 1 \in 1..Len(page) /\ (n + 1) - 1 = n
  BY DEF PageShape
<1>2. DOMAIN t = Parts /\ CaptureOK(t) /\ SameForm(t, s) /\ t.templates = s.templates
  BY TextLeaves DEF ScanOK
<1>3. OpenTemplates[n + 1] = OpenTemplates[n] /\ s.templates = OpenTemplates[n]
  <2>1. ~Opens(n + 1, "template") /\ ~Ends(n + 1, "template")
    BY DEF Opens, Starts, Ends
  <2> QED
    BY <1>1, <2>1, TemplatesCounted DEF PageShape, ScanOK
<1>4. n + 1 \notin Controls(Live) /\ ~Starts(n + 1, "form") /\ ~Ends(n + 1, "form")
  BY DEF Controls, Starts, Ends
<1> HIDE DEF t
<1>5. ScanOK(t, n + 1)
  BY <1>2, <1>3, <1>4, NothingAdded
<1> QED
  BY <1>5 DEF t

-----------------------------------------------------------------------------
(* The scan says what the page says *)

\* What has been read of the page is what the scan says, and a page that is recognised was read
\* to its end and is what its scan says it is.
PageInv ==
    /\ PageShape /\ at \in 0..Len(page) /\ ScanOK(scan, at)
    /\ kind \in {"login", "rejected"} => IsLogin(scan) /\ at = Len(page)
    /\ kind = "code" => IsCode(scan) /\ at = Len(page)

\* A page that stays as it is says the same.
LEMMA PageStays ==
    ASSUME page' = page
    PROVE  PageShape' = PageShape /\ \A s, n: ScanOK(s, n)' = ScanOK(s, n)
<1>1. PageShape' = PageShape
  BY DEF PageShape
<1>2. OpenTemplates' = OpenTemplates
  BY DEF OpenTemplates, Opens, Starts, Ends
<1>3. Live' = Live
  BY <1>2 DEF Live
<1>4. Controls(Live)' = Controls(Live)
  BY <1>3 DEF Controls
<1>5. \A n: InForm(n, Live)' = InForm(n, Live)
  BY <1>3 DEF InForm, Starts, Ends
<1>6. AllNoted' = AllNoted /\ \A i: Noted(i)' = Noted(i)
  BY DEF AllNoted, Noted
<1>7. \A n: FormsUpTo(n)' = FormsUpTo(n) /\ NamedUpTo(n)' = NamedUpTo(n)
  BY <1>3, <1>4 DEF FormsUpTo, NamedUpTo, Starts
<1>8. \A g, c, n: Finds(g, c, n)' = Finds(g, c, n)
  BY <1>6, <1>7 DEF Finds
<1> QED
  BY <1>1, <1>2, <1>4, <1>5, <1>6, <1>7, <1>8 DEF ScanOK, CaptureOK

\* Nothing has been read.
LEMMA FreshScanned == ASSUME PageShape PROVE ScanOK(Fresh, 0)
<1>1. /\ DOMAIN Fresh = Parts /\ CaptureOK(Fresh) /\ Fresh.forms = 0 /\ Fresh.inForm = FALSE
      /\ Fresh.suspicious = FALSE /\ Fresh.controls = <<>> /\ Fresh.templates = 0
  BY DEF Fresh, Parts, CaptureOK, NoCapture
<1>2. OpenTemplates[0] = 0
  BY TemplatesCounted DEF PageShape
<1>3. Live \subseteq 1..Len(page) /\ Len(page) \in Nat
  BY DEF Live, PageShape
<1>4. ~InForm(0 + 1, Live)
  BY <1>3 DEF InForm
<1>5. \A i \in Controls(Live): ~(i <= 0)
  BY ControlsAreTokens, <1>3
<1>6. FormsUpTo(0) = {} /\ NamedUpTo(0) = {}
  <2>1. \A i \in Live: ~(i <= 0)
    BY <1>3
  <2> QED
    BY <1>5, <2>1 DEF FormsUpTo, NamedUpTo
<1>7. Finds(<<>>, <<>>, 0)
  BY <1>6 DEF Finds
<1>8. Cardinality(FormsUpTo(0)) = 0
  BY <1>6, FS_EmptySet
<1>9. Fresh.controls \in Seq(AllNoted) /\ 0 \in Nat
  BY <1>1
<1>10. /\ Fresh.forms = Cardinality(FormsUpTo(0))
       /\ \E g: Finds(g, Fresh.controls, 0)
  BY <1>1, <1>7, <1>8
<1>11. Fresh.inForm <=> InForm(0 + 1, Live)
  BY <1>1, <1>4
<1> HIDE DEF Fresh
<1> QED
  BY <1>1, <1>2, <1>5, <1>9, <1>10, <1>11 DEF ScanOK

\* A scan that stays as it is says the same.
LEMMA ScanSaysTheSame ==
    ASSUME scan' = scan
    PROVE  IsLogin(scan)' = IsLogin(scan) /\ IsCode(scan)' = IsCode(scan)
BY DEF IsLogin, IsCode

\* At every token of every page, the scanner's one pass agrees with the page read as a whole:
\* its templates, its form, and, unless it found something suspicious, its controls, each once
\* and in order (classify.rs: Scan::run).
THEOREM PageInvariant == Spec => []PageInv
<1>1. Init => PageInv
  <2> SUFFICES ASSUME Init PROVE PageInv
    OBVIOUS
  <2>1. PICK names \in Pages: page = [i \in DOMAIN names |-> Markup[names[i]]]
    BY DEF Init
  <2>2. names \in Seq(DOMAIN Markup)
    BY <2>1, PageAssumption
  <2>3. /\ Len(names) \in Nat /\ DOMAIN names = 1..Len(names)
        /\ \A i \in DOMAIN names: names[i] \in DOMAIN Markup
    BY <2>2
  <2>4. DOMAIN page = 1..Len(names) /\ Len(page) = Len(names)
    BY <2>1, <2>3
  <2>5. PageShape
    BY <2>1, <2>3, <2>4, PageAssumption DEF PageShape
  <2> QED
    BY <2>3, <2>4, <2>5, FreshScanned DEF Init, PageInv
<1>2. PageInv /\ [Next]_vars => PageInv'
  <2> SUFFICES ASSUME PageInv, [Next]_vars PROVE PageInv'
    OBVIOUS
  <2>1. ASSUME page' = page, at' = at, scan' = scan
        PROVE  (PageShape /\ at \in 0..Len(page) /\ ScanOK(scan, at))'
    <3>1. ScanOK(scan, at)' <=> ScanOK(scan, at)
      BY <2>1, PageStays
    <3> QED
      BY <2>1, <3>1, PageStays DEF PageInv
  <2>2. CASE Read
    <3>1. kind = "reading" /\ kind' = "reading" /\ page' = page /\ at' = at + 1
      BY <2>2 DEF Read
    <3>2. at \in 0..(Len(page) - 1) /\ PageShape /\ ScanOK(scan, at)
      BY <2>2 DEF Read, PageInv, PageShape
    <3>3. ScanOK(scan', at + 1)
      <4>1. CASE page[at + 1].token = "start" /\ scan' = Start(scan, page[at + 1])
        BY <3>2, <4>1, StartScanned
      <4>2. CASE page[at + 1].token = "end" /\ scan' = End(scan, page[at + 1].name)
        BY <3>2, <4>2, EndScanned
      <4>3. CASE page[at + 1].token = "text" /\ scan' = Text(scan, page[at + 1].text)
        BY <3>2, <4>3, TextScanned
      <4> QED
        BY <2>2, <4>1, <4>2, <4>3 DEF Read, Token
    <3>4. ScanOK(scan, at)' <=> ScanOK(scan', at')
      BY <3>1, PageStays
    <3>5. (at \in 0..Len(page))' /\ PageShape'
      BY <3>1, <3>2, PageStays DEF PageShape
    <3> QED
      BY <3>1, <3>3, <3>4, <3>5 DEF PageInv
  <2>3. CASE Extract
    <3>1. page' = page /\ at' = at /\ scan' = scan /\ at = Len(page)
      BY <2>3 DEF Extract
    <3>2. /\ kind' \in {"login", "rejected"} => IsLogin(scan)
          /\ kind' = "code" => IsCode(scan)
      BY <2>3 DEF Extract, Recognised
    <3>3. IsLogin(scan)' = IsLogin(scan) /\ IsCode(scan)' = IsCode(scan)
      BY <3>1, ScanSaysTheSame
    <3> QED
      BY <2>1, <3>1, <3>2, <3>3 DEF PageInv
  <2>4. CASE (\E answers \in Answered: Submit(answers)) \/ UNCHANGED vars
    <3>1. page' = page /\ at' = at /\ scan' = scan /\ kind' = kind
      BY <2>4 DEF Submit, vars
    <3>2. IsLogin(scan)' = IsLogin(scan) /\ IsCode(scan)' = IsCode(scan)
      BY <3>1, ScanSaysTheSame
    <3> QED
      BY <2>1, <3>1, <3>2 DEF PageInv
  <2> QED
    BY <2>2, <2>3, <2>4 DEF Next
<1> QED
  BY <1>1, <1>2, PTL DEF Spec

-----------------------------------------------------------------------------
(* A recognised page is plain *)

\* The values of the device fields of one kind.
LEMMA SelectedAll ==
    ASSUME NEW S, NEW s, s.controls \in Seq(S), NEW type
    PROVE  /\ Len(Selected(s, type)) \in Nat
           /\ DOMAIN Selected(s, type) = 1..Len(Selected(s, type))
           /\ \A i \in DOMAIN s.controls:
                  s.controls[i].name = "selectedCredentialId" /\ s.controls[i].kind = type =>
                      /\ Selected(s, type) # <<>>
                      /\ \E k \in DOMAIN Selected(s, type):
                             Selected(s, type)[k] = s.controls[i].value
           /\ Selected(s, type) # <<>> =>
                  \E i \in DOMAIN s.controls:
                      s.controls[i].name = "selectedCredentialId" /\ s.controls[i].kind = type
<1> DEFINE fields == {i \in DOMAIN s.controls:
                         /\ s.controls[i].name = "selectedCredentialId"
                         /\ s.controls[i].kind = type}
           kept == Sifted(s.controls, fields)
<1>1. /\ kept \in Seq(S)
      /\ \A i \in fields: \E k \in DOMAIN kept: kept[k] = s.controls[i]
      /\ \A k \in DOMAIN kept: \E i \in fields: kept[k] = s.controls[i]
  <2>1. fields \in SUBSET (DOMAIN s.controls)
    OBVIOUS
  <2> HIDE DEF fields
  <2> QED
    BY <2>1, SiftedElements
<1>2. Selected(s, type) = [k \in DOMAIN kept |-> kept[k].value]
  BY DEF Selected
<1> HIDE DEF fields, kept
<1>3. Len(kept) \in Nat /\ DOMAIN kept = 1..Len(kept)
  BY <1>1
<1>4. Len(Selected(s, type)) = Len(kept) /\ DOMAIN Selected(s, type) = DOMAIN kept
  BY <1>2, <1>3
<1>5. ASSUME NEW i \in fields
      PROVE  /\ Selected(s, type) # <<>>
             /\ \E k \in DOMAIN Selected(s, type):
                    Selected(s, type)[k] = s.controls[i].value
  <2>1. PICK k \in DOMAIN kept: kept[k] = s.controls[i]
    BY <1>1
  <2> QED
    BY <1>2, <1>3, <1>4, <2>1
<1>6. ASSUME Selected(s, type) # <<>> PROVE \E i \in fields: TRUE
  <2>1. DOMAIN kept # {}
    BY <1>2, <1>6
  <2> QED
    BY <1>1, <2>1
<1> QED
  BY <1>3, <1>4, <1>5, <1>6 DEF fields

\* Where a recognised page has a radio for the device, it has no other field for it.
LEMMA RadiosAlone ==
    ASSUME NEW S, NEW s, s.controls \in Seq(S), DevicesGiven(s), NEW k \in DOMAIN s.controls,
           NEW l \in DOMAIN s.controls, IsDeviceRadio(s.controls[l]),
           s.controls[k].name = "selectedCredentialId"
    PROVE  s.controls[k].kind = "radio"
<1>1. s.controls[k].kind \in {"radio", "hidden"}
  BY DEF DevicesGiven
<1>2. Selected(s, "radio") # <<>>
  BY SelectedAll DEF IsDeviceRadio
<1>3. Selected(s, "hidden") = <<>>
  BY <1>2 DEF DevicesGiven, Consistent
<1>4. s.controls[k].kind # "hidden"
  BY <1>3, SelectedAll
<1> QED
  BY <1>1, <1>4

\* A page that is recognised is as plain as its scan says.
LEMMA RecognisedSoPlain == ASSUME PageInv PROVE RecognisedIsPlain
<1> SUFFICES ASSUME IsKnown
             PROVE  LET controls == Controls(Live)
                        names    == {page[i].field: i \in controls} \ {Absent}
                    IN  /\ Cardinality({i \in Live: Starts(i, "form")}) = 1
                        /\ \A i \in controls:
                               ~page[i].away /\ (page[i].field # Absent => InForm(i, Live))
                        /\ names \subseteq IF kind = "code" THEN OtpFields ELSE LoginFields
                        /\ (IF kind = "code" THEN {"otp"} ELSE {"username", "password"})
                               \subseteq names
                        /\ \A i, j \in controls:
                               i # j /\ page[i].field = page[j].field /\ page[i].field # Absent =>
                                   page[i].field = "selectedCredentialId" /\ page[i].kind = "radio"
  BY DEF RecognisedIsPlain
<1> DEFINE names == {page[i].field: i \in Controls(Live)} \ {Absent}
<1>1. /\ kind = "code" => IsCode(scan)
      /\ kind # "code" => IsLogin(scan)
      /\ OneForm(scan) /\ Unique(scan) /\ at = Len(page)
  BY DEF PageInv, IsKnown, IsLogin, IsCode
<1>2. /\ scan.forms = 1 /\ ~scan.suspicious /\ scan.controls \in Seq(AllNoted)
      /\ scan.forms = Cardinality(FormsUpTo(Len(page)))
      /\ \A i \in Controls(Live):
             i <= Len(page) => ~page[i].away /\ (page[i].field # Absent => InForm(i, Live))
      /\ \E g: Finds(g, scan.controls, Len(page))
  BY <1>1 DEF PageInv, ScanOK, OneForm
<1>3. Live \subseteq 1..Len(page) /\ Len(page) \in Nat /\ Controls(Live) \subseteq Live
  BY DEF Live, PageInv, PageShape, Controls
<1>4. \A i \in Live: i <= Len(page)
  BY <1>3
<1>5. \A i \in Controls(Live): i <= Len(page)
  BY <1>3, <1>4
<1>6. FormsUpTo(Len(page)) = {i \in Live: Starts(i, "form")}
  BY <1>4 DEF FormsUpTo
<1>7. NamedUpTo(Len(page)) = {i \in Controls(Live): page[i].field # Absent}
  BY <1>5 DEF NamedUpTo
<1>8. PICK g: /\ g \in [DOMAIN scan.controls -> NamedUpTo(Len(page))]
              /\ \A i \in NamedUpTo(Len(page)): \E k \in DOMAIN scan.controls: g[k] = i
              /\ \A k \in DOMAIN scan.controls: scan.controls[k] = Noted(g[k])
  BY <1>2 DEF Finds
<1>9. \A k \in DOMAIN scan.controls:
          /\ scan.controls[k].name = page[g[k]].field
          /\ scan.controls[k].kind = page[g[k]].kind
  <2>1. \A i: Noted(i).name = page[i].field /\ Noted(i).kind = page[i].kind
    BY DEF Noted
  <2> QED
    BY <1>8, <2>1
<1>10. names = Names(scan)
  BY <1>7, <1>8, <1>9 DEF Names
<1>11. \A i \in Controls(Live): ~page[i].away /\ (page[i].field # Absent => InForm(i, Live))
  BY <1>2, <1>5
<1>12. /\ names \subseteq IF kind = "code" THEN OtpFields ELSE LoginFields
       /\ (IF kind = "code" THEN {"otp"} ELSE {"username", "password"}) \subseteq names
  BY <1>1, <1>10 DEF IsLogin, IsCode
<1>13. ASSUME NEW k \in DOMAIN scan.controls, NEW l \in DOMAIN scan.controls, k < l,
              scan.controls[k].name = scan.controls[l].name
       PROVE  /\ scan.controls[k].name = "selectedCredentialId"
              /\ scan.controls[k].kind = "radio" /\ scan.controls[l].kind = "radio"
  <2>1. k \in 1..(l - 1)
    <3>1. DOMAIN scan.controls = 1..Len(scan.controls) /\ Len(scan.controls) \in Nat
      BY <1>2
    <3> QED
      BY <1>13, <3>1
  <2>2. IsDeviceRadio(scan.controls[l])
    BY <1>1, <1>13, <2>1 DEF Unique
  <2>3. scan.controls[l].name \in Names(scan) /\ scan.controls[k].name = "selectedCredentialId"
    BY <1>13, <2>2 DEF Names, IsDeviceRadio
  <2>4. kind = "code"
    BY <1>1, <1>13, <2>3 DEF IsLogin, LoginFields
  <2>5. DevicesGiven(scan)
    BY <1>1, <2>4 DEF IsCode
  <2> QED
    BY <1>2, <2>2, <2>3, <2>5, RadiosAlone DEF IsDeviceRadio
<1>14. ASSUME NEW i \in Controls(Live), NEW j \in Controls(Live), i # j,
              page[i].field = page[j].field, page[i].field # Absent
       PROVE  page[i].field = "selectedCredentialId" /\ page[i].kind = "radio"
  <2>1. PICK k \in DOMAIN scan.controls: g[k] = i
    BY <1>7, <1>8, <1>14
  <2>2. PICK l \in DOMAIN scan.controls: g[l] = j
    BY <1>7, <1>8, <1>14
  <2>3. k < l \/ l < k
    <3>1. DOMAIN scan.controls = 1..Len(scan.controls) /\ Len(scan.controls) \in Nat
      BY <1>2
    <3>2. k # l
      BY <1>14, <2>1, <2>2
    <3> QED
      BY <3>1, <3>2
  <2> QED
    BY <1>9, <1>13, <1>14, <2>1, <2>2, <2>3
<1> QED
  BY <1>2, <1>6, <1>11, <1>12, <1>14

\* A page is taken for a login or a one-time code only if, of all a browser would show of it,
\* there is one form, every named control is in it and on the kind's list, and none is there
\* twice but the device's radios: for any tokens, nested and left open in any way
\* (classify.rs: Scan::kind, Scan::unique).
THEOREM RecognisedIsPlainAlways == Spec => []RecognisedIsPlain
<1>1. PageInv => RecognisedIsPlain
  BY RecognisedSoPlain
<1> QED
  BY <1>1, PageInvariant, PTL

-----------------------------------------------------------------------------
(* The devices offered are those taken *)

\* The devices of a page with a choice are distinct and named, and are the form's.
TakenInv ==
    /\ devices # <<>> => kind = "code"
    /\ kind = "code" /\ devices # <<>> =>
           /\ IsInjective(devices) /\ Absent \notin ToSet(devices)
           /\ form.devices = ToSet(devices)

\* Only a one-time code gives devices, and Scan::devices has checked them.
LEMMA TakenInvariant == Spec => []TakenInv
<1>1. Init => TakenInv
  BY DEF Init, TakenInv
<1>2. TakenInv /\ [Next]_vars => TakenInv'
  <2> SUFFICES ASSUME TakenInv, [Next]_vars PROVE TakenInv'
    OBVIOUS
  <2>1. CASE Read \/ (\E answers \in Answered: Submit(answers)) \/ UNCHANGED vars
    <3>1. kind' = kind /\ devices' = devices /\ form' = form
      BY <2>1 DEF Read, Submit, vars
    <3> QED
      BY <3>1 DEF TakenInv
  <2>2. CASE Extract
    <3>1. kind = "reading" /\ devices = <<>>
      BY <2>2 DEF Extract, TakenInv
    <3>2. CASE kind' = "unknown" /\ UNCHANGED <<devices, form>>
      BY <3>1, <3>2 DEF TakenInv
    <3>3. CASE \E k \in {"login", "rejected"}: Recognised(k, LoginPosted, <<>>)
      BY <3>1, <3>3 DEF Recognised, TakenInv
    <3>4. ASSUME IsCode(scan),
                 Recognised("code", OtpPosted,
                     [k \in DOMAIN TilesInOrder(scan) |-> TilesInOrder(scan)[k].credential])
          PROVE  TakenInv'
      <4> DEFINE ids == [k \in DOMAIN TilesInOrder(scan) |-> TilesInOrder(scan)[k].credential]
      <4>1. IsInjective(ids) /\ \A k \in DOMAIN ids: ids[k] # Absent
        BY <3>4 DEF IsCode, DevicesGiven
      <4>2. Absent \notin ToSet(ids)
        BY <4>1 DEF ToSet
      <4> HIDE DEF ids
      <4>3. CASE kind' = "refused" /\ UNCHANGED devices
        BY <3>1, <4>3 DEF TakenInv
      <4>4. CASE kind' = "code" /\ devices' = ids /\ (ids # <<>> => form'.devices = ToSet(ids))
        BY <4>1, <4>2, <4>4 DEF TakenInv
      <4> QED
        BY <3>4, <4>3, <4>4 DEF Recognised, ids
    <3> QED
      BY <2>2, <3>2, <3>3, <3>4 DEF Extract
  <2> QED
    BY <2>1, <2>2 DEF Next
<1> QED
  BY <1>1, <1>2, PTL DEF Spec

\* Where a page offers devices and posts a choice, the form takes each device offered and no
\* other, for any page (form.rs: Form::submit; classify.rs: Scan::devices).
THEOREM OfferedIsTakenAlways == Spec => []OfferedIsTaken
<1>1. TakenInv => OfferedIsTaken
  <2> SUFFICES ASSUME TakenInv, kind = "code", devices # <<>>
               PROVE  LET chosen(id) == <<[name |-> "selectedCredentialId", value |-> id]>>
                          tags       == {i \in DOMAIN page: page[i].token = "start"}
                          ids        == {page[i].value: i \in tags}
                                        \cup {page[i].onclick.id: i \in tags}
                      IN  /\ IsInjective(devices) /\ Absent \notin ToSet(devices)
                          /\ ValuesOf(form.fields, "selectedCredentialId") # {} =>
                                 \A id \in ids: Takes(form, chosen(id)) <=> id \in ToSet(devices)
    BY DEF OfferedIsTaken
  <2>1. IsInjective(devices) /\ Absent \notin ToSet(devices) /\ form.devices = ToSet(devices)
    BY DEF TakenInv
  <2>2. ASSUME NEW id, ValuesOf(form.fields, "selectedCredentialId") # {}
        PROVE  Takes(form, <<[name |-> "selectedCredentialId", value |-> id]>>)
                   <=> id \in ToSet(devices)
    <3> DEFINE chosen == <<[name |-> "selectedCredentialId", value |-> id]>>
    <3>1. /\ DOMAIN chosen = {1} /\ chosen[1].name = "selectedCredentialId"
          /\ chosen[1].value = id
      OBVIOUS
    <3>2. PICK j \in DOMAIN form.fields: form.fields[j].name = "selectedCredentialId"
      BY <2>2 DEF ValuesOf
    <3> HIDE DEF chosen
    <3>3. Takes(form, chosen) <=> id \in form.devices
      BY <3>1, <3>2 DEF Takes
    <3> QED
      BY <2>1, <3>3 DEF chosen
  <2> QED
    BY <2>1, <2>2
<1> QED
  BY <1>1, TakenInvariant, PTL

-----------------------------------------------------------------------------
(* What is posted *)

\* An absent name is none of those that are posted.
LEMMA AbsentIsNotPosted == Absent \notin LoginPosted /\ Absent \notin OtpPosted
BY Zenon DEF Absent, LoginPosted, OtpPosted

\* The fields a page of this kind may post.
Posted == IF kind = "code" THEN OtpPosted ELSE LoginPosted

\* The form is what the page posts, its devices are the tiles in their order, and what was
\* submitted is the form with answers it takes filled in.
FormInv ==
    /\ kind \in {"login", "rejected", "code"} =>
           ActionOK(form.action) /\ form.fields = Fields(scan, Posted)
    /\ kind = "code" /\ devices # <<>> =>
           devices = [k \in DOMAIN TilesInOrder(scan) |-> TilesInOrder(scan)[k].credential]
    /\ submitted # Nothing =>
           /\ kind \in {"login", "code"} /\ submitted.answers \in Answered
           /\ Takes(form, submitted.answers)
           /\ submitted.fields = Filled(form, submitted.answers)

\* The form is extracted once, and submitting it leaves it as it is.
LEMMA FormInvariant == Spec => []FormInv
<1>1. Init => FormInv
  BY DEF Init, FormInv
<1>2. FormInv /\ [Next]_vars => FormInv'
  <2> SUFFICES ASSUME FormInv, [Next]_vars PROVE FormInv'
    OBVIOUS
  <2>1. CASE Read
    <3>1. kind = "reading" /\ kind' = "reading" /\ submitted' = submitted
      BY <2>1 DEF Read
    <3> QED
      BY <3>1 DEF FormInv
  <2>2. CASE Extract
    <3>1. kind = "reading" /\ submitted = Nothing /\ submitted' = Nothing /\ scan' = scan
      BY <2>2 DEF Extract, FormInv
    <3>2. CASE kind' \in {"unknown", "refused"}
      BY <3>1, <3>2 DEF FormInv
    <3>3. ASSUME NEW k \in {"login", "rejected", "code"}, NEW posted, NEW ids,
                 posted = IF k = "code" THEN OtpPosted ELSE LoginPosted,
                 k = "code" => ids = [i \in DOMAIN TilesInOrder(scan) |->
                                          TilesInOrder(scan)[i].credential],
                 Recognised(k, posted, ids)
          PROVE  FormInv'
      <4>1. CASE kind' = "refused"
        BY <3>2, <4>1
      <4>2. CASE /\ kind' = k /\ devices' = ids /\ ActionOK(scan.action)
                 /\ form'.action = scan.action /\ form'.fields = Fields(scan, posted)
        <5>1. Posted' = posted
          BY <3>3, <4>2 DEF Posted
        <5>2. ActionOK(form.action)' /\ (form.fields = Fields(scan, Posted))'
          BY <3>1, <4>2, <5>1 DEF ActionOK, Fields
        <5>3. TilesInOrder(scan)' = TilesInOrder(scan)
          BY <3>1 DEF TilesInOrder
        <5> QED
          BY <3>1, <3>3, <4>2, <5>2, <5>3 DEF FormInv
      <4> QED
        BY <3>3, <4>1, <4>2 DEF Recognised
    <3> QED
      BY <2>2, <3>2, <3>3 DEF Extract
  <2>3. ASSUME NEW answers \in Answered, Submit(answers) PROVE FormInv'
    <3>1. /\ kind' = kind /\ kind \in {"login", "code"} /\ scan' = scan /\ form' = form
          /\ devices' = devices /\ Takes(form, answers)
          /\ submitted'.answers = answers /\ submitted'.fields = Filled(form, answers)
      BY <2>3 DEF Submit
    <3>2. /\ Posted' = Posted /\ TilesInOrder(scan)' = TilesInOrder(scan)
          /\ Fields(scan, Posted)' = Fields(scan, Posted)
          /\ ActionOK(form.action)' = ActionOK(form.action)
      BY <3>1 DEF Posted, TilesInOrder, Fields, ActionOK
    <3>3. /\ Takes(form, submitted.answers)' = Takes(form, answers)
          /\ Filled(form, submitted.answers)' = Filled(form, answers)
      BY <3>1 DEF Takes, Filled
    <3> QED
      BY <3>1, <3>2, <3>3 DEF FormInv
  <2>4. CASE UNCHANGED vars
    <3>1. /\ kind' = kind /\ scan' = scan /\ form' = form
          /\ devices' = devices /\ submitted' = submitted
      BY <2>4 DEF vars
    <3>2. /\ Posted' = Posted /\ TilesInOrder(scan)' = TilesInOrder(scan)
          /\ Fields(scan, Posted)' = Fields(scan, Posted)
          /\ ActionOK(form.action)' = ActionOK(form.action)
      BY <3>1 DEF Posted, TilesInOrder, Fields, ActionOK
    <3>3. /\ Takes(form, submitted.answers)' = Takes(form, submitted.answers)
          /\ Filled(form, submitted.answers)' = Filled(form, submitted.answers)
      BY <3>1 DEF Takes, Filled
    <3> QED
      BY <3>1, <3>2, <3>3 DEF FormInv
  <2> QED
    BY <2>1, <2>2, <2>3, <2>4 DEF Next
<1> QED
  BY <1>1, <1>2, PTL DEF Spec

\* Every device a page posts by itself is one it offers.
LEMMA OwnDeviceOffered ==
    ASSUME NEW S, NEW s, s.controls \in Seq(S), DevicesGiven(s), NEW k \in DOMAIN s.controls,
           s.controls[k].name = "selectedCredentialId"
    PROVE  LET ids == [i \in DOMAIN TilesInOrder(s) |-> TilesInOrder(s)[i].credential]
           IN  ids # <<>> => s.controls[k].value \in ToSet(ids)
<1> DEFINE tiles  == TilesInOrder(s)
           ids    == [i \in DOMAIN tiles |-> tiles[i].credential]
           radios == Selected(s, "radio")
           hidden == Selected(s, "hidden")
<1>1. s.controls[k].kind \in {"radio", "hidden"} /\ Consistent(s, tiles, ids)
  BY DEF DevicesGiven
<1>2. \/ /\ radios # <<>> /\ hidden = <<>> /\ radios = ids
      \/ /\ radios = <<>> /\ Len(hidden) = 1
         /\ ids # <<>> => hidden[1] \in ToSet(ids)
      \/ radios = <<>> /\ hidden = <<>>
  BY <1>1 DEF Consistent
<1> HIDE DEF ids
<1>3. CASE s.controls[k].kind = "radio"
  <2>1. radios # <<>> /\ \E i \in DOMAIN radios: radios[i] = s.controls[k].value
    BY <1>3, SelectedAll
  <2>2. radios = ids
    BY <1>2, <2>1
  <2> QED
    BY <2>1, <2>2 DEF ToSet, ids
<1>4. CASE s.controls[k].kind = "hidden"
  <2>0. hidden # <<>> /\ \E i \in DOMAIN hidden: hidden[i] = s.controls[k].value
    BY <1>4, SelectedAll
  <2>1. DOMAIN hidden = 1..Len(hidden)
    BY SelectedAll
  <2>2. Len(hidden) = 1 /\ (ids # <<>> => hidden[1] \in ToSet(ids))
    BY <1>2, <2>0
  <2>3. s.controls[k].value = hidden[1]
    BY <2>0, <2>1, <2>2
  <2> QED
    BY <2>2, <2>3 DEF ids
<1> QED
  BY <1>1, <1>3, <1>4

\* What Filled puts in each field: the answer that has its name, or what the page has.
LEMMA FilledEach ==
    ASSUME NEW answers \in Seq([name: STRING, value: STRING]), NEW f, Takes(f, answers),
           NEW i \in DOMAIN f.fields
    PROVE  /\ (\A j \in DOMAIN answers: answers[j].name # f.fields[i].name) =>
                  Filled(f, answers)[i] = [name |-> f.fields[i].name, value |-> f.fields[i].value]
           /\ \A j \in DOMAIN answers:
                  answers[j].name = f.fields[i].name => Filled(f, answers)[i] = answers[j]
<1> DEFINE name == f.fields[i].name
           mine == {j \in DOMAIN answers: answers[j].name = name}
           own  == Sifted(answers, mine)
<1>1. Filled(f, answers)[i] =
          [name |-> name, value |-> IF own = <<>> THEN f.fields[i].value ELSE own[1].value]
  BY DEF Filled
<1>2. /\ own \in Seq([name: STRING, value: STRING])
      /\ \A j \in mine: \E k \in DOMAIN own: own[k] = answers[j]
      /\ \A k \in DOMAIN own: \E j \in mine: own[k] = answers[j]
  <2>1. mine \in SUBSET (DOMAIN answers)
    OBVIOUS
  <2> HIDE DEF mine
  <2> QED
    BY <2>1, SiftedElements
<1> HIDE DEF own
<1>3. ASSUME \A j \in DOMAIN answers: answers[j].name # name
      PROVE  own = <<>>
  <2>1. DOMAIN own = {}
    BY <1>2, <1>3
  <2> QED
    BY <1>2, <2>1
<1>4. ASSUME NEW j \in DOMAIN answers, answers[j].name = name
      PROVE  own # <<>> /\ own[1] = answers[j]
  <2>1. PICK k \in DOMAIN own: own[k] = answers[j]
    BY <1>2, <1>4
  <2>2. 1 \in DOMAIN own
    BY <1>2, <2>1
  <2>3. PICK l \in mine: own[1] = answers[l]
    BY <1>2, <2>2
  <2>4. l = j
    BY <1>4, <2>3 DEF Takes
  <2> QED
    BY <2>2, <2>3, <2>4
<1>5. ASSUME NEW j \in DOMAIN answers, answers[j].name = name
      PROVE  Filled(f, answers)[i] = answers[j]
  <2>1. answers[j] \in [name: STRING, value: STRING]
    <3> DEFINE Answers == [name: STRING, value: STRING]
    <3>1. answers \in Seq(Answers)
      OBVIOUS
    <3> HIDE DEF Answers
    <3>2. answers[j] \in Answers
      BY <1>5, <3>1
    <3> QED
      BY <3>2 DEF Answers
  <2>2. answers[j] = [name |-> answers[j].name, value |-> answers[j].value]
    BY <2>1
  <2>3. Filled(f, answers)[i] = [name |-> name, value |-> answers[j].value]
    BY <1>1, <1>4, <1>5
  <2> QED
    BY <1>5, <2>2, <2>3
<1> QED
  BY <1>1, <1>3, <1>5

\* What is posted is the page's own, with the answers filled in.
LEMMA PostedSoFar ==
    ASSUME PageInv, TakenInv, FormInv
    PROVE  PostsTheAnswers
<1> DEFINE allowed  == IF kind = "code" THEN OtpPosted ELSE LoginPosted
           submits  == {i \in Controls(Live):
                           /\ page[i].field \in allowed
                           /\ page[i].kind \in {"radio", "checkbox"} => page[i].checked}
           answers  == submitted.answers
           fields   == submitted.fields
           kept     == {k \in DOMAIN scan.controls:
                           /\ scan.controls[k].name \in allowed
                           /\ scan.controls[k].kind \in {"radio", "checkbox"} =>
                                  scan.controls[k].checked}
<1> SUFFICES ASSUME submitted # Nothing
             PROVE  LET answered == {answers[i].name: i \in DOMAIN answers}
                    IN  /\ form.action.site = "own" /\ form.action.path = "login-actions"
                        /\ Len(fields) = Cardinality(submits)
                        /\ ToSet(answers) \subseteq ToSet(fields)
                        /\ \A field \in ToSet(fields) \ ToSet(answers):
                               /\ field.name \notin answered
                               /\ \E i \in submits:
                                      field = [name |-> page[i].field, value |-> page[i].value]
                        /\ \A field \in ToSet(fields):
                               field.name = "selectedCredentialId" /\ devices # <<>> =>
                                   field.value \in ToSet(devices)
  BY DEF PostsTheAnswers
<1>1. /\ kind \in {"login", "code"} /\ ActionOK(form.action)
      /\ form.fields = Fields(scan, allowed) /\ answers \in Answered
      /\ Takes(form, answers) /\ fields = Filled(form, answers)
  BY DEF FormInv, Posted
<1>2. answers \in Seq([name: STRING, value: STRING])
  BY <1>1, PageAssumption
<1>3. form.action.site = "own" /\ form.action.path = "login-actions"
  BY <1>1 DEF ActionOK
<1>4. /\ scan.controls \in Seq(AllNoted) /\ at = Len(page)
      /\ kind = "code" => DevicesGiven(scan)
      /\ \E g: Finds(g, scan.controls, Len(page))
  BY <1>1 DEF PageInv, ScanOK, IsLogin, IsCode, OneForm
<1>5. PICK g: Finds(g, scan.controls, Len(page))
  BY <1>4
<1>6. /\ g \in [DOMAIN scan.controls -> NamedUpTo(Len(page))]
      /\ \A i \in NamedUpTo(Len(page)): \E k \in DOMAIN scan.controls: g[k] = i
      /\ \A k, l \in DOMAIN scan.controls: k < l => g[k] < g[l]
      /\ \A k \in DOMAIN scan.controls: scan.controls[k] = Noted(g[k])
  BY <1>5 DEF Finds
<1>7. \A k \in DOMAIN scan.controls:
          /\ scan.controls[k].name = page[g[k]].field /\ scan.controls[k].kind = page[g[k]].kind
          /\ scan.controls[k].value = page[g[k]].value
          /\ scan.controls[k].checked = page[g[k]].checked
  <2>1. \A i: /\ Noted(i).name = page[i].field /\ Noted(i).kind = page[i].kind
              /\ Noted(i).value = page[i].value /\ Noted(i).checked = page[i].checked
    BY DEF Noted
  <2> QED
    BY <1>6, <2>1
<1>8. \A i \in submits: i \in NamedUpTo(Len(page))
  <2>1. \A i \in submits: i \in Controls(Live) /\ page[i].field # Absent
    BY AbsentIsNotPosted
  <2>2. \A i \in Controls(Live): i <= Len(page)
    <3>1. Controls(Live) \subseteq 1..Len(page) /\ Len(page) \in Nat
      BY ControlsAreTokens DEF PageInv, PageShape
    <3> QED
      BY <3>1
  <2> QED
    BY <2>1, <2>2 DEF NamedUpTo
<1>9. \A k \in kept: g[k] \in submits
  <2>1. \A i \in NamedUpTo(Len(page)): i \in Controls(Live)
    BY DEF NamedUpTo
  <2> QED
    BY <1>6, <1>7, <2>1
<1>10. \A i \in submits: \E k \in kept: g[k] = i
  BY <1>6, <1>7, <1>8
<1>11. \A k, l \in kept: g[k] = g[l] => k = l
  <2>1. DOMAIN scan.controls = 1..Len(scan.controls) /\ Len(scan.controls) \in Nat
    BY <1>4
  <2>2. NamedUpTo(Len(page)) \subseteq Nat
    <3>1. NamedUpTo(Len(page)) \subseteq Controls(Live)
      BY DEF NamedUpTo
    <3> QED
      BY <3>1, ControlsAreTokens DEF PageInv
  <2>3. \A k \in DOMAIN scan.controls: k \in Nat /\ g[k] \in Nat
    BY <1>6, <2>1, <2>2
  <2>4. ASSUME NEW k \in kept, NEW l \in kept, g[k] = g[l] PROVE k = l
    <3>1. k \in DOMAIN scan.controls /\ l \in DOMAIN scan.controls
      OBVIOUS
    <3>2. ~(k < l) /\ ~(l < k)
      BY <1>6, <2>3, <2>4, <3>1
    <3> QED
      BY <2>3, <3>1, <3>2
  <2> QED
    BY <2>4
<1>12. /\ form.fields = Sifted(scan.controls, kept) /\ form.fields \in Seq(AllNoted)
       /\ IsFiniteSet(kept) /\ Len(form.fields) = Cardinality(kept)
       /\ \A i \in DOMAIN form.fields: \E k \in kept: form.fields[i] = scan.controls[k]
  <2>1. form.fields = Sifted(scan.controls, kept)
    BY <1>1 DEF Fields
  <2>2. kept \in SUBSET (DOMAIN scan.controls)
    OBVIOUS
  <2> HIDE DEF kept
  <2> QED
    BY <1>4, <2>1, <2>2, SiftedElements
<1>13. Cardinality(submits) = Cardinality(kept)
  <2> DEFINE h == [k \in kept |-> g[k]]
  <2> HIDE DEF kept, submits
  <2>1. h \in Bijection(kept, submits)
    BY <1>9, <1>10, <1>11 DEF Bijection, Injection, Surjection, IsInjective
  <2> QED
    BY <1>12, <2>1, FS_Bijection DEF ExistsBijection
<1> HIDE DEF kept, submits, allowed
<1>14. Len(fields) = Len(form.fields) /\ DOMAIN fields = DOMAIN form.fields
  <2>1. DOMAIN form.fields = 1..Len(form.fields) /\ Len(form.fields) \in Nat
    BY <1>12
  <2>2. DOMAIN fields = DOMAIN form.fields
    BY <1>1 DEF Filled
  <2> QED
    BY <1>1, <2>1, <2>2 DEF Filled
<1>15. ASSUME NEW i \in DOMAIN form.fields
       PROVE  /\ (\A j \in DOMAIN answers: answers[j].name # form.fields[i].name) =>
                     fields[i] = [name |-> form.fields[i].name, value |-> form.fields[i].value]
              /\ \A j \in DOMAIN answers:
                     answers[j].name = form.fields[i].name => fields[i] = answers[j]
  <2> HIDE DEF fields, answers
  <2>1. fields = Filled(form, answers) /\ Takes(form, answers)
    BY <1>1
  <2> QED
    BY <1>2, <2>1, FilledEach
<1>16. ASSUME NEW j \in DOMAIN answers PROVE answers[j] \in ToSet(fields)
  <2>1. PICK i \in DOMAIN form.fields: form.fields[i].name = answers[j].name
    BY <1>1 DEF Takes
  <2>2. fields[i] = answers[j]
    BY <1>15, <2>1
  <2> QED
    BY <1>14, <2>1, <2>2 DEF ToSet
<1>17. ASSUME NEW i \in DOMAIN fields
       PROVE  \/ \E j \in DOMAIN answers: fields[i] = answers[j]
              \/ /\ \A j \in DOMAIN answers: answers[j].name # fields[i].name
                 /\ \E k \in kept: fields[i] = [name  |-> page[g[k]].field,
                                                value |-> page[g[k]].value]
  <2>1. PICK k \in kept: form.fields[i] = scan.controls[k]
    BY <1>12, <1>14
  <2>2. k \in DOMAIN scan.controls
    BY DEF kept
  <2>3. CASE \E j \in DOMAIN answers: answers[j].name = form.fields[i].name
    BY <1>14, <1>15, <2>3
  <2>4. CASE \A j \in DOMAIN answers: answers[j].name # form.fields[i].name
    <3>1. fields[i] = [name |-> form.fields[i].name, value |-> form.fields[i].value]
      BY <1>14, <1>15, <2>4
    <3>2. /\ form.fields[i].name = page[g[k]].field
          /\ form.fields[i].value = page[g[k]].value
      BY <1>7, <2>1, <2>2
    <3>3. fields[i].name = form.fields[i].name
      BY <3>1
    <3> QED
      BY <2>4, <3>1, <3>2, <3>3
  <2> QED
    BY <2>3, <2>4
<1>18. ASSUME NEW field \in ToSet(fields) \ ToSet(answers)
       PROVE  /\ field.name \notin {answers[i].name: i \in DOMAIN answers}
              /\ \E i \in submits: field = [name |-> page[i].field, value |-> page[i].value]
  <2>1. PICK i \in DOMAIN fields: field = fields[i]
    BY DEF ToSet
  <2>2. ~\E j \in DOMAIN answers: fields[i] = answers[j]
    BY <2>1 DEF ToSet
  <2>3. PICK k \in kept: fields[i] = [name |-> page[g[k]].field, value |-> page[g[k]].value]
    BY <1>17, <2>2
  <2>4. \A j \in DOMAIN answers: answers[j].name # fields[i].name
    BY <1>17, <2>2
  <2> QED
    BY <1>9, <2>1, <2>3, <2>4
<1>19. ASSUME NEW field \in ToSet(fields), field.name = "selectedCredentialId", devices # <<>>
       PROVE  field.value \in ToSet(devices)
  <2>1. PICK i \in DOMAIN fields: field = fields[i]
    BY DEF ToSet
  <2>2. kind = "code" /\ form.devices = ToSet(devices)
    BY <1>19 DEF TakenInv
  <2>3. CASE \E j \in DOMAIN answers: fields[i] = answers[j]
    BY <1>1, <1>19, <2>1, <2>2, <2>3 DEF Takes
  <2>4. CASE \E k \in kept: fields[i] = [name |-> page[g[k]].field, value |-> page[g[k]].value]
    <3>1. PICK k \in kept: fields[i] = [name |-> page[g[k]].field, value |-> page[g[k]].value]
      BY <2>4
    <3>2. k \in DOMAIN scan.controls
      BY DEF kept
    <3>3. /\ scan.controls[k].name = "selectedCredentialId"
          /\ scan.controls[k].value = field.value
      BY <1>7, <1>19, <2>1, <3>1, <3>2
    <3>4. devices = [m \in DOMAIN TilesInOrder(scan) |-> TilesInOrder(scan)[m].credential]
      BY <1>19, <2>2 DEF FormInv
    <3>5. DevicesGiven(scan)
      BY <1>4, <2>2
    <3> QED
      BY <1>4, <1>19, <3>2, <3>3, <3>4, <3>5, OwnDeviceOffered
  <2> QED
    BY <1>17, <2>3, <2>4
<1> QED
  BY <1>3, <1>12, <1>13, <1>14, <1>16, <1>18, <1>19 DEF ToSet

\* What is posted goes to the site's own login-actions address and is what a browser would
\* submit of the page, each answer in its own field and every other field as the page has it,
\* for any page and any answers (form.rs: extract, Form::submit).
THEOREM PostsTheAnswersAlways == Spec => []PostsTheAnswers
<1>1. PageInv /\ TakenInv /\ FormInv => PostsTheAnswers
  BY PostedSoFar
<1> QED
  BY <1>1, PageInvariant, TakenInvariant, FormInvariant, PTL

-----------------------------------------------------------------------------
(* Elements, from their start to their end *)

\* How deep within the element that begins at i the page is after token j.
Balance(i, j) ==
    Cardinality({k \in Live: i <= k /\ k <= j /\ Opens(k, page[i].name)})
        - Cardinality({k \in Live: i <= k /\ k <= j /\ Ends(k, page[i].name)})

\* The depth changes with the element's own tags alone.
LEMMA BalanceNext ==
    ASSUME PageShape, NEW n \in 0..(Len(page) - 1), NEW i \in 1..(n + 1)
    PROVE  /\ Balance(i, n) \in Int /\ (i = n + 1 => Balance(i, n) = 0)
           /\ Balance(i, n + 1) =
                  IF n + 1 \in Live /\ Opens(n + 1, page[i].name) THEN Balance(i, n) + 1
                  ELSE IF n + 1 \in Live /\ Ends(n + 1, page[i].name) THEN Balance(i, n) - 1
                  ELSE Balance(i, n)
<1> DEFINE name == page[i].name
           opens(j) == {k \in Live: i <= k /\ k <= j /\ Opens(k, name)}
           ends(j)  == {k \in Live: i <= k /\ k <= j /\ Ends(k, name)}
<1>1. Live \subseteq 1..Len(page) /\ Len(page) \in Nat /\ n \in Nat /\ i \in Nat /\ i <= n + 1
  BY NextLive DEF PageShape
<1>2. IsFiniteSet(1..Len(page))
  BY <1>1, FS_Interval
<1>3. \A k \in Live: i <= k /\ k <= n + 1 <=> (i <= k /\ k <= n) \/ k = n + 1
  BY <1>1
<1>4. n + 1 \notin opens(n) /\ n + 1 \notin ends(n)
  BY <1>1
<1>5. IsFiniteSet(opens(n)) /\ IsFiniteSet(ends(n))
  <2>1. opens(n) \subseteq 1..Len(page) /\ ends(n) \subseteq 1..Len(page)
    BY <1>1
  <2> QED
    BY <1>2, <2>1, FS_Subset
<1>6. /\ opens(n + 1) = IF n + 1 \in Live /\ Opens(n + 1, name)
                        THEN opens(n) \cup {n + 1} ELSE opens(n)
      /\ ends(n + 1) = IF n + 1 \in Live /\ Ends(n + 1, name)
                       THEN ends(n) \cup {n + 1} ELSE ends(n)
  BY <1>3
<1>7. ~(Opens(n + 1, name) /\ Ends(n + 1, name))
  BY DEF Opens, Starts, Ends
<1>8. i = n + 1 => opens(n) = {} /\ ends(n) = {}
  <2>1. \A k \in Live: i = n + 1 => ~(i <= k /\ k <= n)
    BY <1>1
  <2> QED
    BY <2>1
<1>9. \A j: Balance(i, j) = Cardinality(opens(j)) - Cardinality(ends(j))
  BY DEF Balance
<1> HIDE DEF opens, ends
<1>10. Cardinality(opens(n)) \in Nat /\ Cardinality(ends(n)) \in Nat
  BY <1>5, FS_CardinalityType
<1>11. /\ Cardinality(opens(n + 1)) = IF n + 1 \in Live /\ Opens(n + 1, name)
                                      THEN Cardinality(opens(n)) + 1 ELSE Cardinality(opens(n))
       /\ Cardinality(ends(n + 1)) = IF n + 1 \in Live /\ Ends(n + 1, name)
                                     THEN Cardinality(ends(n)) + 1 ELSE Cardinality(ends(n))
  BY <1>4, <1>5, <1>6, FS_AddElement
<1>12. i = n + 1 => Balance(i, n) = 0
  <2>1. Cardinality({}) = 0
    BY FS_EmptySet
  <2>2. i = n + 1 => Cardinality(opens(n)) = 0 /\ Cardinality(ends(n)) = 0
    BY <1>8, <2>1
  <2> QED
    BY <1>9, <2>2
<1> QED
  BY <1>7, <1>9, <1>10, <1>11, <1>12

\* An element ends where its own tags first balance, or after the page.
LEMMA EndAfter ==
    ASSUME PageShape, NEW i \in 1..Len(page), NEW n \in 0..Len(page)
    PROVE  /\ EndOf(i, Live) \in 1..(Len(page) + 1) /\ EndOf(i, Live) > i
           /\ EndOf(i, Live) > n <=> \A j \in Live: j > i /\ j <= n => Balance(i, j) # 0
<1> DEFINE ends == {j \in Live: j > i /\ Balance(i, j) = 0}
<1>1. EndOf(i, Live) = IF ends = {} THEN Len(page) + 1 ELSE Min(ends)
  BY DEF EndOf, Balance
<1>2. Live \subseteq 1..Len(page) /\ Len(page) \in Nat
  BY DEF Live, PageShape
<1>3. ASSUME ends # {}
      PROVE  Min(ends) \in ends /\ \A j \in ends: Min(ends) <= j
  <2>1. ends \subseteq Live
    OBVIOUS
  <2> HIDE DEF ends
  <2>2. ends \in SUBSET Nat
    BY <1>2, <2>1
  <2>3. PICK m \in ends: \A j \in ends: m <= j
    BY <1>3, <2>2, LeastOfAll
  <2> QED
    BY <2>3 DEF Min
<1>4. CASE ends = {}
  <2>1. EndOf(i, Live) = Len(page) + 1
    BY <1>1, <1>4
  <2>2. \A j \in Live: j > i => Balance(i, j) # 0
    BY <1>4
  <2> QED
    BY <1>2, <2>1, <2>2
<1>5. CASE ends # {}
  <2> DEFINE m == EndOf(i, Live)
  <2>1. m \in Live /\ m > i /\ Balance(i, m) = 0
    BY <1>1, <1>3, <1>5
  <2>2. \A j \in Live: j > i /\ Balance(i, j) = 0 => m <= j
    BY <1>1, <1>3, <1>5
  <2> HIDE DEF m
  <2>3. m \in 1..(Len(page) + 1) /\ m \in Nat
    BY <1>2, <2>1
  <2>4. ASSUME m > n, NEW j \in Live, j > i, j <= n PROVE Balance(i, j) # 0
    BY <1>2, <2>2, <2>3, <2>4
  <2>5. ASSUME ~(m > n) PROVE ~\A j \in Live: j > i /\ j <= n => Balance(i, j) # 0
    <3>1. m <= n
      BY <2>3, <2>5
    <3> QED
      BY <2>1, <3>1
  <2>6. m > n <=> \A j \in Live: j > i /\ j <= n => Balance(i, j) # 0
    BY <2>4, <2>5
  <2> QED
    BY <2>1, <2>3, <2>6 DEF m
<1> QED
  BY <1>4, <1>5

\* The elements whose text the scanner collects: those not within another one.
Collected(live) ==
    LET outer[i \in DOMAIN page] ==
            /\ i \in live /\ Collects(i)
            /\ \A j \in 1..(i - 1): outer[j] => i >= EndOf(j, live)
    IN  {i \in DOMAIN page: outer[i]}

\* The messages it keeps: collected as a message, ended, and not empty.
KeptMessages ==
    {i \in Collected(Live):
        /\ IsFieldError(page[i].id) /\ ~LabelFor(i)
        /\ EndOf(i, Live) <= Len(page)
        /\ \E j \in Live: /\ i < j /\ j < EndOf(i, Live)
                         /\ page[j].token = "text" /\ page[j].text # Blank}

\* An element's text is collected when every element collected before it has ended.
LEMMA CollectedAre ==
    ASSUME PageShape
    PROVE  \A i: i \in Collected(Live) <=>
                     /\ i \in Live /\ i \in 1..Len(page) /\ Collects(i)
                     /\ \A j \in Collected(Live): j < i => i >= EndOf(j, Live)
<1> DEFINE next(f, i) == /\ i \in Live /\ Collects(i)
                         /\ \A j \in 1..(i - 1): f[j] => i >= EndOf(j, Live)
           counts(f, n) == f \in [1..n -> BOOLEAN] /\ \A i \in 1..n: f[i] = next(f, i)
           bad == {n \in 0..Len(page): ~\E f: counts(f, n)}
           outer == CHOOSE f: f = [i \in DOMAIN page |-> next(f, i)]
<1>0. Len(page) \in Nat /\ DOMAIN page = 1..Len(page)
  BY DEF PageShape
<1>1. ASSUME NEW n \in bad, \A k \in bad: n <= k PROVE FALSE
  <2>1. CASE n = 0
    <3>1. counts([i \in 1..0 |-> FALSE], 0)
      OBVIOUS
    <3> QED
      BY <2>1, <3>1
  <2>2. CASE n # 0
    <3>0. n \in 1..Len(page) /\ n \in Nat /\ n - 1 \in 0..Len(page)
      BY <1>0, <1>1, <2>2
    <3>1. n - 1 \notin bad
      <4> HIDE DEF bad
      <4> QED
        BY <1>1, <3>0
    <3>2. PICK f: counts(f, n - 1)
      BY <3>0, <3>1
    <3> DEFINE g == [i \in 1..n |-> IF i = n THEN next(f, n) ELSE f[i]]
    <3>3. \A i \in 1..n: i # n => i \in 1..(n - 1)
      BY <3>0
    <3>4. \A i \in 1..n: g[i] = next(f, i)
      <4>1. \A i \in 1..(n - 1): f[i] = next(f, i)
        BY <3>2
      <4>2. \A i \in 1..n: g[i] = IF i = n THEN next(f, n) ELSE f[i]
        OBVIOUS
      <4> HIDE DEF next, g
      <4> QED
        BY <3>3, <4>1, <4>2
    <3>5. \A i \in 1..n: next(g, i) = next(f, i)
      <4>1. \A j \in 1..n: j # n => g[j] = f[j]
        OBVIOUS
      <4>2. \A i \in 1..n: \A j \in 1..(i - 1): j \in 1..n /\ j # n
        BY <3>0
      <4> HIDE DEF g
      <4> QED
        BY <4>1, <4>2
    <3>6. \A i \in 1..n: g[i] \in BOOLEAN
      <4>1. \A i \in 1..n: next(f, i) \in BOOLEAN
        OBVIOUS
      <4> HIDE DEF next, g
      <4> QED
        BY <3>4, <4>1
    <3>7. counts(g, n)
      <4>1. g = [i \in 1..n |-> g[i]]
        OBVIOUS
      <4> HIDE DEF next, g
      <4> QED
        BY <3>4, <3>5, <3>6, <4>1
    <3> QED
      BY <3>7
  <2> QED
    BY <2>1, <2>2
<1>2. bad = {}
  <2>1. bad \in SUBSET Nat
    <3> HIDE DEF counts
    <3> QED
      BY <1>0
  <2> HIDE DEF bad
  <2> QED
    BY <1>1, <2>1, LeastOfAll
<1>3. PICK f: counts(f, Len(page))
  <2> HIDE DEF counts
  <2> QED
    BY <1>0, <1>2
<1>4. f = [i \in DOMAIN page |-> next(f, i)]
  BY <1>0, <1>3
<1>5. outer = [i \in DOMAIN page |-> next(outer, i)]
  BY <1>4
<1>6. Collected(Live) = {i \in DOMAIN page: outer[i]}
  BY DEF Collected
<1> HIDE DEF outer
<1>7. \A i \in DOMAIN page: outer[i] = next(outer, i)
  BY <1>5
<1>8. \A i \in DOMAIN page: i \in Collected(Live) <=> outer[i]
  BY <1>6
<1>9. ASSUME NEW i \in DOMAIN page
      PROVE  i \in Collected(Live) <=>
                 /\ i \in Live /\ Collects(i)
                 /\ \A j \in Collected(Live): j < i => i >= EndOf(j, Live)
  <2>1. \A j: j \in 1..(i - 1) <=> j \in DOMAIN page /\ j < i
    BY <1>0
  <2>2. \A j \in Collected(Live): j \in DOMAIN page
    BY <1>6
  <2>3. outer[i] <=> /\ i \in Live /\ Collects(i)
                     /\ \A j \in DOMAIN page: j < i /\ outer[j] => i >= EndOf(j, Live)
    BY <1>7, <2>1
  <2> QED
    BY <1>8, <2>2, <2>3
<1> QED
  BY <1>0, <1>6, <1>9

-----------------------------------------------------------------------------
(* The text being collected, and what each token does to it *)

\* The pieces of text there are.
Pieces == {page[i].text: i \in DOMAIN page}

\* A capture that has just begun.
NewCapture(target, ref, tag) ==
    [target |-> target, ref |-> ref, tag |-> tag.name, depth |-> 1, text |-> <<>>]

\* The elements whose text is collected, and what for: a label, else a message, else a tile.
IsLabelFor(tag)  == tag.name = "label" /\ tag.for >= 0
IsTile(tag)      == ~IsFieldError(tag.id) /\ tag.device >= 0 /\ tag.name # "input"
CollectsTag(tag) == ~tag.closed /\ (IsLabelFor(tag) \/ IsFieldError(tag.id) \/ IsTile(tag))
Target(tag)      == IF IsLabelFor(tag) THEN "label"
                    ELSE IF IsFieldError(tag.id) THEN "error" ELSE "tile"

\* The same capture and messages.
SameTexts(t, s) == t.capture = s.capture /\ t.errors = s.errors

\* Begin starts a capture where none is under way.
LEMMA BeginTexts ==
    ASSUME NEW s, DOMAIN s = Parts, NEW target, NEW ref, NEW tag
    PROVE  LET t == Begin(s, target, ref, tag)
           IN  /\ DOMAIN t = Parts /\ t.errors = s.errors
               /\ t.capture = IF s.capture = NoCapture /\ ~tag.closed
                              THEN NewCapture(target, ref, tag) ELSE s.capture
BY DEF Begin, Parts, NewCapture

\* Opened may start one for a label.
LEMMA OpenedTexts ==
    ASSUME NEW s, DOMAIN s = Parts, NEW tag
    PROVE  LET t == Opened(s, tag)
           IN  /\ DOMAIN t = Parts /\ t.errors = s.errors
               /\ t.capture = IF s.capture = NoCapture /\ ~tag.closed /\ IsLabelFor(tag)
                              THEN NewCapture("label", tag.for, tag) ELSE s.capture
<1>1. CASE IsLabelFor(tag)
  <2>1. Opened(s, tag) = Begin(s, "label", tag.for, tag)
    BY <1>1 DEF Opened, IsLabelFor
  <2> QED
    BY <1>1, <2>1, BeginTexts
<1>2. CASE ~IsLabelFor(tag)
  <2>1. CASE tag.name \in {"input", "button"}
    <3>1. Opened(s, tag) = Control(s, tag)
      BY <2>1 DEF Opened
    <3>2. DOMAIN Control(s, tag) = Parts /\ SameTexts(Control(s, tag), s)
      <4> DEFINE seen == [s EXCEPT !.suspicious = @ \/ tag.away]
      <4>1. DOMAIN seen = Parts /\ SameTexts(seen, s)
        BY DEF Parts, SameTexts
      <4>2. \/ Control(s, tag) = seen
            \/ Control(s, tag) = [seen EXCEPT !.suspicious = TRUE]
            \/ \E controls: Control(s, tag) = [seen EXCEPT !.controls = controls]
        BY DEF Control
      <4> HIDE DEF seen
      <4> QED
        BY <4>1, <4>2 DEF Parts, SameTexts
    <3> QED
      BY <1>2, <3>1, <3>2 DEF SameTexts
  <2>2. CASE tag.name = "form"
    <3>1. \/ Opened(s, tag) = [s EXCEPT !.suspicious = TRUE]
          \/ Opened(s, tag) = [s EXCEPT !.inForm = TRUE, !.forms = @ + 1,
                                        !.action = tag.action, !.post = tag.post]
      BY <2>2 DEF Opened
    <3> QED
      BY <1>2, <3>1 DEF Parts
  <2>3. CASE tag.name \notin {"input", "button", "form"}
    <3>1. Opened(s, tag) = s
      BY <1>2, <2>3 DEF Opened, IsLabelFor
    <3> QED
      BY <1>2, <3>1
  <2> QED
    BY <2>1, <2>2, <2>3
<1> QED
  BY <1>1, <1>2

\* Marked may start one for a message or a tile.
LEMMA MarkedTexts ==
    ASSUME NEW s, DOMAIN s = Parts, NEW tag, tag.device \in Int
    PROVE  LET t == Marked(s, tag)
           IN  /\ DOMAIN t = Parts /\ t.errors = s.errors
               /\ IF s.capture = NoCapture /\ ~tag.closed /\ (IsFieldError(tag.id) \/ IsTile(tag))
                  THEN \E ref: t.capture =
                           NewCapture(IF IsFieldError(tag.id) THEN "error" ELSE "tile", ref, tag)
                  ELSE t.capture = s.capture
<1>1. CASE IsFieldError(tag.id)
  <2>1. Marked(s, tag) = Begin(s, "error", 0, tag)
    BY <1>1 DEF Marked
  <2> QED
    BY <1>1, <2>1, BeginTexts
<1>2. CASE ~IsFieldError(tag.id) /\ tag.device < 0
  <2>1. Marked(s, tag) = s /\ ~IsTile(tag)
    BY <1>2 DEF Marked, IsTile
  <2> QED
    BY <1>2, <2>1
<1>3. CASE ~IsFieldError(tag.id) /\ ~(tag.device < 0)
  <2> DEFINE tile  == [index |-> tag.device, credential |-> Credential(tag),
                       isInput |-> tag.name = "input", text |-> <<>>]
             added == [s EXCEPT !.tiles = Append(@, tile)]
  <2>1. DOMAIN added = Parts /\ SameTexts(added, s)
    BY DEF Parts, SameTexts
  <2>2. Marked(s, tag) = IF tile.isInput THEN added ELSE Begin(added, "tile", Len(added.tiles), tag)
    BY <1>3 DEF Marked
  <2>3. tile.isInput <=> ~IsTile(tag)
    <3>1. tag.device >= 0
      BY <1>3
    <3>2. tile.isInput <=> tag.name = "input"
      OBVIOUS
    <3> QED
      BY <1>3, <3>1, <3>2 DEF IsTile
  <2> HIDE DEF added, tile
  <2>4. CASE ~IsTile(tag)
    BY <1>3, <2>1, <2>2, <2>3, <2>4 DEF SameTexts
  <2>5. CASE IsTile(tag)
    BY <1>3, <2>1, <2>2, <2>3, <2>5, BeginTexts DEF SameTexts
  <2> QED
    BY <2>4, <2>5
<1> QED
  BY <1>1, <1>2, <1>3

\* What is collected is some element's.
Whole(c) ==
    /\ {"target", "tag", "depth", "text"} \subseteq DOMAIN c
    /\ c # NoCapture => c.tag # Absent

\* What a start tag does to the text being collected.
LEMMA StartTexts ==
    ASSUME NEW s, DOMAIN s = Parts, NEW tag, tag.device \in Int, tag.closed \in BOOLEAN,
           tag.name # Absent, Whole(s.capture), s.templates \in Nat
    PROVE  LET t      == Start(s, tag)
               inside == s.templates + IF tag.name = "template" /\ ~tag.closed THEN 1 ELSE 0
           IN  /\ DOMAIN t = Parts /\ t.errors = s.errors
               /\ inside > 0 => t.capture = s.capture
               /\ inside = 0 /\ s.capture = NoCapture /\ ~CollectsTag(tag) => t.capture = NoCapture
               /\ inside = 0 /\ s.capture = NoCapture /\ CollectsTag(tag) =>
                      \E ref: t.capture = NewCapture(Target(tag), ref, tag)
               /\ inside = 0 /\ s.capture # NoCapture =>
                      t.capture = [s.capture EXCEPT !.depth =
                                      @ + IF s.capture.tag = tag.name /\ ~tag.closed THEN 1 ELSE 0]
<1> DEFINE nests   == tag.name = "template" /\ ~tag.closed
           inside  == [s EXCEPT !.templates = @ + IF nests THEN 1 ELSE 0]
           deepens == inside.capture.tag = tag.name /\ ~tag.closed
           entered == [inside EXCEPT !.capture.depth = @ + IF deepens THEN 1 ELSE 0]
           deeper  == [s.capture EXCEPT !.depth =
                          @ + IF s.capture.tag = tag.name /\ ~tag.closed THEN 1 ELSE 0]
<1>1. /\ DOMAIN inside = Parts /\ SameTexts(inside, s)
      /\ inside.templates = s.templates + IF nests THEN 1 ELSE 0
  BY DEF Parts, SameTexts
<1>2. Start(s, tag) = IF inside.templates > 0 THEN inside ELSE Marked(Opened(entered, tag), tag)
  BY DEF Start
<1>3. CASE inside.templates > 0
  <2> HIDE DEF inside
  <2> QED
    BY <1>1, <1>2, <1>3 DEF SameTexts
<1>4. CASE ~(inside.templates > 0)
  <2>1. DOMAIN entered = Parts /\ entered.capture = deeper /\ entered.errors = s.errors
    <3> HIDE DEF inside
    <3> QED
      BY <1>1 DEF Parts, SameTexts
  <2>2. s.capture = NoCapture => deeper = NoCapture
    <3>1. NoCapture.tag # tag.name
      BY DEF NoCapture
    <3>2. s.capture = NoCapture => deeper = [NoCapture EXCEPT !.depth = NoCapture.depth + 0]
      BY <3>1
    <3>3. [NoCapture EXCEPT !.depth = NoCapture.depth + 0] = NoCapture
      BY DEF NoCapture
    <3> QED
      BY <3>2, <3>3
  <2>3. s.capture # NoCapture => deeper # NoCapture
    <3>1. deeper.tag = s.capture.tag
      BY DEF Whole
    <3>2. NoCapture.tag = Absent
      BY DEF NoCapture
    <3> QED
      BY <3>1, <3>2 DEF Whole
  <2> HIDE DEF entered, deeper
  <2>4. /\ DOMAIN Opened(entered, tag) = Parts /\ Opened(entered, tag).errors = s.errors
        /\ Opened(entered, tag).capture =
               IF deeper = NoCapture /\ ~tag.closed /\ IsLabelFor(tag)
               THEN NewCapture("label", tag.for, tag) ELSE deeper
    BY <2>1, OpenedTexts
  <2>5. LET r == Opened(entered, tag)
            t == Marked(r, tag)
        IN  /\ DOMAIN t = Parts /\ t.errors = s.errors
            /\ IF r.capture = NoCapture /\ ~tag.closed /\ (IsFieldError(tag.id) \/ IsTile(tag))
               THEN \E ref: t.capture =
                        NewCapture(IF IsFieldError(tag.id) THEN "error" ELSE "tile", ref, tag)
               ELSE t.capture = r.capture
    BY <2>4, MarkedTexts
  <2>6. \A target, ref: NewCapture(target, ref, tag) # NoCapture
    <3>1. \A target, ref: NewCapture(target, ref, tag).tag = tag.name
      BY DEF NewCapture
    <3>2. NoCapture.tag = Absent
      BY DEF NoCapture
    <3> QED
      BY <3>1, <3>2
  <2> HIDE DEF inside
  <2>7. Start(s, tag) = Marked(Opened(entered, tag), tag)
    BY <1>2, <1>4
  <2>8. CASE s.capture # NoCapture
    BY <1>1, <1>4, <2>3, <2>4, <2>5, <2>7, <2>8 DEF deeper
  <2>9. CASE s.capture = NoCapture /\ ~CollectsTag(tag)
    BY <1>1, <1>4, <2>2, <2>4, <2>5, <2>7, <2>9 DEF CollectsTag
  <2>10. CASE s.capture = NoCapture /\ CollectsTag(tag) /\ IsLabelFor(tag)
    BY <1>1, <1>4, <2>2, <2>4, <2>5, <2>6, <2>7, <2>10 DEF CollectsTag, Target
  <2>11. CASE s.capture = NoCapture /\ CollectsTag(tag) /\ ~IsLabelFor(tag)
    BY <1>1, <1>4, <2>2, <2>4, <2>5, <2>7, <2>11 DEF CollectsTag, Target
  <2> QED
    BY <2>8, <2>9, <2>10, <2>11
<1> QED
  BY <1>3, <1>4

\* Whether anything of a text can be seen.
LEMMA VisibleSome ==
    ASSUME NEW text \in Seq(Pieces)
    PROVE  /\ Visible(text) \in Seq(Pieces)
           /\ Visible(text) # <<>> <=> \E k \in DOMAIN text: text[k] # Blank
<1> DEFINE seen == {i \in DOMAIN text: text[i] # Blank}
<1>1. /\ Sifted(text, seen) \in Seq(Pieces)
      /\ \A i \in seen: \E k \in DOMAIN Sifted(text, seen): Sifted(text, seen)[k] = text[i]
      /\ \A k \in DOMAIN Sifted(text, seen): \E i \in seen: Sifted(text, seen)[k] = text[i]
  <2>1. seen \in SUBSET (DOMAIN text)
    OBVIOUS
  <2> HIDE DEF seen
  <2> QED
    BY <2>1, SiftedElements
<1>2. Visible(text) = Sifted(text, seen)
  BY DEF Visible
<1>3. seen = {} <=> ~\E k \in DOMAIN text: text[k] # Blank
  OBVIOUS
<1> HIDE DEF seen
<1>4. Visible(text) = <<>> <=> DOMAIN Visible(text) = {}
  BY <1>1, <1>2
<1> QED
  BY <1>1, <1>2, <1>3, <1>4

\* What an end tag does to the text being collected.
LEMMA EndTexts ==
    ASSUME NEW s, DOMAIN s = Parts, NEW name, name # Absent, Whole(s.capture),
           s.capture # NoCapture => s.capture.target \in Targets
    PROVE  LET t    == End(s, name)
               text == Visible(s.capture.text)
           IN  /\ DOMAIN t = Parts
               /\ s.templates > 0 \/ s.capture = NoCapture \/ s.capture.tag # name =>
                      SameTexts(t, s)
               /\ ~(s.templates > 0) /\ s.capture # NoCapture /\ s.capture.tag = name =>
                      /\ s.capture.depth > 1 =>
                             /\ t.capture = [s.capture EXCEPT !.depth = @ - 1]
                             /\ t.errors = s.errors
                      /\ ~(s.capture.depth > 1) =>
                             /\ t.capture = NoCapture
                             /\ t.errors = IF s.capture.target = "error" /\ text # <<>>
                                           THEN Append(s.errors, text) ELSE s.errors
<1>1. CASE s.templates > 0
  <2>1. End(s, name) = [s EXCEPT !.templates = @ - IF name = "template" THEN 1 ELSE 0]
    BY <1>1 DEF End
  <2> QED
    BY <1>1, <2>1 DEF Parts, SameTexts
<1>2. CASE ~(s.templates > 0)
  <2> DEFINE left == [s EXCEPT !.inForm = @ /\ name # "form"]
  <2>1. DOMAIN left = Parts /\ left.capture = s.capture /\ left.errors = s.errors
    BY DEF Parts
  <2>2. End(s, name) = IF left.capture.tag # name THEN left
                       ELSE IF left.capture.depth > 1 THEN [left EXCEPT !.capture.depth = @ - 1]
                       ELSE Closed(left)
    BY <1>2 DEF End
  <2> HIDE DEF left
  <2>3. NoCapture.tag # name
    BY DEF NoCapture
  <2>4. CASE s.capture.tag # name
    BY <1>2, <2>1, <2>2, <2>4 DEF SameTexts
  <2>5. CASE s.capture.tag = name /\ s.capture.depth > 1
    <3>1. End(s, name) = [left EXCEPT !.capture.depth = @ - 1]
      BY <2>1, <2>2, <2>5
    <3> QED
      BY <1>2, <2>1, <2>3, <2>5, <3>1 DEF Parts
  <2>6. CASE s.capture.tag = name /\ ~(s.capture.depth > 1)
    <3> DEFINE done == [left EXCEPT !.capture = NoCapture]
               text == Visible(s.capture.text)
    <3>1. End(s, name) = Closed(left) /\ s.capture # NoCapture
      BY <2>1, <2>2, <2>3, <2>6
    <3>2. DOMAIN done = Parts /\ done.capture = NoCapture /\ done.errors = s.errors
      BY <2>1 DEF Parts
    <3>3. s.capture.target \in Targets
      BY <3>1
    <3>4. CASE s.capture.target = "label"
      <4>1. Closed(left) =
                [done EXCEPT !.labels = Append(@, [for |-> s.capture.ref, text |-> text])]
        BY <2>1, <3>4 DEF Closed
      <4> HIDE DEF done
      <4> QED
        BY <1>2, <2>6, <3>1, <3>2, <3>4, <4>1 DEF Parts
    <3>5. CASE s.capture.target = "tile"
      <4>1. Closed(left) = [done EXCEPT !.tiles[s.capture.ref].text = text]
        BY <2>1, <3>5 DEF Closed
      <4> HIDE DEF done
      <4> QED
        BY <1>2, <2>6, <3>1, <3>2, <3>5, <4>1 DEF Parts
    <3>6. CASE s.capture.target = "error"
      <4>1. Closed(left) = IF text = <<>> THEN done ELSE [done EXCEPT !.errors = Append(@, text)]
        BY <2>1, <3>6 DEF Closed
      <4> HIDE DEF done
      <4> QED
        BY <1>2, <2>6, <3>1, <3>2, <3>6, <4>1 DEF Parts
    <3> QED
      BY <3>3, <3>4, <3>5, <3>6 DEF Targets
  <2> QED
    BY <2>4, <2>5, <2>6
<1> QED
  BY <1>1, <1>2

\* What a piece of text does to it.
LEMMA TextTexts ==
    ASSUME NEW s, DOMAIN s = Parts, NEW piece
    PROVE  LET t == Text(s, piece)
           IN  /\ DOMAIN t = Parts /\ t.errors = s.errors
               /\ t.capture = IF s.templates = 0 /\ s.capture # NoCapture
                              THEN [s.capture EXCEPT !.text = Append(@, piece)] ELSE s.capture
BY DEF Text, Parts

-----------------------------------------------------------------------------
(* What a scan has collected *)

\* Some text of the element that begins at o, to be seen, up to the token n.
Shows(o, n) == \E j \in Live: o < j /\ j <= n /\ page[j].token = "text" /\ page[j].text # Blank

\* The text of the element that begins at o is being collected.
Holding(c, o, n) ==
    /\ o \in Collected(Live) /\ o <= n /\ EndOf(o, Live) > n
    /\ {"target", "tag", "depth", "text"} \subseteq DOMAIN c
    /\ c.tag = page[o].name /\ c.target = Target(page[o])
    /\ c.depth = Balance(o, n) /\ Balance(o, n) >= 1
    /\ c.text \in Seq(Pieces)
    /\ (\E k \in DOMAIN c.text: c.text[k] # Blank) <=> Shows(o, n)

\* Every element but o, of those collected so far, has ended.
OthersEnded(o, n) == \A i \in Collected(Live): i <= n /\ i # o => EndOf(i, Live) <= n

\* What a scan of the first n tokens has collected.
TextsOK(s, n) ==
    /\ DOMAIN s = Parts /\ s.templates = OpenTemplates[n] /\ s.errors \in Seq(Seq(Pieces))
    /\ s.errors # <<>> <=> \E i \in KeptMessages: EndOf(i, Live) <= n
    /\ \/ s.capture = NoCapture /\ OthersEnded(0, n)
       \/ \E o: Holding(s.capture, o, n) /\ OthersEnded(o, n)

\* Elements collected are live tokens of the page, and end after they begin.
LEMMA CollectedEnd ==
    ASSUME PageShape, NEW i \in Collected(Live)
    PROVE  /\ i \in 1..Len(page) /\ i \in Live /\ Collects(i)
           /\ EndOf(i, Live) \in 1..(Len(page) + 1) /\ EndOf(i, Live) > i
<1>1. i \in 1..Len(page) /\ i \in Live /\ Collects(i)
  BY CollectedAre
<1>2. 0 \in 0..Len(page)
  BY DEF PageShape
<1> QED
  BY <1>1, <1>2, EndAfter

\* Nothing is being collected, and the next token begins nothing.
LEMMA StaysIdle ==
    ASSUME PageShape, NEW n \in 0..(Len(page) - 1), NEW s, NEW t, TextsOK(s, n),
           s.capture = NoCapture, t.capture = NoCapture, t.errors = s.errors, DOMAIN t = Parts,
           t.templates = OpenTemplates[n + 1], OthersEnded(0, n),
           ~(n + 1 \in Live /\ Collects(n + 1))
    PROVE  TextsOK(t, n + 1)
<1>1. \A i \in Collected(Live): /\ i \in Nat /\ i # n + 1 /\ EndOf(i, Live) \in Nat
                                /\ EndOf(i, Live) > i /\ i # 0
  BY CollectedEnd DEF PageShape
<1>2. n \in Nat
  BY DEF PageShape
<1>3. \A i \in Collected(Live): i <= n + 1 => EndOf(i, Live) <= n
  BY <1>1, <1>2 DEF OthersEnded
<1>4. \A i \in Collected(Live): EndOf(i, Live) <= n + 1 <=> EndOf(i, Live) <= n
  BY <1>1, <1>2, <1>3
<1>5. \A i \in KeptMessages: i \in Collected(Live)
  BY DEF KeptMessages
<1>6. OthersEnded(0, n + 1)
  BY <1>1, <1>2, <1>3 DEF OthersEnded
<1>7. (\E i \in KeptMessages: EndOf(i, Live) <= n + 1) <=> \E i \in KeptMessages: EndOf(i, Live) <= n
  BY <1>4, <1>5
<1> QED
  BY <1>6, <1>7 DEF TextsOK

\* Nothing is being collected, and the next token begins an element that is.
LEMMA BeginsOne ==
    ASSUME PageShape, NEW n \in 0..(Len(page) - 1), NEW s, NEW t, NEW ref, TextsOK(s, n),
           s.capture = NoCapture, t.capture = NewCapture(Target(page[n + 1]), ref, page[n + 1]),
           t.errors = s.errors, DOMAIN t = Parts,
           t.templates = OpenTemplates[n + 1], OthersEnded(0, n),
           n + 1 \in Live, Collects(n + 1)
    PROVE  TextsOK(t, n + 1)
<1>0. n \in Nat /\ n + 1 \in 1..Len(page) /\ n + 1 \in 1..(n + 1) /\ Len(page) \in Nat
  BY DEF PageShape
<1>1. \A i \in Collected(Live): /\ i \in Nat /\ EndOf(i, Live) \in Nat
                                /\ EndOf(i, Live) > i /\ i # 0
  BY CollectedEnd DEF PageShape
<1>2. \A i \in Collected(Live): i < n + 1 => EndOf(i, Live) <= n
  BY <1>0, <1>1 DEF OthersEnded
<1>3. n + 1 \in Collected(Live)
  <2>1. \A i \in Collected(Live): i < n + 1 => n + 1 >= EndOf(i, Live)
    BY <1>0, <1>1, <1>2
  <2> QED
    BY <1>0, <2>1, CollectedAre
<1>4. EndOf(n + 1, Live) > n + 1
  BY <1>3, CollectedEnd
<1>5. Balance(n + 1, n + 1) = 1
  <2>1. Opens(n + 1, page[n + 1].name)
    BY DEF Opens, Starts, Collects
  <2>2. Balance(n + 1, n) = 0
    BY <1>0, BalanceNext
  <2>3. Balance(n + 1, n + 1) = Balance(n + 1, n) + 1
    BY <1>0, <2>1, BalanceNext
  <2> QED
    BY <2>2, <2>3
<1>6. ~Shows(n + 1, n + 1)
  <2>1. Live \subseteq Nat
    BY NextLive DEF PageShape
  <2> QED
    BY <1>0, <2>1 DEF Shows
<1>7. Holding(t.capture, n + 1, n + 1)
  <2> DEFINE c == t.capture
  <2>1. /\ {"target", "tag", "depth", "text"} \subseteq DOMAIN c /\ c.tag = page[n + 1].name
        /\ c.target = Target(page[n + 1]) /\ c.depth = 1 /\ c.text = <<>>
    BY DEF NewCapture
  <2>2. c.text \in Seq(Pieces) /\ ~\E k \in DOMAIN c.text: c.text[k] # Blank
    BY <2>1
  <2>3. n + 1 <= n + 1
    BY <1>0
  <2> HIDE DEF c
  <2>4. Holding(c, n + 1, n + 1)
    BY <1>3, <1>4, <1>5, <1>6, <2>1, <2>2, <2>3 DEF Holding
  <2> QED
    BY <2>4 DEF c
<1>8. OthersEnded(n + 1, n + 1)
  <2>1. \A i \in Collected(Live): i <= n + 1 /\ i # n + 1 => i < n + 1 /\ EndOf(i, Live) <= n + 1
    BY <1>0, <1>1, <1>2
  <2> QED
    BY <2>1 DEF OthersEnded
<1>9. (\E i \in KeptMessages: EndOf(i, Live) <= n + 1) <=> \E i \in KeptMessages: EndOf(i, Live) <= n
  <2>1. \A i \in KeptMessages: i \in Collected(Live)
    BY DEF KeptMessages
  <2>2. \A i \in Collected(Live): EndOf(i, Live) <= n + 1 <=> EndOf(i, Live) <= n
    BY <1>0, <1>1, <1>2, <1>4
  <2> QED
    BY <2>1, <2>2
<1> QED
  BY <1>7, <1>8, <1>9 DEF TextsOK

\* The element being collected goes on.
LEMMA GoesOn ==
    ASSUME PageShape, NEW n \in 0..(Len(page) - 1), NEW s, NEW t, NEW o, TextsOK(s, n),
           Holding(s.capture, o, n), OthersEnded(o, n), Balance(o, n + 1) >= 1,
           t.capture.tag = s.capture.tag, t.capture.target = s.capture.target,
           {"target", "tag", "depth", "text"} \subseteq DOMAIN t.capture,
           t.capture.depth = Balance(o, n + 1), t.capture.text \in Seq(Pieces),
           (\E k \in DOMAIN t.capture.text: t.capture.text[k] # Blank) <=> Shows(o, n + 1),
           t.errors = s.errors, DOMAIN t = Parts, t.templates = OpenTemplates[n + 1]
    PROVE  TextsOK(t, n + 1)
<1>0. n \in Nat /\ n + 1 \in 0..Len(page) /\ n \in 0..Len(page)
  BY DEF PageShape
<1>1. \A i \in Collected(Live): /\ i \in Nat /\ EndOf(i, Live) \in Nat
                                /\ EndOf(i, Live) > i /\ i \in 1..Len(page)
  BY CollectedEnd DEF PageShape
<1>2. o \in Collected(Live) /\ o <= n /\ EndOf(o, Live) > n
  BY DEF Holding
<1>3. EndOf(o, Live) > n + 1
  <2>1. \A j \in Live: j > o /\ j <= n => Balance(o, j) # 0
    BY <1>0, <1>1, <1>2, EndAfter
  <2>2. \A j \in Live: j <= n + 1 => j <= n \/ j = n + 1
    <3>1. Live \subseteq Nat
      BY NextLive DEF PageShape
    <3> QED
      BY <1>0, <3>1
  <2>3. Balance(o, n + 1) # 0
    OBVIOUS
  <2>4. \A j \in Live: j > o /\ j <= n + 1 => Balance(o, j) # 0
    BY <2>1, <2>2, <2>3
  <2> QED
    BY <1>0, <1>1, <1>2, <2>4, EndAfter
<1>4. \A i \in Collected(Live): i <= n + 1 /\ i # o => i <= n
  <2>1. n + 1 \notin Collected(Live)
    <3>1. ASSUME n + 1 \in Collected(Live) PROVE FALSE
      <4>1. o < n + 1
        BY <1>0, <1>1, <1>2
      <4>2. n + 1 >= EndOf(o, Live)
        BY <1>2, <3>1, <4>1, CollectedAre
      <4> QED
        BY <1>0, <1>1, <1>2, <1>3, <4>2
    <3> QED
      BY <3>1
  <2> QED
    BY <1>0, <1>1, <2>1
<1>5. OthersEnded(o, n + 1)
  BY <1>0, <1>1, <1>4 DEF OthersEnded
<1>6. \A i \in Collected(Live): EndOf(i, Live) <= n + 1 <=> EndOf(i, Live) <= n
  <2>1. ASSUME NEW i \in Collected(Live), EndOf(i, Live) <= n + 1 PROVE EndOf(i, Live) <= n
    <3>1. i <= n + 1 /\ i # o
      BY <1>0, <1>1, <1>2, <1>3, <2>1
    <3> QED
      BY <1>4, <3>1 DEF OthersEnded
  <2> QED
    BY <1>0, <1>1, <2>1
<1>7. (\E i \in KeptMessages: EndOf(i, Live) <= n + 1) <=> \E i \in KeptMessages: EndOf(i, Live) <= n
  BY <1>6 DEF KeptMessages
<1>8. o <= n + 1
  BY <1>0, <1>1, <1>2
<1>9. Holding(t.capture, o, n + 1)
  BY <1>2, <1>3, <1>8 DEF Holding
<1> QED
  BY <1>5, <1>7, <1>9 DEF TextsOK

\* The element being collected ends.
LEMMA EndsOne ==
    ASSUME PageShape, NEW n \in 0..(Len(page) - 1), NEW s, NEW t, NEW o, TextsOK(s, n),
           Holding(s.capture, o, n), OthersEnded(o, n),
           n + 1 \in Live, Balance(o, n + 1) = 0, page[n + 1].token = "end",
           t.capture = NoCapture,
           t.errors = IF s.capture.target = "error" /\ Visible(s.capture.text) # <<>>
                      THEN Append(s.errors, Visible(s.capture.text)) ELSE s.errors,
           DOMAIN t = Parts, t.templates = OpenTemplates[n + 1]
    PROVE  TextsOK(t, n + 1)
<1>0. n \in Nat /\ n + 1 \in 0..Len(page) /\ n \in 0..Len(page) /\ Len(page) \in Nat
  BY DEF PageShape
<1>1. \A i \in Collected(Live): /\ i \in Nat /\ EndOf(i, Live) \in Nat
                                /\ EndOf(i, Live) > i /\ i \in 1..Len(page)
  BY CollectedEnd DEF PageShape
<1>2. o \in Collected(Live) /\ o <= n /\ EndOf(o, Live) > n
  BY DEF Holding
<1>3. EndOf(o, Live) = n + 1
  <2>1. ~(EndOf(o, Live) > n + 1)
    <3>1. n + 1 > o /\ n + 1 <= n + 1
      BY <1>0, <1>1, <1>2
    <3> QED
      BY <1>0, <1>1, <1>2, <3>1, EndAfter
  <2> QED
    BY <1>0, <1>1, <1>2, <2>1
<1>4. n + 1 \notin Collected(Live)
  BY CollectedEnd DEF Collects
<1>5. OthersEnded(0, n + 1)
  <2>1. ASSUME NEW i \in Collected(Live), i <= n + 1 PROVE EndOf(i, Live) <= n + 1
    <3>1. i <= n
      BY <1>0, <1>1, <1>4, <2>1
    <3>2. CASE i = o
      BY <1>0, <1>3, <3>2
    <3>3. CASE i # o
      BY <1>0, <1>1, <3>1, <3>3 DEF OthersEnded
    <3> QED
      BY <3>2, <3>3
  <2> QED
    BY <2>1 DEF OthersEnded
<1>6. s.capture.text \in Seq(Pieces) /\ s.capture.target = Target(page[o])
  BY DEF Holding
<1>7. Visible(s.capture.text) \in Seq(Pieces) /\ (Visible(s.capture.text) # <<>> <=> Shows(o, n))
  BY <1>6, VisibleSome DEF Holding
<1>8. s.capture.target = "error" <=>
          IsFieldError(page[o].id) /\ ~LabelFor(o)
  BY <1>6 DEF Target, IsLabelFor, LabelFor
<1>9. Shows(o, n) <=> \E j \in Live: /\ o < j /\ j < EndOf(o, Live)
                                     /\ page[j].token = "text" /\ page[j].text # Blank
  <2>1. \A j \in Live: j < n + 1 <=> j <= n
    <3>1. Live \subseteq Nat
      BY NextLive DEF PageShape
    <3> QED
      BY <1>0, <3>1
  <2> QED
    BY <1>3, <2>1 DEF Shows
<1>10. o \in KeptMessages <=> s.capture.target = "error" /\ Visible(s.capture.text) # <<>>
  <2>1. EndOf(o, Live) <= Len(page)
    BY <1>0, <1>3
  <2> QED
    BY <1>2, <1>7, <1>8, <1>9, <2>1 DEF KeptMessages
<1>11. t.errors \in Seq(Seq(Pieces))
  BY <1>7 DEF TextsOK
<1>12. t.errors # <<>> <=> s.errors # <<>> \/ o \in KeptMessages
  <2>1. \A e, x: e \in Seq(Seq(Pieces)) /\ x \in Seq(Pieces) => Append(e, x) # <<>>
    <3>1. ASSUME NEW e \in Seq(Seq(Pieces)), NEW x \in Seq(Pieces) PROVE Append(e, x) # <<>>
      <4>1. Len(e) + 1 \in DOMAIN Append(e, x)
        BY Appended
      <4> QED
        BY <4>1
    <3> QED
      BY <3>1
  <2> QED
    BY <1>7, <1>10, <2>1 DEF TextsOK
<1>13. (\E i \in KeptMessages: EndOf(i, Live) <= n + 1) <=>
           (\E i \in KeptMessages: EndOf(i, Live) <= n) \/ o \in KeptMessages
  <2>1. \A i \in KeptMessages: i \in Collected(Live)
    BY DEF KeptMessages
  <2>2. ASSUME NEW i \in Collected(Live), i # o, EndOf(i, Live) <= n + 1 PROVE EndOf(i, Live) <= n
    <3>1. i <= n
      BY <1>0, <1>1, <1>4, <2>2
    <3> QED
      BY <2>2, <3>1 DEF OthersEnded
  <2>3. \A i \in Collected(Live): EndOf(i, Live) <= n => EndOf(i, Live) <= n + 1
    BY <1>0, <1>1
  <2>4. EndOf(o, Live) <= n + 1
    BY <1>0, <1>3
  <2> QED
    BY <2>1, <2>2, <2>3, <2>4
<1>14. t.errors # <<>> <=> \E i \in KeptMessages: EndOf(i, Live) <= n + 1
  BY <1>12, <1>13 DEF TextsOK
<1> QED
  BY <1>5, <1>11, <1>14 DEF TextsOK

\* What is collected is some element's.
LEMMA HeldIsWhole ==
    ASSUME PageShape, NEW s, NEW o, NEW n, Holding(s.capture, o, n)
    PROVE  /\ s.capture # NoCapture /\ Whole(s.capture) /\ s.capture.target \in Targets
           /\ o \in 1..Len(page) /\ s.capture.tag = page[o].name /\ page[o].name # Absent
<1>1. o \in 1..Len(page) /\ Collects(o) /\ page[o].name # Absent
  BY CollectedEnd DEF Holding, PageShape, Collects
<1>2. NoCapture.tag = Absent
  BY DEF NoCapture
<1>3. s.capture.tag = page[o].name /\ s.capture.target \in {"label", "tile", "error"}
  BY DEF Holding, Target
<1> QED
  BY <1>1, <1>2, <1>3 DEF Whole, Holding, Targets

\* No capture is whole.
LEMMA NoneIsWhole == Whole(NoCapture)
BY DEF Whole, NoCapture

\* Between two tokens of which the second shows nothing, nothing more is shown.
LEMMA ShowsNext ==
    ASSUME PageShape, NEW n \in 0..(Len(page) - 1), NEW o, o <= n, o \in Nat
    PROVE  Shows(o, n + 1) <=>
               \/ Shows(o, n)
               \/ n + 1 \in Live /\ page[n + 1].token = "text" /\ page[n + 1].text # Blank
<1>1. Live \subseteq Nat /\ n \in Nat
  BY NextLive DEF PageShape
<1>2. \A j \in Live: j <= n + 1 <=> j <= n \/ j = n + 1
  BY <1>1
<1>3. o < n + 1
  BY <1>1
<1> QED
  BY <1>2, <1>3 DEF Shows

\* A start tag.
LEMMA StartCollects ==
    ASSUME PageShape, NEW n \in 0..(Len(page) - 1), NEW s, ScanOK(s, n),
           TextsOK(s, n), page[n + 1].token = "start"
    PROVE  TextsOK(Start(s, page[n + 1]), n + 1)
<1> DEFINE tag    == page[n + 1]
           t      == Start(s, tag)
           inside == s.templates + IF tag.name = "template" /\ ~tag.closed THEN 1 ELSE 0
<1>1. n \in Nat /\ n + 1 \in 1..Len(page) /\ (n + 1) - 1 = n
  BY DEF PageShape
<1>2. OpenTemplates[n] \in Nat /\ s.templates = OpenTemplates[n]
  <2>1. n \in 0..Len(page) /\ Len(page) \in Nat
    BY DEF PageShape
  <2>2. OpenTemplates[n] \in Nat
    BY <2>1, TemplatesCounted
  <2>3. s.templates = OpenTemplates[n]
    BY DEF TextsOK
  <2> QED
    BY <2>2, <2>3
<1>3. OpenTemplates[n + 1] = inside
  <2>1. ~Ends(n + 1, "template")
    BY DEF Ends
  <2>2. Opens(n + 1, "template") <=> tag.name = "template" /\ ~tag.closed
    BY DEF Opens, Starts
  <2> QED
    BY <1>1, <1>2, <2>1, <2>2, TemplatesCounted DEF PageShape
<1>4. t.templates = inside
  BY <1>3, StartScanned DEF ScanOK
<1>5. tag.device \in Int /\ tag.for \in Int /\ tag.closed \in BOOLEAN /\ tag.name # Absent
  BY <1>1 DEF PageShape
<1>6. Collects(n + 1) <=> CollectsTag(tag)
  <2>1. tag.device < 0 \/ tag.device >= 0
    BY <1>5
  <2> QED
    BY <1>5, <2>1 DEF Collects, CollectsTag, LabelFor, IsLabelFor, IsTile
<1>7. n + 1 \in Live <=> inside = 0
  <2> HIDE DEF inside
  <2>1. s.templates = 0 \/ inside # 0
    BY <1>2 DEF inside
  <2> QED
    BY <1>2, <1>3, <2>1, NextLive
<1>8. inside \in Nat /\ (inside > 0 <=> inside # 0)
  BY <1>2
<1>9. Whole(s.capture)
  BY HeldIsWhole, NoneIsWhole DEF TextsOK
<1>10. /\ DOMAIN t = Parts /\ t.errors = s.errors
       /\ inside > 0 => t.capture = s.capture
       /\ inside = 0 /\ s.capture = NoCapture /\ ~CollectsTag(tag) => t.capture = NoCapture
       /\ inside = 0 /\ s.capture = NoCapture /\ CollectsTag(tag) =>
              \E ref: t.capture = NewCapture(Target(tag), ref, tag)
       /\ inside = 0 /\ s.capture # NoCapture =>
              t.capture = [s.capture EXCEPT !.depth =
                              @ + IF s.capture.tag = tag.name /\ ~tag.closed THEN 1 ELSE 0]
  BY <1>2, <1>5, <1>9, StartTexts DEF TextsOK
<1> HIDE DEF inside, t
<1>11. CASE s.capture = NoCapture /\ OthersEnded(0, n)
  <2>1. CASE ~(n + 1 \in Live /\ Collects(n + 1))
    <3>1. t.capture = NoCapture
      BY <1>6, <1>7, <1>8, <1>10, <1>11, <2>1
    <3>2. TextsOK(t, n + 1)
      BY <1>3, <1>4, <1>10, <1>11, <2>1, <3>1, StaysIdle
    <3> QED
      BY <3>2 DEF t
  <2>2. CASE n + 1 \in Live /\ Collects(n + 1)
    <3>1. PICK ref: t.capture = NewCapture(Target(tag), ref, tag)
      BY <1>6, <1>7, <1>10, <1>11, <2>2
    <3>2. TextsOK(t, n + 1)
      BY <1>3, <1>4, <1>10, <1>11, <2>2, <3>1, BeginsOne
    <3> QED
      BY <3>2 DEF t
  <2> QED
    BY <2>1, <2>2
<1>12. ASSUME NEW o, Holding(s.capture, o, n), OthersEnded(o, n)
       PROVE  TextsOK(t, n + 1)
  <2>1. /\ s.capture # NoCapture /\ Whole(s.capture) /\ o \in 1..Len(page)
        /\ s.capture.tag = page[o].name
    BY <1>12, HeldIsWhole
  <2>2. /\ o <= n /\ {"target", "tag", "depth", "text"} \subseteq DOMAIN s.capture
        /\ s.capture.depth = Balance(o, n) /\ Balance(o, n) >= 1 /\ s.capture.text \in Seq(Pieces)
        /\ (\E k \in DOMAIN s.capture.text: s.capture.text[k] # Blank) <=> Shows(o, n)
    BY <1>12 DEF Holding
  <2>3. o \in 1..(n + 1) /\ o \in Nat
    BY <1>1, <2>1, <2>2
  <2>4. Shows(o, n + 1) <=> Shows(o, n)
    BY <2>2, <2>3, ShowsNext
  <2>5. ~Ends(n + 1, page[o].name)
    BY DEF Ends
  <2>6. Balance(o, n) \in Int
    BY <2>3, BalanceNext
  <2>7. Balance(o, n + 1) = IF n + 1 \in Live /\ s.capture.tag = tag.name /\ ~tag.closed
                            THEN Balance(o, n) + 1 ELSE Balance(o, n)
    <3>1. Opens(n + 1, page[o].name) <=> s.capture.tag = tag.name /\ ~tag.closed
      BY <2>1 DEF Opens, Starts
    <3> QED
      BY <2>3, <2>5, <3>1, BalanceNext
  <2>8. Balance(o, n + 1) >= 1
    BY <2>2, <2>6, <2>7
  <2>9. /\ t.capture.tag = s.capture.tag /\ t.capture.target = s.capture.target
        /\ {"target", "tag", "depth", "text"} \subseteq DOMAIN t.capture
        /\ t.capture.text = s.capture.text /\ t.capture.depth = Balance(o, n + 1)
    <3>1. CASE inside > 0
      BY <1>7, <1>8, <1>10, <2>2, <2>7, <3>1
    <3>2. CASE inside = 0
      <4> DEFINE deeper == IF s.capture.tag = tag.name /\ ~tag.closed THEN 1 ELSE 0
      <4>1. t.capture = [s.capture EXCEPT !.depth = @ + deeper]
        BY <1>10, <2>1, <3>2
      <4> HIDE DEF deeper
      <4>2. /\ t.capture.tag = s.capture.tag /\ t.capture.target = s.capture.target
            /\ DOMAIN t.capture = DOMAIN s.capture
            /\ t.capture.text = s.capture.text /\ t.capture.depth = s.capture.depth + deeper
        BY <2>2, <4>1
      <4>3. Balance(o, n + 1) = Balance(o, n) + deeper
        BY <1>7, <2>6, <2>7, <3>2 DEF deeper
      <4> QED
        BY <2>2, <4>2, <4>3
    <3> QED
      BY <1>8, <3>1, <3>2
  <2> QED
    <3>1. /\ t.capture.text \in Seq(Pieces)
          /\ (\E k \in DOMAIN t.capture.text: t.capture.text[k] # Blank) <=> Shows(o, n + 1)
      BY <2>2, <2>4, <2>9
    <3>2. t.templates = OpenTemplates[n + 1] /\ t.errors = s.errors /\ DOMAIN t = Parts
      BY <1>3, <1>4, <1>10
    <3> QED
      BY <1>12, <2>8, <2>9, <3>1, <3>2, GoesOn
<1>13. TextsOK(t, n + 1)
  BY <1>11, <1>12 DEF TextsOK, t
<1> QED
  BY <1>13 DEF t

\* An end tag.
LEMMA EndCollects ==
    ASSUME PageShape, NEW n \in 0..(Len(page) - 1), NEW s, ScanOK(s, n), TextsOK(s, n),
           page[n + 1].token = "end"
    PROVE  TextsOK(End(s, page[n + 1].name), n + 1)
<1> DEFINE name == page[n + 1].name
           t    == End(s, name)
<1>1. n \in Nat /\ n + 1 \in 1..Len(page) /\ (n + 1) - 1 = n
  BY DEF PageShape
<1>2. OpenTemplates[n] \in Nat /\ s.templates = OpenTemplates[n] /\ OpenTemplates[n + 1] \in Nat
  <2>1. n \in 0..Len(page) /\ n + 1 \in 0..Len(page) /\ Len(page) \in Nat
    BY DEF PageShape
  <2>2. OpenTemplates[n] \in Nat /\ OpenTemplates[n + 1] \in Nat
    BY <2>1, TemplatesCounted
  <2>3. s.templates = OpenTemplates[n]
    BY DEF TextsOK
  <2> QED
    BY <2>2, <2>3
<1>3. t.templates = OpenTemplates[n + 1]
  BY EndScanned DEF ScanOK
<1>4. name # Absent
  BY <1>1 DEF PageShape
<1>5. n + 1 \in Live <=> ~(s.templates > 0)
  <2>1. ~Opens(n + 1, "template")
    BY DEF Opens, Starts
  <2>2. OpenTemplates[n + 1] = IF Ends(n + 1, "template") /\ OpenTemplates[n] > 0
                               THEN OpenTemplates[n] - 1 ELSE OpenTemplates[n]
    BY <1>1, <2>1, TemplatesCounted DEF PageShape
  <2> QED
    BY <1>2, <2>2, NextLive
<1>6. ~Collects(n + 1)
  BY DEF Collects
<1>7. Whole(s.capture) /\ (s.capture # NoCapture => s.capture.target \in Targets)
  BY HeldIsWhole, NoneIsWhole DEF TextsOK
<1>8. /\ DOMAIN t = Parts
      /\ s.templates > 0 \/ s.capture = NoCapture \/ s.capture.tag # name => SameTexts(t, s)
      /\ ~(s.templates > 0) /\ s.capture # NoCapture /\ s.capture.tag = name =>
             /\ s.capture.depth > 1 =>
                    /\ t.capture = [s.capture EXCEPT !.depth = @ - 1]
                    /\ t.errors = s.errors
             /\ ~(s.capture.depth > 1) =>
                    /\ t.capture = NoCapture
                    /\ t.errors = IF s.capture.target = "error" /\ Visible(s.capture.text) # <<>>
                                  THEN Append(s.errors, Visible(s.capture.text)) ELSE s.errors
  BY <1>4, <1>7, EndTexts DEF TextsOK
<1> HIDE DEF t
<1>9. CASE s.capture = NoCapture /\ OthersEnded(0, n)
  <2>1. t.capture = NoCapture /\ t.errors = s.errors
    BY <1>8, <1>9 DEF SameTexts
  <2>2. TextsOK(t, n + 1)
    BY <1>3, <1>6, <1>8, <1>9, <2>1, StaysIdle
  <2> QED
    BY <2>2 DEF t
<1>10. ASSUME NEW o, Holding(s.capture, o, n), OthersEnded(o, n)
       PROVE  TextsOK(t, n + 1)
  <2>1. /\ s.capture # NoCapture /\ o \in 1..Len(page) /\ s.capture.tag = page[o].name
    BY <1>10, HeldIsWhole
  <2>2. /\ o <= n /\ {"target", "tag", "depth", "text"} \subseteq DOMAIN s.capture
        /\ s.capture.depth = Balance(o, n) /\ Balance(o, n) >= 1 /\ s.capture.text \in Seq(Pieces)
        /\ (\E k \in DOMAIN s.capture.text: s.capture.text[k] # Blank) <=> Shows(o, n)
    BY <1>10 DEF Holding
  <2>3. o \in 1..(n + 1) /\ o \in Nat
    BY <1>1, <2>1, <2>2
  <2>4. Shows(o, n + 1) <=> Shows(o, n)
    BY <2>2, <2>3, ShowsNext
  <2>5. ~Opens(n + 1, page[o].name)
    BY DEF Opens, Starts
  <2>6. Balance(o, n) \in Int
    BY <2>3, BalanceNext
  <2>7. Balance(o, n + 1) = IF ~(s.templates > 0) /\ s.capture.tag = name
                            THEN Balance(o, n) - 1 ELSE Balance(o, n)
    <3>1. Ends(n + 1, page[o].name) <=> s.capture.tag = name
      BY <2>1 DEF Ends
    <3> QED
      BY <1>5, <2>3, <2>5, <3>1, BalanceNext
  <2>8. CASE s.templates > 0 \/ s.capture.tag # name
    <3>1. t.capture = s.capture /\ t.errors = s.errors
      BY <1>8, <2>8 DEF SameTexts
    <3>2. Balance(o, n + 1) = Balance(o, n)
      BY <2>7, <2>8
    <3>3. /\ t.capture.tag = s.capture.tag /\ t.capture.target = s.capture.target
          /\ {"target", "tag", "depth", "text"} \subseteq DOMAIN t.capture
          /\ t.capture.depth = Balance(o, n + 1) /\ Balance(o, n + 1) >= 1
          /\ t.capture.text \in Seq(Pieces)
          /\ (\E k \in DOMAIN t.capture.text: t.capture.text[k] # Blank) <=> Shows(o, n + 1)
      BY <2>2, <2>4, <3>1, <3>2
    <3> QED
      BY <1>3, <1>8, <1>10, <3>1, <3>3, GoesOn
  <2>9. CASE ~(s.templates > 0) /\ s.capture.tag = name /\ s.capture.depth > 1
    <3>1. t.capture = [s.capture EXCEPT !.depth = @ - 1] /\ t.errors = s.errors
      BY <1>8, <2>1, <2>9
    <3>2. Balance(o, n + 1) = Balance(o, n) - 1 /\ Balance(o, n + 1) >= 1
      BY <2>2, <2>6, <2>7, <2>9
    <3>3. /\ t.capture.tag = s.capture.tag /\ t.capture.target = s.capture.target
          /\ DOMAIN t.capture = DOMAIN s.capture /\ t.capture.text = s.capture.text
          /\ t.capture.depth = s.capture.depth - 1
      BY <2>2, <3>1
    <3>4. /\ {"target", "tag", "depth", "text"} \subseteq DOMAIN t.capture
          /\ t.capture.depth = Balance(o, n + 1) /\ t.capture.text \in Seq(Pieces)
          /\ (\E k \in DOMAIN t.capture.text: t.capture.text[k] # Blank) <=> Shows(o, n + 1)
      BY <2>2, <2>4, <3>2, <3>3
    <3> QED
      BY <1>3, <1>8, <1>10, <3>1, <3>2, <3>3, <3>4, GoesOn
  <2>10. CASE ~(s.templates > 0) /\ s.capture.tag = name /\ ~(s.capture.depth > 1)
    <3>1. /\ t.capture = NoCapture
          /\ t.errors = IF s.capture.target = "error" /\ Visible(s.capture.text) # <<>>
                        THEN Append(s.errors, Visible(s.capture.text)) ELSE s.errors
      BY <1>8, <2>1, <2>10
    <3>2. Balance(o, n + 1) = 0
      BY <2>2, <2>6, <2>7, <2>10
    <3>3. n + 1 \in Live
      BY <1>5, <2>10
    <3> QED
      BY <1>3, <1>8, <1>10, <3>1, <3>2, <3>3, EndsOne
  <2> QED
    BY <2>8, <2>9, <2>10
<1>11. TextsOK(t, n + 1)
  BY <1>9, <1>10 DEF TextsOK, t
<1> QED
  BY <1>11 DEF t

\* A piece of text.
LEMMA TextCollects ==
    ASSUME PageShape, NEW n \in 0..(Len(page) - 1), NEW s, ScanOK(s, n), TextsOK(s, n),
           page[n + 1].token = "text"
    PROVE  TextsOK(Text(s, page[n + 1].text), n + 1)
<1> DEFINE piece == page[n + 1].text
           t     == Text(s, piece)
<1>1. n \in Nat /\ n + 1 \in 1..Len(page) /\ (n + 1) - 1 = n
  BY DEF PageShape
<1>2. OpenTemplates[n] \in Nat /\ s.templates = OpenTemplates[n]
  <2>1. n \in 0..Len(page) /\ Len(page) \in Nat
    BY DEF PageShape
  <2>2. OpenTemplates[n] \in Nat
    BY <2>1, TemplatesCounted
  <2>3. s.templates = OpenTemplates[n]
    BY DEF TextsOK
  <2> QED
    BY <2>2, <2>3
<1>3. t.templates = OpenTemplates[n + 1]
  BY TextScanned DEF ScanOK
<1>4. n + 1 \in Live <=> s.templates = 0
  <2>1. ~Opens(n + 1, "template") /\ ~Ends(n + 1, "template")
    BY DEF Opens, Starts, Ends
  <2>2. OpenTemplates[n + 1] = OpenTemplates[n]
    BY <1>1, <2>1, TemplatesCounted DEF PageShape
  <2> QED
    BY <1>2, <2>2, NextLive
<1>5. ~Collects(n + 1)
  BY DEF Collects
<1>6. /\ DOMAIN t = Parts /\ t.errors = s.errors
      /\ t.capture = IF s.templates = 0 /\ s.capture # NoCapture
                     THEN [s.capture EXCEPT !.text = Append(@, piece)] ELSE s.capture
  BY TextTexts DEF TextsOK
<1>7. piece \in Pieces
  BY <1>1 DEF Pieces, PageShape
<1> HIDE DEF t, piece
<1>8. CASE s.capture = NoCapture /\ OthersEnded(0, n)
  <2>1. t.capture = NoCapture
    BY <1>6, <1>8
  <2>2. TextsOK(t, n + 1)
    BY <1>3, <1>5, <1>6, <1>8, <2>1, StaysIdle
  <2> QED
    BY <2>2 DEF t, piece
<1>9. ASSUME NEW o, Holding(s.capture, o, n), OthersEnded(o, n)
      PROVE  TextsOK(t, n + 1)
  <2>1. s.capture # NoCapture /\ o \in 1..Len(page)
    BY <1>9, HeldIsWhole
  <2>2. /\ o <= n /\ {"target", "tag", "depth", "text"} \subseteq DOMAIN s.capture
        /\ s.capture.depth = Balance(o, n) /\ Balance(o, n) >= 1 /\ s.capture.text \in Seq(Pieces)
        /\ (\E k \in DOMAIN s.capture.text: s.capture.text[k] # Blank) <=> Shows(o, n)
    BY <1>9 DEF Holding
  <2>3. o \in 1..(n + 1) /\ o \in Nat
    BY <1>1, <2>1, <2>2
  <2>4. Shows(o, n + 1) <=> Shows(o, n) \/ (n + 1 \in Live /\ piece # Blank)
    BY <2>2, <2>3, ShowsNext DEF piece
  <2>5. Balance(o, n + 1) = Balance(o, n)
    <3>1. ~Opens(n + 1, page[o].name) /\ ~Ends(n + 1, page[o].name)
      BY DEF Opens, Starts, Ends
    <3> QED
      BY <2>3, <3>1, BalanceNext
  <2>6. CASE s.templates # 0
    <3>1. t.capture = s.capture
      BY <1>6, <2>6
    <3>2. /\ t.capture.depth = Balance(o, n + 1) /\ Balance(o, n + 1) >= 1
          /\ t.capture.text \in Seq(Pieces)
          /\ {"target", "tag", "depth", "text"} \subseteq DOMAIN t.capture
          /\ (\E k \in DOMAIN t.capture.text: t.capture.text[k] # Blank) <=> Shows(o, n + 1)
      BY <1>4, <2>2, <2>4, <2>5, <2>6, <3>1
    <3> QED
      BY <1>3, <1>6, <1>9, <3>1, <3>2, GoesOn
  <2>7. CASE s.templates = 0
    <3>1. t.capture = [s.capture EXCEPT !.text = Append(@, piece)]
      BY <1>6, <2>1, <2>7
    <3>2. /\ t.capture.tag = s.capture.tag /\ t.capture.target = s.capture.target
          /\ DOMAIN t.capture = DOMAIN s.capture /\ t.capture.depth = s.capture.depth
          /\ t.capture.text = Append(s.capture.text, piece)
      BY <2>2, <3>1
    <3>3. /\ Len(s.capture.text) \in Nat /\ DOMAIN s.capture.text = 1..Len(s.capture.text)
          /\ t.capture.text \in Seq(Pieces)
          /\ DOMAIN t.capture.text = 1..(Len(s.capture.text) + 1)
          /\ t.capture.text[Len(s.capture.text) + 1] = piece
          /\ \A k \in DOMAIN s.capture.text: t.capture.text[k] = s.capture.text[k]
      BY <1>7, <2>2, <3>2, Appended
    <3>4. (\E k \in DOMAIN t.capture.text: t.capture.text[k] # Blank) <=>
              (\E k \in DOMAIN s.capture.text: s.capture.text[k] # Blank) \/ piece # Blank
      <4>1. /\ Len(s.capture.text) + 1 \in DOMAIN t.capture.text
            /\ \A k \in DOMAIN s.capture.text: k \in DOMAIN t.capture.text
            /\ \A k \in DOMAIN t.capture.text:
                   k \in DOMAIN s.capture.text \/ k = Len(s.capture.text) + 1
        BY <3>3
      <4> QED
        BY <3>3, <4>1
    <3>5. (\E k \in DOMAIN t.capture.text: t.capture.text[k] # Blank) <=> Shows(o, n + 1)
      BY <1>4, <2>2, <2>4, <2>7, <3>4
    <3>6. /\ t.capture.depth = Balance(o, n + 1) /\ Balance(o, n + 1) >= 1
          /\ {"target", "tag", "depth", "text"} \subseteq DOMAIN t.capture
      BY <2>2, <2>5, <3>2
    <3> QED
      BY <1>3, <1>6, <1>9, <3>2, <3>3, <3>5, <3>6, GoesOn
  <2> QED
    BY <2>6, <2>7
<1>10. TextsOK(t, n + 1)
  BY <1>8, <1>9 DEF TextsOK, t, piece
<1> QED
  BY <1>10 DEF t, piece

\* Nothing has been read.
LEMMA FreshTexts == ASSUME PageShape PROVE TextsOK(Fresh, 0)
<1>1. /\ DOMAIN Fresh = Parts /\ Fresh.capture = NoCapture /\ Fresh.errors = <<>>
      /\ Fresh.templates = 0
  BY DEF Fresh, Parts
<1>2. OpenTemplates[0] = 0
  BY TemplatesCounted DEF PageShape
<1>3. \A i \in Collected(Live): ~(i <= 0) /\ ~(EndOf(i, Live) <= 0)
  BY CollectedEnd DEF PageShape
<1>4. OthersEnded(0, 0) /\ ~\E i \in KeptMessages: EndOf(i, Live) <= 0
  BY <1>3 DEF OthersEnded, KeptMessages
<1>5. Fresh.errors \in Seq(Seq(Pieces))
  BY <1>1
<1> HIDE DEF Fresh
<1> QED
  BY <1>1, <1>2, <1>4, <1>5 DEF TextsOK

-----------------------------------------------------------------------------
(* A refusal is seen *)

\* A page that stays as it is shows the same.
LEMMA TextsStay ==
    ASSUME page' = page
    PROVE  \A s, n: TextsOK(s, n)' = TextsOK(s, n)
<1>1. OpenTemplates' = OpenTemplates
  BY DEF OpenTemplates, Opens, Starts, Ends
<1>2. Live' = Live
  BY <1>1 DEF Live
<1>3. \A i: EndOf(i, Live)' = EndOf(i, Live)
  BY <1>2 DEF EndOf, Opens, Starts, Ends
<1>4. \A i: Collects(i)' = Collects(i) /\ LabelFor(i)' = LabelFor(i)
  BY DEF Collects, LabelFor
<1>5. Collected(Live)' = Collected(Live)
  BY <1>2 DEF Collected, Collects, LabelFor, EndOf, Opens, Starts, Ends
<1>6. KeptMessages' = KeptMessages
  BY <1>2, <1>3, <1>4, <1>5 DEF KeptMessages
<1>7. Pieces' = Pieces
  BY DEF Pieces
<1>8. \A i, j: Balance(i, j)' = Balance(i, j) /\ Shows(i, j)' = Shows(i, j)
  BY <1>2 DEF Balance, Shows, Opens, Starts, Ends
<1>9. \A c, o, n: Holding(c, o, n)' = Holding(c, o, n)
  BY <1>3, <1>5, <1>7, <1>8 DEF Holding
<1>10. \A o, n: OthersEnded(o, n)' = OthersEnded(o, n)
  BY <1>3, <1>5 DEF OthersEnded
<1> QED
  BY <1>1, <1>3, <1>6, <1>7, <1>9, <1>10 DEF TextsOK

\* The scan has noted the texts of the page so far, and a message is a refusal.
MessageInv ==
    /\ TextsOK(scan, at)
    /\ kind \in {"login", "rejected"} => (kind = "rejected" <=> scan.errors # <<>>)

\* Extract reads the messages once the page is read.
LEMMA MessageInvariant == Spec => []MessageInv
<1>1. Init /\ PageInv => MessageInv
  BY FreshTexts DEF Init, PageInv, MessageInv
<1>2. MessageInv /\ PageInv /\ [Next]_vars => MessageInv'
  <2> SUFFICES ASSUME MessageInv, PageInv, [Next]_vars PROVE MessageInv'
    OBVIOUS
  <2>1. CASE Read
    <3>1. kind' = "reading" /\ page' = page /\ at' = at + 1
      BY <2>1 DEF Read
    <3>2. at \in 0..(Len(page) - 1) /\ PageShape /\ ScanOK(scan, at) /\ TextsOK(scan, at)
      BY <2>1 DEF Read, PageInv, PageShape, MessageInv
    <3>3. TextsOK(scan', at + 1)
      <4>1. CASE page[at + 1].token = "start" /\ scan' = Start(scan, page[at + 1])
        BY <3>2, <4>1, StartCollects
      <4>2. CASE page[at + 1].token = "end" /\ scan' = End(scan, page[at + 1].name)
        BY <3>2, <4>2, EndCollects
      <4>3. CASE page[at + 1].token = "text" /\ scan' = Text(scan, page[at + 1].text)
        BY <3>2, <4>3, TextCollects
      <4> QED
        BY <2>1, <4>1, <4>2, <4>3 DEF Read, Token
    <3>4. TextsOK(scan, at)' <=> TextsOK(scan', at')
      BY <3>1, TextsStay
    <3> QED
      BY <3>1, <3>3, <3>4 DEF MessageInv
  <2>2. ASSUME page' = page, at' = at, scan' = scan PROVE TextsOK(scan, at)'
    <3>1. TextsOK(scan, at)' <=> TextsOK(scan, at)
      BY <2>2, TextsStay
    <3> QED
      BY <3>1 DEF MessageInv
  <2>3. CASE Extract
    <3>1. page' = page /\ at' = at /\ scan' = scan
      BY <2>3 DEF Extract
    <3>2. kind' \in {"login", "rejected"} => (kind' = "rejected" <=> scan.errors # <<>>)
      BY <2>3 DEF Extract, Recognised
    <3> QED
      BY <2>2, <3>1, <3>2 DEF MessageInv
  <2>4. CASE (\E answers \in Answered: Submit(answers)) \/ UNCHANGED vars
    <3>1. page' = page /\ at' = at /\ scan' = scan /\ kind' = kind
      BY <2>4 DEF Submit, vars
    <3> QED
      BY <2>2, <3>1 DEF MessageInv
  <2> QED
    BY <2>1, <2>3, <2>4 DEF Next
<1> QED
  BY <1>1, <1>2, PageInvariant, PTL DEF Spec

\* What the scanner keeps as a message, the page shows.
LEMMA KeptAreShown == ASSUME PageShape PROVE KeptMessages \subseteq Messages
<1>1. \A i \in Collected(Live): i \in Live /\ page[i].token = "start" /\ ~page[i].closed
  BY CollectedAre DEF Collects
<1> QED
  BY <1>1 DEF KeptMessages, Messages

\* It keeps each one that stands by itself: nothing before it is still being collected.
LEMMA PlainAreKept == ASSUME PageShape PROVE PlainMessages \subseteq KeptMessages
<1> SUFFICES ASSUME NEW i \in PlainMessages PROVE i \in KeptMessages
  OBVIOUS
<1>1. /\ i \in Live /\ page[i].token = "start" /\ ~page[i].closed /\ IsFieldError(page[i].id)
      /\ EndOf(i, Live) <= Len(page) /\ ~LabelFor(i)
      /\ \E j \in Live: /\ i < j /\ j < EndOf(i, Live)
                       /\ page[j].token = "text" /\ page[j].text # Blank
      /\ \A j \in Live: j < i /\ Collects(j) => i >= EndOf(j, Live)
  BY DEF PlainMessages, Messages
<1>2. Collects(i) /\ i \in 1..Len(page)
  BY <1>1 DEF Collects, Live, PageShape
<1>3. \A j \in Collected(Live): j < i => i >= EndOf(j, Live)
  BY <1>1, CollectedAre
<1>4. i \in Collected(Live)
  BY <1>1, <1>2, <1>3, CollectedAre
<1> QED
  BY <1>1, <1>4 DEF KeptMessages

\* A page ends the login as rejected only if it shows a message for a rejected field, and a login
\* page does if such a message is closed and stands in no label, tile or other message; for any
\* page, however the elements before it and within it nest (classify.rs: Scan::start, Scan::end;
\* driver.rs: present).
THEOREM RefusalIsSeenAlways == Spec => []RefusalIsSeen
<1>1. PageInv /\ MessageInv => RefusalIsSeen
  <2> SUFFICES ASSUME PageInv, MessageInv, kind \in {"login", "rejected"}
               PROVE  RefusalIsSeen
    BY DEF RefusalIsSeen
  <2>1. at = Len(page) /\ PageShape /\ (kind = "rejected" <=> scan.errors # <<>>)
    BY DEF PageInv, MessageInv
  <2>2. scan.errors # <<>> <=> \E i \in KeptMessages: EndOf(i, Live) <= Len(page)
    BY <2>1 DEF MessageInv, TextsOK
  <2>3. \A i \in KeptMessages: EndOf(i, Live) <= Len(page)
    BY DEF KeptMessages
  <2>4. kind = "rejected" <=> KeptMessages # {}
    BY <2>1, <2>2, <2>3
  <2> QED
    BY <2>1, <2>4, KeptAreShown, PlainAreKept DEF RefusalIsSeen
<1> QED
  BY <1>1, PageInvariant, MessageInvariant, PTL
=============================================================================
