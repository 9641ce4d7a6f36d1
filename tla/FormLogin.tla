------------------------------ MODULE FormLogin ------------------------------
(***************************************************************************)
(* One sign-in to a tracker: the inputs a definition's login block         *)
(* declares, the login page whose form carries tokens of its own, what is    *)
(* posted, and the tracker's answer.  The page's elements are named by the   *)
(* selectors that match them, so no selector is ever parsed here.          *)
(***************************************************************************)
EXTENDS Integers, Sequences, Functions, Overlays

CONSTANTS
  Logins,   \* login blocks, their inputs rendered from the settings
  Pages     \* login pages

ASSUME PagesAssumption == \A page \in Pages : page.inputs \in Seq(Range(page.inputs))

VARIABLES
  login, loginPage,
  signIn,      \* the step the sign-in is at
  cookiesSent,         \* the names of the cookies that go with a request
  unnamed,     \* the inputs whose keys are selectors not yet looked up
  named,       \* the definition's inputs by the names they go out under
  posted,      \* the request with the credentials: [method, path, values]
  verdict      \* how the sign-in ended

loginVars == <<login, loginPage, signIn, cookiesSent, unnamed, named, posted, verdict>>

Nowhere   == "nowhere"
NoVerdict == "none"
Empty     == [name \in {} |-> ""]
NoPost    == [method |-> "none", path |-> Nowhere, values |-> Empty]
Credentials == {"username", "password", "login", "email"}

LoginInit ==
  /\ login \in Logins /\ loginPage \in Pages
  /\ signIn = "render" /\ cookiesSent = {} /\ unnamed = {} /\ named = Empty
  /\ posted = NoPost /\ verdict = NoVerdict

-----------------------------------------------------------------------------
EndSignIn(reason) == verdict' = reason /\ signIn' = "over"

\* requireCredentials
LacksCredentials(inputs) == \E key \in DOMAIN inputs \intersect Credentials : inputs[key] = ""

\* parseCookiePairs: a pair without a name is skipped.
CookieNames(pairs) == {pairs[i].name : i \in {k \in DOMAIN pairs : pairs[k].name # ""}}

\* performLogin, up to its first request.
Render ==
  /\ signIn = "render"
  /\ \/ /\ LacksCredentials(login.inputs)
        /\ EndSignIn("credentials")
        /\ UNCHANGED <<cookiesSent, posted>>
     \/ /\ ~LacksCredentials(login.inputs) /\ login.method = "cookie"
        /\ IF login.cookie = <<>> THEN EndSignIn("credentials") /\ UNCHANGED cookiesSent
           ELSE IF CookieNames(login.cookie) = {} THEN EndSignIn("cookie") /\ UNCHANGED cookiesSent
           ELSE EndSignIn("submitted") /\ cookiesSent' = cookiesSent \union CookieNames(login.cookie)
        /\ UNCHANGED posted
     \/ /\ ~LacksCredentials(login.inputs) /\ login.method \in {"get", "post"}
        /\ cookiesSent' = cookiesSent \union (IF login.method = "post" THEN CookieNames(login.cookies) ELSE {})
        /\ posted' = [method |-> login.method, path |-> login.path, values |-> login.inputs]
        /\ signIn' = "posted" /\ UNCHANGED verdict
     \/ /\ ~LacksCredentials(login.inputs) /\ login.method = "form"
        /\ cookiesSent' = cookiesSent \union CookieNames(login.cookies)
        /\ signIn' = "page" /\ UNCHANGED <<posted, verdict>>
  /\ UNCHANGED <<login, loginPage, unnamed, named>>

-----------------------------------------------------------------------------
(***************************************************************************)
(* The login page.                                                           *)
(***************************************************************************)

\* The first of a page's inputs, or of its forms, that a selector matches, or 0.
FirstOf(elements, selector) ==
  LET matched == {i \in DOMAIN elements : selector \in elements[i].matches}
  IN IF matched = {} THEN 0 ELSE CHOOSE i \in matched : \A j \in matched : i <= j

FormIndex == FirstOf(loginPage.forms, login.form)

\* Variant: every input of the form goes out.
IsSubmittedAlways(input) == TRUE

\* isSubmitted: a disabled input never, a box or a button only when checked.
IsSubmitted(input) ==
  ~input.isDisabled /\ (input.type \in {"checkbox", "radio"} => input.isChecked)

\* What one input adds to what the form sends, in place of an earlier one of its name.
Adopt(values, input) ==
  IF input.form = FormIndex /\ input.name # "" /\ IsSubmitted(input)
  THEN LaidOver([name \in {input.name} |-> input.value], values) ELSE values

\* What the first n inputs of the page make the form send.
AdoptedOf[n \in 0 .. Len(loginPage.inputs)] ==
  IF n = 0 THEN Empty ELSE Adopt(AdoptedOf[n - 1], loginPage.inputs[n])

\* What the form itself sends.
Adopted == AdoptedOf[Len(loginPage.inputs)]

\* loginWithForm, up to the names of the definition's inputs: the page may not be
\* had, and may have no form.
LoadPage ==
  /\ signIn = "page"
  /\ \/ EndSignIn("unreachable") /\ UNCHANGED <<unnamed, named>>
     \/ FormIndex = 0 /\ EndSignIn("no form") /\ UNCHANGED <<unnamed, named>>
     \/ /\ FormIndex # 0 /\ UNCHANGED verdict
        /\ IF login.bySelector
           THEN signIn' = "name" /\ unnamed' = DOMAIN login.inputs /\ named' = Empty
           ELSE signIn' = "fill" /\ named' = login.inputs /\ UNCHANGED unnamed
  /\ UNCHANGED <<login, loginPage, cookiesSent, posted>>

\* inputsBySelector takes its selectors in any order and looks on the whole page.
NameInput ==
  \E selector \in unnamed :
    LET i == FirstOf(loginPage.inputs, selector)
    IN /\ signIn = "name"
       /\ unnamed' = unnamed \ {selector}
       /\ IF i = 0 \/ loginPage.inputs[i].name = ""
          THEN EndSignIn("no input") /\ UNCHANGED named
          ELSE /\ named' = LaidOver([name \in {loginPage.inputs[i].name} |-> login.inputs[selector]], named)
               /\ UNCHANGED <<signIn, verdict>>
       /\ UNCHANGED <<login, loginPage, cookiesSent, posted>>

\* The second look at the credentials, under the names they go out with.
LacksNamedCredentials(inputs) == LacksCredentials(inputs)

NamesKnown ==
  /\ signIn = "name" /\ unnamed = {}
  /\ IF LacksNamedCredentials(named) THEN EndSignIn("credentials") ELSE signIn' = "fill" /\ UNCHANGED verdict
  /\ UNCHANGED <<login, loginPage, cookiesSent, unnamed, named, posted>>

Reads(name) == login.selectorInputs[name]

\* A required value the page does not show, or one of a variable never set.
IsUnread(name) ==
  \/ ~Reads(name).isResolved
  \/ Reads(name).selector \notin DOMAIN loginPage.reads /\ ~Reads(name).isOptional

\* readSelectorInputs, of those it can read.
ReadOff ==
  [name \in {n \in DOMAIN login.selectorInputs : Reads(n).selector \in DOMAIN loginPage.reads} |->
     loginPage.reads[Reads(name).selector]]

Action ==
  IF login.submitPath # "" THEN login.submitPath
  ELSE IF loginPage.forms[FormIndex].action # "" THEN loginPage.forms[FormIndex].action
  ELSE login.path

\* The rest of loginWithForm: what the page gives, the definition's inputs over
\* it, and what was read off the page over both.
Fill ==
  /\ signIn = "fill"
  /\ IF \E name \in DOMAIN login.selectorInputs : IsUnread(name)
     THEN EndSignIn("no token") /\ UNCHANGED posted
     ELSE /\ posted' = [method |-> "post", path |-> Action, values |-> LaidOver(ReadOff, LaidOver(named, Adopted))]
          /\ signIn' = "posted" /\ UNCHANGED verdict
  /\ UNCHANGED <<login, loginPage, cookiesSent, unnamed, named>>

-----------------------------------------------------------------------------
\* postLogin and checkErrorBlocks: a block without a selector, and one whose
\* selector the answer does not match, are passed over.
Answer ==
  /\ signIn = "posted"
  /\ \/ EndSignIn("unreachable")
     \/ \E shown \in SUBSET {login.errors[i] : i \in DOMAIN login.errors} :
          EndSignIn(IF shown \ {""} # {} THEN "rejected" ELSE "submitted")
  /\ UNCHANGED <<login, loginPage, cookiesSent, unnamed, named, posted>>

SignInNext == Render \/ LoadPage \/ NameInput \/ NamesKnown \/ Fill \/ Answer

SignInSpec == LoginInit /\ [][SignInNext]_loginVars

-----------------------------------------------------------------------------
(***************************************************************************)
(* Properties.                                                             *)
(***************************************************************************)

\* The definition's inputs that go out under a name.
Given(name) ==
  IF login.bySelector
  THEN {key \in DOMAIN login.inputs : FirstOf(loginPage.inputs, key) # 0
                                      /\ loginPage.inputs[FirstOf(loginPage.inputs, key)].name = name}
  ELSE {name} \intersect DOMAIN login.inputs

\* The inputs of the form a browser would send under a name.
Carried(name) ==
  {i \in DOMAIN loginPage.inputs :
     LET input == loginPage.inputs[i]
     IN /\ input.form = FormIndex /\ input.name = name /\ name # "" /\ ~input.isDisabled
        /\ input.type \in {"checkbox", "radio"} => input.isChecked}

\* A form login posts what a browser would post after an administrator filled in
\* the definition's inputs: under every name what was read off this page, else
\* what the definition gives it, else what the page's form holds, and nothing
\* under any other name; with all the cookies the definition declares, and never
\* an empty credential of the definition's, whatever its inputs are keyed by and
\* in whichever order they are looked up.
PostsTheForm ==
  login.method = "form" /\ posted # NoPost =>
    LET names  == DOMAIN posted.values
        tokens == {n \in DOMAIN login.selectorInputs : Reads(n).selector \in DOMAIN loginPage.reads}
    IN /\ names = {n \in names \union {loginPage.inputs[i].name : i \in DOMAIN loginPage.inputs} \union DOMAIN login.inputs :
                     n \in tokens \/ Given(n) # {} \/ Carried(n) # {}} \union tokens
       /\ \A n \in names :
            /\ n \in tokens => posted.values[n] = loginPage.reads[Reads(n).selector]
            /\ n \notin tokens /\ Given(n) # {} =>
                 posted.values[n] \in {login.inputs[key] : key \in Given(n)}
            /\ n \notin tokens /\ Given(n) = {} =>
                 \E i \in Carried(n) : posted.values[n] = loginPage.inputs[i].value
                                       /\ \A j \in Carried(n) : j <= i
            /\ n \in Credentials \ tokens /\ Given(n) # {} => posted.values[n] # ""
       /\ CookieNames(login.cookies) \subseteq cookiesSent

=============================================================================
