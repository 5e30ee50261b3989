------------------------------- MODULE RoleGate -------------------------------
(***************************************************************************)
(* controller-role-gate.mjs: every route of a controller carries @Roles or *)
(* @Public, on itself or on its class, or is on the allow list for a       *)
(* reason; and every entry of the allow list has its route.                *)
(*                                                                         *)
(* An author types a controller's file a line at a time in the style of    *)
(* services/api/src (a decorator on a line of its own, a declaration on    *)
(* one line), with comments, texts and arguments over several lines.  The  *)
(* script reads each line when it is typed, and judges at the end.  A line *)
(* is what it starts with and the marks the script's scanner looks at.     *)
(***************************************************************************)
EXTENDS Integers, Sequences

CONSTANTS MaxLines, MaxOdd   \* lines of the file; comments, texts and wide arguments among them

VARIABLES
  allow,       \* ROLE_GATE_ALLOWLIST
  nest,        \* the file: what is open around the next line, innermost last
  said,        \* the decorators waiting for their declaration
  owner,       \* those of the class around the next line
  written,     \* the routes of the file
  lines, odd,
  scan,        \* the script: [depth, inString, inComment]
  mode,        \* [in, depth]: "file", or "classBody" and the depth of its members
  pending,     \* pendingDecorators
  found,       \* the classes found: [marks, routes]
  verdict

text == <<nest, said, owner, written, lines, odd>>
script == <<scan, mode, pending, found>>
roleGateVars == <<allow, text, script, verdict>>

Method == {"list", "me"}
Decorator == {"Controller", "Get", "Roles", "Other"}
Verb == {"Get"}
Gate == {"Roles"}

\* A reason is so many characters of so many kinds.
Reason == {[chars |-> 12, kinds |-> 5], [chars |-> 12, kinds |-> 1]}
Entry ==
  {[file |-> "this", method |-> "me", reason |-> r] : r \in Reason}
    \cup {[file |-> "gone", method |-> "me", reason |-> [chars |-> 12, kinds |-> 5]]}

RoleGateTypeOK ==
  /\ allow \subseteq Entry /\ said \subseteq Decorator /\ pending \subseteq Decorator
  /\ owner \subseteq Decorator
  /\ scan.depth \in Nat /\ mode.in \in {"file", "classBody"}
  /\ verdict \in {"none", "PASS", "FAIL", "error"}

RoleGateInit ==
  /\ allow \in {{}} \cup {{e} : e \in Entry}
  /\ nest = <<>> /\ said = {} /\ owner = {} /\ written = {} /\ lines = 0 /\ odd = 0
  /\ scan = [depth |-> 0, inString |-> FALSE, inComment |-> FALSE]
  /\ mode = [in |-> "file", depth |-> 0] /\ pending = {} /\ found = <<>>
  /\ verdict = "none"

-----------------------------------------------------------------------------
\* What the script makes of a line: scanLineBrackets sees brackets outside texts and comments.
Marked(t, mark) ==
  IF t.rest THEN t
  ELSE IF t.inComment THEN [t EXCEPT !.inComment = mark # "commentClose"]
  ELSE IF t.inString THEN [t EXCEPT !.inString = mark # "quote"]
  ELSE [t EXCEPT !.rest = mark = "lineComment", !.inComment = mark = "commentOpen",
                 !.inString = mark = "quote",
                 !.depth = IF mark = "open" THEN @ + 1 ELSE IF mark = "close" THEN @ - 1 ELSE @]

MarkAt(t, marks, i) == IF i <= Len(marks) THEN Marked(t, marks[i]) ELSE t

\* A line of this file has four marks at most.
Scanned(s, marks) ==
  LET begun == [depth |-> s.depth, inString |-> s.inString, inComment |-> s.inComment, rest |-> FALSE]
      e == MarkAt(MarkAt(MarkAt(MarkAt(begun, marks, 1), marks, 2), marks, 3), marks, 4)
  IN [depth |-> e.depth, inString |-> e.inString, inComment |-> e.inComment]

AtTopLevel == ~scan.inString /\ ~scan.inComment /\ scan.depth = mode.depth

\* extractControllerRoutes: a declaration takes the decorators that wait for it.
ScanLine(head, marks) ==
  LET after == Scanned(scan, marks)
      class == AtTopLevel /\ mode.in = "file" /\ head.kind = "class"
      member == AtTopLevel /\ mode.in = "classBody" /\ head.kind \in {"member", "statement"}
      left == mode.in = "classBody" /\ after.depth < mode.depth
  IN /\ scan' = after
     /\ mode' = IF class THEN [in |-> "classBody", depth |-> after.depth]
                ELSE IF left THEN [in |-> "file", depth |-> 0] ELSE mode
     /\ pending' = IF left THEN {}
                   ELSE IF ~AtTopLevel \/ head.kind \in {"blank", "close"} THEN pending
                   ELSE IF head.kind = "decorator" THEN pending \cup {head.name}
                   ELSE {}
     /\ found' = IF class THEN Append(found, [marks |-> pending, routes |-> {}])
                 ELSE IF member /\ pending \cap Verb # {}
                 THEN [found EXCEPT ![Len(found)].routes =
                         @ \cup {[name |-> head.name, marks |-> pending]}]
                 ELSE found

-----------------------------------------------------------------------------
\* What the author may type: each line keeps the file well formed.

Around == IF nest = <<>> THEN "file" ELSE nest[Len(nest)]
Within == SubSeq(nest, 1, Len(nest) - 1)
Starts(kind, name) == [kind |-> kind, name |-> name]

Line(head, marks, costs) ==
  /\ verdict = "none" /\ lines < MaxLines /\ odd + costs <= MaxOdd
  /\ lines' = lines + 1 /\ odd' = odd + costs
  /\ ScanLine(head, marks)
  /\ UNCHANGED <<allow, verdict>>

\* A decorator, its arguments on its line or below; Controller or the verb comes first.
TypeDecorator(d, wide) ==
  /\ Around \in {"file", "class"} /\ d \notin said /\ (wide => d = "Other")
  /\ (Around = "class") => d # "Controller"
  /\ (Around = "class") => (d = "Get") = (said = {})
  /\ (Around = "file") => d # "Get" /\ (d = "Controller") = (said = {})
  /\ said' = said \cup {d}
  /\ nest' = IF wide THEN Append(nest, "arguments") ELSE nest
  /\ Line(Starts("decorator", d), IF wide THEN <<"open", "open">> ELSE <<"open", "close">>,
          IF wide THEN 1 ELSE 0)
  /\ UNCHANGED <<owner, written>>

TypeClass ==
  /\ Around = "file"
  /\ nest' = Append(nest, "class") /\ owner' = said /\ said' = {}
  /\ Line(Starts("class", "Controller"), <<"open">>, 0)
  /\ UNCHANGED written

\* A method, its body on its line or below, or a field without decorators.
TypeMethod(m, wide) ==
  /\ Around = "class"
  /\ nest' = (IF wide THEN Append(nest, "body") ELSE nest) /\ said' = {}
  /\ written' = IF "Get" \in said /\ "Controller" \in owner
                THEN written \cup {[name |-> m, marks |-> said \cup owner]} ELSE written
  /\ Line(Starts("member", m),
          IF wide THEN <<"open", "close", "open">> ELSE <<"open", "close", "open", "close">>,
          IF wide THEN 1 ELSE 0)
  /\ UNCHANGED owner

TypeField ==
  /\ Around = "class" /\ said = {}
  /\ Line(Starts("member", "field"), <<>>, 1)
  /\ UNCHANGED <<nest, said, owner, written>>

\* import, or a statement of a body or of an argument, with a text that holds a bracket.
TypeStatement ==
  /\ Around \in {"file", "body", "arguments"} /\ (Around = "file" => said = {})
  /\ \E marks \in {<<"quote", "open", "quote">>, <<"open", "close">>} :
       Line(Starts("statement", "statement"), marks, 1)
  /\ UNCHANGED <<nest, said, owner, written>>

TypeClose ==
  /\ Around \in {"class", "body", "arguments"} /\ (Around = "class" => said = {})
  /\ nest' = Within /\ owner' = (IF Around = "class" THEN {} ELSE owner)
  /\ Line(Starts("close", "close"),
          IF Around = "arguments" THEN <<"close", "close">> ELSE <<"close">>, 0)
  /\ UNCHANGED <<said, written>>

\* A blank line, or a comment on its own, anywhere; one may be opened, and then is closed.
TypeComment ==
  /\ IF Around = "comment"
     THEN nest' = Within /\ Line(Starts("blank", "blank"), <<"close", "commentClose">>, 0)
     ELSE \/ nest' = nest /\ Line(Starts("blank", "blank"), <<"lineComment", "open", "commentOpen">>, 1)
          \/ nest' = Append(nest, "comment") /\ Line(Starts("blank", "blank"), <<"commentOpen", "quote">>, 1)
  /\ UNCHANGED <<said, owner, written>>

-----------------------------------------------------------------------------
\* The verdict: isMeaningfulReason
Meaningful(r) == r.chars >= 10 /\ r.kinds >= 4

\* judgeRoute
Ok(route, class) ==
  \/ (route.marks \cup class.marks) \cap Gate # {}
  \/ \E e \in allow : e.file = "this" /\ e.method = route.name /\ Meaningful(e.reason)

\* findUnusedAllowlistEntries
Unused(names) == {e \in allow : ~(e.file = "this" /\ e.method \in names)}

\* checkControllerFile: the controllers' routes; checkAllControllers: what must hold of them.
Real == {found[k] : k \in {k \in 1 .. Len(found) : "Controller" \in found[k].marks}}
Passes ==
  /\ \A c \in Real : \A r \in c.routes : Ok(r, c)
  /\ Unused({r.name : r \in UNION {c.routes : c \in Real}}) = {}

Judge ==
  /\ verdict = "none" /\ nest = <<>> /\ said = {}
  /\ verdict' = IF scan.inString \/ scan.inComment \/ scan.depth # 0 \/ Real = {} THEN "error"
                ELSE IF Passes THEN "PASS" ELSE "FAIL"
  /\ UNCHANGED <<allow, text, script>>

RoleGateNext ==
  \/ \E d \in Decorator, wide \in BOOLEAN : TypeDecorator(d, wide)
  \/ \E m \in Method, wide \in BOOLEAN : TypeMethod(m, wide)
  \/ TypeClass \/ TypeField \/ TypeStatement \/ TypeClose \/ TypeComment
  \/ Judge

-----------------------------------------------------------------------------
\* A route is in order when it is gated or excused by an entry with a reason of 10 characters or
\* more, of 4 kinds or more.
InOrder(w) ==
  w.marks \cap {"Roles"} # {}
    \/ \E e \in allow : e = [file |-> "this", method |-> w.name, reason |-> e.reason]
                          /\ e.reason.chars >= 10 /\ e.reason.kinds >= 4

\* A file that passes has no open route, however its decorators, comments and texts are laid out.
PassMeansGated == verdict = "PASS" => \A w \in written : InOrder(w)

\* A file that passes leaves no entry of the allow list without its route.
PassMeansNoRot ==
  verdict = "PASS" => \A e \in allow : e.file = "this" /\ \E w \in written : w.name = e.method

\* A failure is never the scanner's: some route is open, an entry is dead, or there is no controller.
FailHasCause ==
  /\ verdict = "error" => ~\E k \in 1 .. Len(found) : "Controller" \in found[k].marks
  /\ verdict = "FAIL" =>
       \/ \E w \in written : ~InOrder(w)
       \/ \E e \in allow : e.file # "this" \/ ~\E w \in written : w.name = e.method
=============================================================================
