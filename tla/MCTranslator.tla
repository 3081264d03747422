---------------------------- MODULE MCTranslator ----------------------------
(* Small tasks for the translator, each for some of its features.           *)
EXTENDS Translator

O(s) == <<s, 0>>
V(s) == <<s, 1>>
Typed(v, type) == [var |-> V(v), type |-> type]
OfType(names, type) == Mapped(LAMBDA s : [name |-> s, type |-> type], names)
Pred(name, arity) == [name |-> name, arity |-> arity]

Is(p, args) == [tag |-> "atom", predicate |-> p, args |-> args]
Not(x) == [tag |-> "not", parts |-> <<x>>]
Conj(s) == [tag |-> "and", parts |-> s]
Or(s) == [tag |-> "or", parts |-> s]
Imply(x, y) == [tag |-> "imply", parts |-> <<x, y>>]
Every(ps, x) == [tag |-> "forall", parameters |-> ps, parts |-> <<x>>]
Some(ps, x) == [tag |-> "exists", parameters |-> ps, parts |-> <<x>>]
ForAll(ps, e) == [tag |-> "forall", parameters |-> ps, effect |-> e]
When(c, e) == [tag |-> "when", condition |-> c, effect |-> e]
Increase(symbol, args) == [tag |-> "increase", expression |-> [symbol |-> symbol, args |-> args]]
Act(name, ps, pre, eff) == [name |-> name, parameters |-> ps, precondition |-> pre, effect |-> eff]
Derived(name, ps, c) == [name |-> name, parameters |-> ps, condition |-> c]

Task(objects, predicates, init, goal, actions) ==
  [objects |-> objects, predicates |-> predicates, init |-> init, init_false |-> {}, goal |-> goal, actions |-> actions,
   supertypes |-> [t \in {o.type : o \in Range(objects)} \cup {"object"} |-> IF t = "object" THEN {} ELSE {"object"}],
   costs |-> EmptyMap, axioms |-> <<>>, strata |-> <<>>, use_metric |-> FALSE]

\* Blocks: two blocks, in overlapping groups.
Blocks ==
  LET x == <<V("x")>> xy == <<V("x"), V("y")>> none == <<>> IN
  Task(OfType(<<"a", "b">>, "object"),
       <<Pred("on", 2), Pred("table", 1), Pred("clear", 1), Pred("holding", 1), Pred("empty", 0)>>,
       {Atom("table", <<O("a")>>), Atom("on", <<O("b"), O("a")>>), Atom("clear", <<O("b")>>), Atom("empty", <<>>)},
       Is("on", <<O("a"), O("b")>>),
       <<Act("pickup", <<Typed("x", "object")>>, Conj(<<Is("clear", x), Is("table", x), Is("empty", none)>>),
             Conj(<<Not(Is("table", x)), Not(Is("clear", x)), Not(Is("empty", none)), Is("holding", x)>>)),
         Act("putdown", <<Typed("x", "object")>>, Is("holding", x),
             Conj(<<Not(Is("holding", x)), Is("clear", x), Is("empty", none), Is("table", x)>>)),
         Act("stack", <<Typed("x", "object"), Typed("y", "object")>>, Conj(<<Is("holding", x), Is("clear", <<V("y")>>)>>),
             Conj(<<Not(Is("holding", x)), Not(Is("clear", <<V("y")>>)), Is("clear", x), Is("empty", none), Is("on", xy)>>)),
         Act("unstack", <<Typed("x", "object"), Typed("y", "object")>>, Conj(<<Is("on", xy), Is("clear", x), Is("empty", none)>>),
             Conj(<<Is("holding", x), Is("clear", <<V("y")>>), Not(Is("clear", x)), Not(Is("empty", none)), Not(Is("on", xy))>>))>>)

\* A briefcase takes its contents along; roads have costs, objects are lost
\* with luck only.  Universal and conditional effects, disjunctions, costs.
Briefcase ==
  LET l == <<V("l")>> m == <<V("m")>> x == <<V("x")>> xl == <<V("x"), V("l")>> IN
  [Task(OfType(<<"home", "work", "shop">>, "place") \o OfType(<<"case", "book">>, "thing"),
        <<Pred("at", 2), Pred("in", 1), Pred("lucky", 0)>>,
        {Atom("at", <<O("case"), O("home")>>), Atom("at", <<O("book"), O("work")>>)},
        Conj(<<Is("at", <<O("book"), O("shop")>>), Not(Is("in", <<O("book")>>))>>),
        <<Act("move", <<Typed("l", "place"), Typed("m", "place")>>,
              Conj(<<Is("at", <<O("case"), V("l")>>), Not(Is("=", <<V("l"), V("m")>>))>>),
              Conj(<<Is("at", <<O("case"), V("m")>>), Not(Is("at", <<O("case"), V("l")>>)), Increase("road", <<V("l"), V("m")>>),
                    ForAll(<<Typed("x", "thing")>>,
                           When(Is("in", x), Conj(<<Is("at", <<V("x"), V("m")>>), Not(Is("at", xl))>>)))>>)),
          Act("put", <<Typed("x", "thing"), Typed("l", "place")>>,
              Conj(<<Is("at", xl), Is("at", <<O("case"), V("l")>>), Not(Is("=", <<V("x"), O("case")>>)), Not(Is("in", x)),
                    Not(Is("at", <<O("book"), O("home")>>))>>),
              Conj(<<Is("in", x), Increase("work", <<>>)>>)),
          Act("take", <<Typed("x", "thing")>>, Or(<<Is("in", x), Is("lucky", <<>>)>>), Not(Is("in", x))),
          Act("drop", <<Typed("l", "place")>>, Conj(<<Is("at", <<O("book"), V("l")>>), Is("in", <<O("book")>>)>>),
              Conj(<<Not(Is("at", <<O("book"), V("l")>>)), Not(Is("in", <<O("book")>>)), Is("lucky", <<>>),
                    When(Is("lucky", <<>>), Is("at", <<O("book"), O("home")>>))>>))>>)
     EXCEPT !.use_metric = TRUE,
            !.costs = [k \in ({"road"} \X {<<O(a), O(b)>> : a, b \in {"home", "work", "shop"}}) \cup {<<"work", <<>>>>} |->
                         IF k[1] = "work" THEN 0 ELSE IF k[2][1] = O("home") THEN 2 ELSE 1]]

\* Derived predicates: what can be reached over links, needed positively,
\* and the lack of a loop, needed negatively; the goal has quantifiers.
Links ==
  LET x == <<V("x")>> y == <<V("y")>> xy == <<V("x"), V("y")>> IN
  [Task(OfType(<<"a", "b">>, "node"),
        <<Pred("link", 2), Pred("reached", 1), Pred("loop", 1), Pred("closed", 0)>>,
        {Atom("link", <<O("a"), O("a")>>)},
        Conj(<<Every(<<Typed("z", "node")>>, Imply(Not(Is("=", <<V("z"), O("a")>>)), Is("reached", <<V("z")>>))), Is("closed", <<>>)>>),
        <<Act("connect", <<Typed("x", "node"), Typed("y", "node")>>,
              Conj(<<Not(Is("loop", x)), Some(<<Typed("u", "node")>>, Is("link", <<V("u"), V("u")>>))>>), Is("link", xy)),
          Act("cut", <<Typed("x", "node")>>, Is("loop", x), Conj(<<Not(Is("link", <<V("x"), V("x")>>)), Is("link", <<O("b"), O("b")>>)>>)),
          Act("close", <<>>, Every(<<Typed("z", "node")>>, Not(Is("loop", <<V("z")>>))), Is("closed", <<>>)),
          Act("forget", <<Typed("x", "node"), Typed("y", "node")>>, Conj(<<Is("link", xy), Is("link", <<V("y"), V("x")>>)>>), Not(Is("link", xy)))>>)
     EXCEPT !.axioms = <<Derived("reached", <<Typed("x", "node")>>,
                                 Or(<<Is("=", <<V("x"), O("a")>>),
                                      Some(<<Typed("y", "node")>>, Conj(<<Is("reached", y), Is("link", <<V("y"), V("x")>>)>>))>>)),
                         Derived("loop", <<Typed("x", "node")>>, Is("link", <<V("x"), V("x")>>))>>,
            !.strata = <<{"reached", "loop"}>>]

\* One fact after another, and tasks that are decided on the way: a static
\* goal, one out of reach, one that violates a mutex, and one that no
\* operator is left for.
Chain(goal) ==
  Task(OfType(<<"a", "b", "c">>, "object"), <<Pred("at", 1), Pred("next", 2), Pred("seen", 0), Pred("never", 0)>>,
       {Atom("at", <<O("a")>>), Atom("next", <<O("a"), O("b")>>), Atom("next", <<O("b"), O("c")>>)},
       goal,
       <<Act("go", <<Typed("x", "object"), Typed("y", "object")>>, Conj(<<Is("at", <<V("x")>>), Is("next", <<V("x"), V("y")>>)>>),
             Conj(<<Is("at", <<V("y")>>), Not(Is("at", <<V("x")>>))>>)),
         Act("see", <<>>, Conj(<<Is("at", <<O("a")>>), Is("at", <<O("b")>>)>>), Is("seen", <<>>)),
         Act("loop", <<Typed("x", "object")>>, Is("never", <<>>), Conj(<<Is("never", <<>>), Is("seen", <<>>)>>))>>)

\* A robot moves or is moved, one variable of three places and nowhere:
\* negative conditions on it, effects on it that depend on other facts.
Robot ==
  LET x == <<V("x")>> y == <<V("y")>> xy == <<Typed("x", "object"), Typed("y", "object")>> different == Not(Is("=", <<V("x"), V("y")>>)) IN
  Task(OfType(<<"a", "b">>, "object"), <<Pred("at", 1), Pred("lamp", 0), Pred("open", 0)>>,
       {Atom("at", <<O("a")>>), Atom("open", <<>>)},
       Conj(<<Is("at", <<O("b")>>), Not(Is("open", <<>>))>>),
       <<Act("push", xy, Conj(<<Is("at", x), different>>),
             Conj(<<When(Is("lamp", <<>>), Conj(<<Is("at", y), Not(Is("at", x))>>)), Not(Is("lamp", <<>>))>>)),
         Act("light", <<>>, Conj(<<Not(Is("at", <<O("b")>>)), Not(Is("lamp", <<>>))>>), Conj(<<Is("lamp", <<>>), Not(Is("open", <<>>))>>)),
         Act("fall", <<Typed("x", "object")>>, Conj(<<>>), When(Or(<<Is("open", <<>>), Is("lamp", <<>>)>>), Not(Is("at", x)))),
         Act("rise", <<>>, Conj(<<Not(Is("at", <<O("a")>>)), Not(Is("at", <<O("b")>>))>>),
             When(Not(Is("lamp", <<>>)), Is("open", <<>>)))>>)

MCPddlTasks ==
  <<Blocks, Briefcase, Links,
    Chain(Is("at", <<O("c")>>)),
    Chain(Is("next", <<O("a"), O("b")>>)),
    Chain(Conj(<<Is("at", <<O("b")>>), Is("never", <<>>)>>)),
    Chain(Conj(<<Is("at", <<O("b")>>), Is("at", <<O("c")>>)>>)),
    Chain(Is("seen", <<>>)),
    Chain(Not(Is("at", <<O("b")>>))),
    Chain(Conj(<<Conj(<<Is("at", <<O("b")>>), Is("at", <<O("c")>>)>>)>>)),
    Robot>>
Line == [generate_relaxed_task |-> FALSE, use_partial_encoding |-> TRUE, add_implied_preconditions |-> FALSE,
         filter_unreachable_facts |-> TRUE, reorder_variables |-> TRUE, filter_unimportant_vars |-> TRUE,
         invariant_generation_max_candidates |-> 1000, time_limit |-> FALSE]
Plain == [Line EXCEPT !.filter_unreachable_facts = FALSE, !.reorder_variables = FALSE, !.filter_unimportant_vars = FALSE]
MCOptions ==
  <<{[Line EXCEPT !.use_partial_encoding = FALSE], [Line EXCEPT !.add_implied_preconditions = TRUE]},
    {Line, [Plain EXCEPT !.use_partial_encoding = FALSE], [Line EXCEPT !.generate_relaxed_task = TRUE]},
    {Line, Plain},
    {Line, [Line EXCEPT !.invariant_generation_max_candidates = 1], [Line EXCEPT !.time_limit = TRUE]},
    {Line}, {Line}, {Line}, {Line}, {Line}, {Line},
    {Line, Plain}>>
=============================================================================
