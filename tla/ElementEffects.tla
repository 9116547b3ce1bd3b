--------------------------- MODULE ElementEffects ---------------------------
(***************************************************************************)
(* The core and combination effects of effects.js, by what they do to the  *)
(* inline style of one element and of the first element in it, and         *)
(* Effect.toggle.                                                          *)
(*                                                                         *)
(* A style gives each thing its inline value: none, the page's own, what   *)
(* the style sheets give (getStyle reads it when there is no inline value, *)
(* and some effects write it back inline), or one of an effect.  An effect *)
(* writes some when it is constructed, some when its first frame sets it   *)
(* up and some in each frame, and puts them back when it finishes.  Which  *)
(* effect is due first is the business of EffectQueue; here any may go on. *)
(***************************************************************************)
EXTENDS Naturals, FiniteSets, FiniteSetsExt

CONSTANTS
    MaxEffects,  \* bound: effects of the element at a time
    FollowMixed, \* bound: does anything happen once effects were mixed?
    Pages        \* how a page may have styled it, as records: inline, the
                 \* things it gave an inline value; and, as pairs of a thing
                 \* and "page" or "sheet", the values blank when written
                 \* (opacity 1, overflow and offsets auto) and those that are
                 \* position: static

\* place: top and left (undoPositioned clears bottom and right with them);
\* size: width and height; clip: overflow; innerPlace: bottom of the element
\* within, which the slides move
Things == {"opacity", "size", "font", "place", "position", "clip", "background",
           "innerPlace", "innerPosition"}
Positions == {"position", "innerPosition"}
Values == {"none", "page", "sheet", "effect"}

PageFacts ==
    \A p \in Pages : p.blank \subseteq {"opacity", "clip", "place", "innerPlace"}
                                      \X {"page", "sheet"}

\* Effects the page asks for.  Grow2, SwitchOff2, Fold2, Shake2 and Shake3 are
\* what the first part constructs when it finishes; Shake2 stands for the four
\* moves in the middle.
Visuals == {"Fade", "Appear", "Puff", "BlindUp", "BlindDown", "SwitchOff",
            "DropOut", "Shake", "SlideDown", "SlideUp", "Squish", "Grow",
            "Shrink", "Pulsate", "Fold", "Highlight"}
Parts == {"Grow2", "SwitchOff2", "Fold2", "Shake2", "Shake3"}
Kinds == Visuals \union Parts

NextPart(k) ==
    CASE k = "Grow" -> {"Grow2"} [] k = "SwitchOff" -> {"SwitchOff2"}
      [] k = "Fold" -> {"Fold2"} [] k = "Shake" -> {"Shake2"}
      [] k = "Shake2" -> {"Shake3"} [] OTHER -> {}

\* Made clipping and positioned by the constructor, or by its beforeStart
Constructed(k) ==
    CASE k \in {"BlindUp", "Fold"} -> {"clip"}
      [] k = "Shrink" -> {"clip", "position"}
      [] OTHER -> {}

\* Made so by setup and the callbacks around it
SetUp(k) ==
    CASE k \in {"BlindDown", "Squish"} -> {"clip"}
      [] k \in {"SlideUp", "SlideDown"} -> {"clip", "position", "innerPosition"}
      [] k \in {"SwitchOff2", "Grow"} -> {"clip", "position"}
      [] k \in {"DropOut", "Shake", "Shake2", "Shake3", "Grow2", "Shrink"} -> {"position"}
      [] OTHER -> {}

\* Written by Position.absolutize
Absolutized(k) == IF k = "Puff" THEN {"position", "place", "size"} ELSE {}

ShownAtSetUp == {"Appear", "SwitchOff", "BlindDown", "SlideDown", "SlideUp", "Grow2"}
HiddenAtSetUp == {"Grow"}

\* Written by update; Highlight also takes the background image at setup
Updated(k) ==
    CASE k \in {"Fade", "Appear", "SwitchOff", "Pulsate"} -> {"opacity"}
      [] k \in {"BlindUp", "BlindDown", "Fold", "Fold2"} -> {"size"}
      [] k = "Squish" -> {"size", "font"}
      [] k \in {"SlideUp", "SlideDown"} -> {"size", "innerPlace"}
      [] k = "SwitchOff2" -> {"size", "place"}
      [] k \in {"Shake", "Shake2", "Shake3", "Grow"} -> {"place"}
      [] k = "DropOut" -> {"place", "opacity"}
      [] k \in {"Puff", "Grow2", "Shrink"} -> {"opacity", "size", "place", "font"}
      [] k = "Highlight" -> {"background"}

\* undoClipping and undoPositioned, in finish and afterFinish
Undone(k) ==
    CASE k \in {"BlindUp", "BlindDown", "Squish", "Fold2"} -> {"clip"}
      [] k \in {"SlideUp", "SlideDown"} -> {"clip", "position", "innerPosition"}
      [] k \in {"SwitchOff2", "Grow2", "Shrink"} -> {"clip", "position"}
      [] k \in {"DropOut", "Shake3"} -> {"position"}
      [] OTHER -> {}

\* Faulty: the opacity is left at 0
RestoredPart(k) ==
    IF k \in {"Fold2", "Shrink", "Grow2", "Puff"} THEN {"place", "size"} ELSE {}

\* oldStyle: given the inline value from when the effect, or its first part,
\* was constructed
OldStyle(k) ==
    CASE k \in {"Fade", "SwitchOff2", "Pulsate", "DropOut"} -> {"opacity"}
      [] k \in {"Puff", "Grow2", "Shrink"} -> {"opacity", "size", "place"}
      [] k = "Fold2" -> {"size", "place"}
      [] OTHER -> {}

\* oldStyle, where it holds what getStyle returned; Highlight calls it at setup
OldLook(k) ==
    CASE k = "Puff" -> {"position"}
      [] k \in {"DropOut", "Shake3"} -> {"place"}
      [] k \in {"SlideUp", "SlideDown"} -> {"innerPlace"}
      [] k = "Highlight" -> {"background"}
      [] OTHER -> {}

\* originalStyle: restoreAfterFinish, but for what oldStyle then overwrites
Original(k) ==
    CASE k \in {"BlindUp", "BlindDown", "SlideUp", "SlideDown", "Squish", "SwitchOff2"} ->
            {"size", "place", "font"}
      [] k \in {"Puff", "Grow2", "Shrink"} -> {"font"}
      [] OTHER -> {}

HiddenAtFinish == {"Fade", "Puff", "BlindUp", "SlideUp", "Squish", "Shrink",
                   "Fold2", "SwitchOff2", "DropOut"}

PAIRS == [slide |-> <<"SlideDown", "SlideUp">>, blind |-> <<"BlindDown", "BlindUp">>,
          appear |-> <<"Appear", "Fade">>]
-----------------------------------------------------------------------------
VARIABLES
    page,      \* which page it is
    style,     \* [Things -> Values]: the inline style
    made,      \* the things that makeClipping and makePositioned have written
               \* and that are not undone (_overflow, _madePositioned)
    overflow,  \* _overflow, what getStyle returned, while clip is made
    visible,   \* display is not none
    effects,   \* the effects under way: a set of records
    dropped,   \* history: what constructors made whose effect the limit of
               \* toggle kept out of the queue
    mixed,     \* history: an effect began while another was under way, or one
               \* was cancelled
    asked,     \* history: should the element be visible once at rest?
    appeared   \* history: an Appear has finished

vars == <<page, style, made, overflow, visible, effects, dropped, mixed, asked, appeared>>

Own(t) == IF t \in page.inline THEN "page" ELSE "none"

TypeOK ==
    /\ page \in Pages /\ style \in [Things -> Values]
    /\ made \subseteq {"clip"} \union Positions /\ overflow \in Values
    /\ visible \in BOOLEAN
    /\ \A x \in effects : x.kind \in Kinds
    /\ Cardinality(effects) <= MaxEffects

Init ==
    /\ page \in Pages /\ style = [t \in Things |-> Own(t)]
    /\ made = {} /\ overflow = "none"
    /\ visible \in BOOLEAN /\ asked = visible
    /\ effects = {} /\ dropped = {} /\ mixed = FALSE /\ appeared = FALSE

\* getStyle
Look(s, t) == IF s[t] = "none" THEN "sheet" ELSE s[t]

\* What setStyle and undoClipping write
PutBack(t, v) == IF <<t, v>> \in page.blank THEN "none" ELSE v

Static(p) == <<p, Look(style, p)>> \in page.static

\* The things wanted are made clipping or positioned unless they are, and those
\* written get a value.
Change(wanted, written) ==
    LET taken == {t \in wanted : IF t = "clip" THEN "clip" \notin made ELSE Static(t)}
    IN /\ style' = [t \in Things |->
                        IF t \in taken \union written THEN "effect" ELSE style[t]]
       /\ made' = made \union taken
       /\ overflow' = IF "clip" \in taken THEN Look(style, "clip") ELSE overflow

Effect(k, toggled, old) ==
    [kind |-> k, toggled |-> toggled, state |-> "idle", old |-> old, original |-> old]

\* Is the element seen once k, started now, is over?
Outcome(k) ==
    /\ k \notin HiddenAtFinish \union {"SwitchOff", "Fold"}
    /\ visible \/ k \in ShownAtSetUp \union {"Grow"}

Begin(k, toggled) ==
    /\ Cardinality(effects) < MaxEffects
    /\ Change(Constructed(k), {})
    /\ effects' = effects \union {Effect(k, toggled, style)}
    /\ mixed' = (mixed \/ effects # {})
    /\ asked' = Outcome(k)
    /\ UNCHANGED <<page, visible, dropped, appeared>>

\* Effect.Fade(element) and the like
Visual == \E k \in Visuals : Begin(k, FALSE)

\* Faulty: the effects of an element are not limited
LimitIgnored(x) == FALSE

\* queue: {scope: element.id, limit: 1}
Limits(x) == x.toggled

toggle ==
    \E p \in DOMAIN PAIRS :
        LET k == PAIRS[p][IF visible THEN 2 ELSE 1]
        IN IF \E x \in effects : Limits(x)
           THEN /\ Change(Constructed(k), {})
                /\ dropped' = dropped \union Constructed(k)
                /\ UNCHANGED <<page, visible, effects, mixed, asked, appeared>>
           ELSE Begin(k, TRUE)

\* Highlight.setup cancels the effect if the element is hidden.
NothingToLight(x) == x.kind = "Highlight" /\ x.state = "idle" /\ ~visible

HighlightHidden ==
    /\ \E x \in effects : NothingToLight(x) /\ effects' = effects \ {x}
    /\ UNCHANGED <<page, style, made, overflow, visible, dropped, mixed, asked, appeared>>

SetUpEffect(x) ==
    [x EXCEPT !.state = "running", !.original = style,
              !.old = IF x.kind = "Highlight" THEN style ELSE @]

Frame ==
    /\ \E x \in effects :
        LET k == x.kind
            first == x.state = "idle"
        IN /\ ~NothingToLight(x)
           /\ IF first THEN Change(SetUp(k), Updated(k) \union Absolutized(k))
                       ELSE Change({}, Updated(k))
           /\ effects' = IF first THEN (effects \ {x}) \union {SetUpEffect(x)} ELSE effects
           /\ visible' = IF ~first THEN visible
                         ELSE (visible /\ k \notin HiddenAtSetUp) \/ k \in ShownAtSetUp
    /\ UNCHANGED <<page, dropped, mixed, asked, appeared>>

\* Faulty: the element is not hidden
NeverHidden(k) == visible

Seen(k) == visible /\ k \notin HiddenAtFinish

\* undoPositioned clears the offsets of the element too.
Erased(undone) ==
    (IF "position" \in undone THEN {"position", "place"} ELSE {})
        \union (IF "innerPosition" \in undone THEN {"innerPosition", "innerPlace"} ELSE {})

\* The style once x is finished: what is written last is named first.  Opacity 1
\* has no inline value.
Finished(x) ==
    LET k == x.kind
        undone == Undone(k) \intersect made
    IN [t \in Things |->
            IF t \in OldStyle(k) THEN PutBack(t, x.old[t])
            ELSE IF t \in OldLook(k) THEN PutBack(t, Look(x.old, t))
            ELSE IF t \in Erased(undone) THEN "none"
            ELSE IF t \in undone THEN PutBack(t, overflow)
            ELSE IF t \in Original(k) THEN x.original[t]
            ELSE IF t = "opacity" /\ k \in {"Appear", "SwitchOff"} THEN "none"
            ELSE style[t]]

Finish ==
    /\ \E x \in effects :
        LET k == x.kind
        IN /\ x.state = "running"
           /\ style' = Finished(x)
           /\ made' = made \ Undone(k)
           /\ overflow' = IF "clip" \in Undone(k) THEN "none" ELSE overflow
           /\ visible' = Seen(k)
           /\ effects' = (effects \ {x}) \union
                {Effect(n, FALSE, x.old) : n \in NextPart(k)}
           /\ appeared' = (appeared \/ k = "Appear")
    /\ UNCHANGED <<page, dropped, mixed, asked>>

cancel ==
    /\ \E x \in effects : effects' = effects \ {x}
    /\ mixed' = TRUE
    /\ UNCHANGED <<page, style, made, overflow, visible, dropped, asked, appeared>>

Next ==
    /\ mixed => FollowMixed
    /\ Visual \/ toggle \/ HighlightHidden \/ Frame \/ Finish \/ cancel

Spec == Init /\ [][Next]_vars
-----------------------------------------------------------------------------
(* Properties.                                                             *)

\* Did the page leave the element, or the one in it, static?
OwnStatic(p) == <<p, IF p \in page.inline THEN "page" ELSE "sheet">> \in page.static

\* What the page wrote inline may be gone: a value that is blank when it is put
\* back, an opacity once the element appeared, an inline static, and with the
\* element's the offsets beside it.
Loses(t) ==
    \/ <<t, "page">> \in page.blank
    \/ t = "opacity" /\ appeared
    \/ t \in {"position", "place"} /\ OwnStatic("position")
    \/ t = "innerPosition" /\ OwnStatic("innerPosition")

\* What some effect writes back as getStyle returned it
WrittenBack == {"background", "clip", "place", "position", "innerPlace"}

Kept(t) ==
    {Own(t)}
        \union (IF t \in WrittenBack /\ Own(t) = "none" THEN {"sheet"} ELSE {})
        \union (IF Loses(t) THEN {"none", "sheet"} ELSE {})

\* When the effects of an element came one after the other, each with all its
\* parts, nothing of an effect is left in the style: each thing has the inline
\* value the page gave it, or what the style sheets give, where an effect wrote
\* that back.  The page's own value is only lost where Loses says so.  What
\* stays clipped is what the constructor of an effect made so that toggle's
\* limit kept out of the queue.
RestIsWhole ==
    effects = {} /\ ~mixed =>
        /\ made \subseteq dropped
        /\ \A t \in Things \ dropped : style[t] \in Kept(t)

\* However often the element is toggled meanwhile, the effect that was accepted
\* ends with the element shown or hidden as it set out to.
RestIsAsAsked == effects = {} /\ ~mixed => visible = asked

\* Only effects of different queues are ever under way together: toggling alone
\* never starts an effect on a half-styled element.
TogglesTakeTurns == Cardinality({x \in effects : x.toggled}) <= 1
=============================================================================
