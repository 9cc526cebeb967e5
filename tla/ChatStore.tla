------------------------------ MODULE ChatStore ------------------------------
(* The chat page of a browser tab in front of Conversations: chatStore, the  *)
(* callbacks of a stream, the list of conversations that can be opened, and  *)
(* the API key in the settings, which decides the tenant.                    *)
EXTENDS Conversations

VARIABLES
    tabs           \* tabs[b]: the stores of tab b

vars == <<serverVars, tabs>>

\* One bubble: the question of a turn, or text of the answers of some turns.
Bubble == [role : {"user", "assistant"}, text : Seq(Turn)]
Opening == [conversation : ConversationId, answered : BOOLEAN, bubbles : Seq(Bubble)]
Tab == [tenant : Tenants, conversation : ConversationId \union {NoConversation},
        messages : Seq(Bubble), isStreaming : BOOLEAN, streamingText : Seq(Turn),
        opening : Seq(Opening)]

TypeOK == ServerTypeOK /\ tabs \in [Tabs -> Tab]

NewPage(tenant) ==
    [tenant |-> tenant, conversation |-> NoConversation, messages |-> <<>>,
     isStreaming |-> FALSE, streamingText |-> <<>>, opening |-> <<>>]

Init ==
    /\ ServerInit
    /\ tabs \in [Tabs -> {NewPage(tenant) : tenant \in Tenants}]

Question(t) == [role |-> "user", text |-> <<t>>]
Answer(text) == [role |-> "assistant", text |-> text]

\* What GET /conversations/{id}/messages returns, as bubbles.
Bubbles(order) ==
    [i \in 1 .. 2 * Len(order) |->
       IF i % 2 = 1 THEN Question(order[(i + 1) \div 2]) ELSE Answer(<<order[i \div 2]>>)]

-----------------------------------------------------------------------------
(* A user who waits does nothing before what was begun has ended.            *)

TurnsFrom(b) == {t \in DOMAIN turns : turns[t].tab = b /\ turns[t].listening}

Busy(b) ==
    \/ tabs[b].isStreaming \/ tabs[b].opening # <<>>
    \/ \E t \in TurnsFrom(b) : turns[t].at # "closed" \/ turns[t].wire # <<>>

\* Each step of a user takes from a bound, and one taken in haste from another.
Acts(b, kind) ==
    Spend({kind} \union IF Busy(b) THEN {"haste"} ELSE {})

-----------------------------------------------------------------------------
(* Sending and receiving                                                     *)

\* handleSend: the input is disabled while isStreaming.
Send(b) ==
    /\ ~tabs[b].isStreaming
    /\ Acts(b, "turns")
    /\ turns' = Append(turns, Sent(b, tabs[b].tenant, tabs[b].conversation))
    /\ tabs' = [tabs EXCEPT ![b].messages = Append(@, Question(Len(turns) + 1)),
                            ![b].isStreaming = TRUE, ![b].streamingText = <<>>]
    /\ UNCHANGED <<conversations, clock>>

\* "id !== conversationId" compares with what the page had when it was sent.
OnConversation(t) ==
    IF turns[t].conversation # turns[t].asked
    THEN [tabs EXCEPT ![turns[t].tab].conversation = turns[t].conversation]
    ELSE tabs

OnToken(t) == [tabs EXCEPT ![turns[t].tab].streamingText = Append(@, t)]

FinishStreaming(b) ==
    [tabs EXCEPT ![b].messages = Append(@, Answer(tabs[b].streamingText)),
                 ![b].isStreaming = FALSE, ![b].streamingText = <<>>]

\* Mutant of OnError: the error is only logged.
OnErrorLogged(t) == tabs

OnError(t) == FinishStreaming(turns[t].tab)

\* The next event of the stream of turn t arrives.
Deliver(t) ==
    /\ t \in DOMAIN turns /\ turns[t].listening /\ turns[t].wire # <<>>
    /\ turns' = [turns EXCEPT ![t].wire = Tail(@)]
    /\ tabs' = CASE Head(turns[t].wire) = "conversation" -> OnConversation(t)
                 [] Head(turns[t].wire) = "token" -> OnToken(t)
                 [] Head(turns[t].wire) = "done" -> FinishStreaming(turns[t].tab)
                 [] Head(turns[t].wire) = "error" -> OnError(t)
    /\ UNCHANGED <<conversations, clock, budget>>

-----------------------------------------------------------------------------
(* Opening and starting conversations                                        *)

\* openConversation, up to its await
Open(b, c) ==
    /\ c \in Listed(tabs[b].tenant)
    /\ Acts(b, "opens")
    /\ tabs' = [tabs EXCEPT ![b].conversation = c,
                  ![b].opening = Append(@, [conversation |-> c, answered |-> FALSE,
                                            bubbles |-> <<>>])]
    /\ UNCHANGED <<conversations, turns, clock>>

\* get_conversation_messages, of the tenant whose key the request carried
Fetch(b, i) ==
    /\ i \in DOMAIN tabs[b].opening
    /\ ~tabs[b].opening[i].answered
    /\ tabs' = [tabs EXCEPT ![b].opening[i].answered = TRUE,
                  ![b].opening[i].bubbles = Bubbles(Ordered(tabs[b].opening[i].conversation))]
    /\ UNCHANGED serverVars

\* loadMessages
Load(b, i) ==
    /\ i \in DOMAIN tabs[b].opening
    /\ tabs[b].opening[i].answered
    /\ tabs' = [tabs EXCEPT ![b].messages = tabs[b].opening[i].bubbles,
                            ![b].opening = RemoveAt(@, i)]
    /\ UNCHANGED serverVars

\* The GET fails: the await throws and nothing is loaded.
LoadFails(b, i) ==
    /\ i \in DOMAIN tabs[b].opening
    /\ Spend({"errors"})
    /\ tabs' = [tabs EXCEPT ![b].opening = RemoveAt(@, i)]
    /\ UNCHANGED <<conversations, turns, clock>>

\* Mutant of StartNew: the messages stay on the page.
StartNewKeeping(b) ==
    /\ Acts(b, "opens")
    /\ tabs' = [tabs EXCEPT ![b].conversation = NoConversation, ![b].streamingText = <<>>]
    /\ UNCHANGED <<conversations, turns, clock>>

\* startNewConversation
StartNew(b) ==
    /\ Acts(b, "opens")
    /\ tabs' = [tabs EXCEPT ![b].conversation = NoConversation, ![b].messages = <<>>,
                            ![b].streamingText = <<>>]
    /\ UNCHANGED <<conversations, turns, clock>>

\* The settings page: another key. The chat store is not told.
SetApiKey(b, tenant) ==
    /\ tenant # tabs[b].tenant
    /\ Acts(b, "switches")
    /\ tabs' = [tabs EXCEPT ![b].tenant = tenant]
    /\ UNCHANGED <<conversations, turns, clock>>

\* The page is reloaded: only the key is kept, and no stream is listened to.
Reload(b) ==
    /\ Acts(b, "opens")
    /\ tabs' = [tabs EXCEPT ![b] = NewPage(tabs[b].tenant)]
    /\ turns' = [t \in DOMAIN turns |->
                   IF turns[t].tab = b THEN [turns[t] EXCEPT !.listening = FALSE] ELSE turns[t]]
    /\ UNCHANGED <<conversations, clock>>

-----------------------------------------------------------------------------
Next ==
    \/ \E t \in DOMAIN turns :
         \/ (Answering(t) \/ Fail(t)) /\ UNCHANGED tabs
         \/ Deliver(t)
    \/ \E b \in Tabs :
         \/ Send(b) \/ StartNew(b) \/ Reload(b)
         \/ \E c \in DOMAIN conversations : Open(b, c)
         \/ \E i \in DOMAIN tabs[b].opening : Fetch(b, i) \/ Load(b, i) \/ LoadFails(b, i)
         \/ \E tenant \in Tenants : SetApiKey(b, tenant)
         \/ \E c \in Listed(tabs[b].tenant), titled \in BOOLEAN :
              Rename(c, titled) /\ UNCHANGED tabs

Spec == Init /\ [][Next]_vars

\* The event loop does not stop while a handler can go on, and the network
\* delivers what was sent.
Fairness ==
    /\ WF_vars(\E t \in DOMAIN turns : Answering(t) /\ UNCHANGED tabs)
    /\ WF_vars(\E t \in DOMAIN turns : Deliver(t))

FairSpec == Spec /\ Fairness
-----------------------------------------------------------------------------
(* Properties                                                                *)

\* Turns, conversations and tenants belong together: whatever id a page sends
\* after its key has changed, a turn is saved in a conversation of its own
\* tenant, and the model is told only turns of that tenant and conversation.
TenantsApart == \A t \in DOMAIN turns :
    /\ turns[t].conversation # NoConversation =>
           conversations[turns[t].conversation].tenant = turns[t].tenant
    /\ \A i \in DOMAIN turns[t].history :
           turns[turns[t].history[i]].conversation = turns[t].conversation

\* Nobody was hasty, no key was changed and nothing failed.
Calm == budget.happened = {}

\* Every turn of the conversation was sent from tab b.
Own(b, c) == \A t \in TurnsOf(c) : turns[t].tab = b

\* The page of a user who waits, when everything has ended, shows its
\* conversation as the server has it, whether it was chatted, opened or begun
\* anew (openConversation, startNewConversation, onConversation), as long as no
\* other tab has chatted in it.
ScreenMatches == \A b \in Tabs : LET c == tabs[b].conversation IN
    Calm /\ ~Busy(b) =>
        IF c = NoConversation THEN tabs[b].messages = <<>>
        ELSE Own(b, c) => tabs[b].messages = Bubbles(Ordered(c))

\* What the model is told before a question of a user who waits is what its
\* sender sees above it, as long as no other tab has chatted in the conversation
\* (load_history).
ContextIsScreen == \A t \in DOMAIN turns :
    /\ Calm /\ turns[t].at \in {"stream", "append"}
    /\ Own(turns[t].tab, turns[t].conversation)
    => tabs[turns[t].tab].messages = Append(Bubbles(turns[t].history), Question(t))

\* Those who read the messages of the conversation find turn u before turn v.
Precedes(c, u, v) == LET order == Ordered(c) IN
    \E j, k \in DOMAIN order : j < k /\ order[j] = u /\ order[k] = v

\* Whoever chats in a conversation at the same time, and whatever fails: what
\* the model was told stays in it, in the order it was told, and once the answer
\* is saved it comes after all of that (load_history's query begins the
\* transaction of append_message).
ToldComesFirst == \A t \in DOMAIN turns :
    LET c == turns[t].conversation
        told == turns[t].history
    IN /\ \A i, j \in DOMAIN told : i < j => Precedes(c, told[i], told[j])
       /\ turns[t].saved => \A i \in DOMAIN told : Precedes(c, told[i], t)

\* The input of a page does not stay disabled: a stream ends, with an answer or
\* an error.
StreamEnds == \A b \in Tabs : tabs[b].isStreaming ~> ~tabs[b].isStreaming
=============================================================================
