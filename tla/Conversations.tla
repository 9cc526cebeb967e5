---------------------------- MODULE Conversations ----------------------------
(* Conversations and their turns on the server: POST /chat from the look-up  *)
(* of the conversation to the commit after the stream, and what the readers  *)
(* of the messages table see. A turn is one request; its question and its    *)
(* answer are inserted in one transaction, so that the table is the set of   *)
(* turns that were saved. now() in a transaction is the time it began: the   *)
(* clock counts transactions that insert messages or a conversation.         *)
EXTENDS Naturals, Sequences, SequencesExt

CONSTANTS
    Tabs,            \* browser tabs
    Tenants,
    NoConversation,  \* null
    Bounds           \* what may happen, in each of the cases that are explored

VARIABLES
    conversations,   \* the table, in the order of the ids
    turns,           \* the requests, in the order they were sent
    clock,
    budget           \* one of Bounds, less what has happened

serverVars == <<conversations, turns, clock, budget>>

Turn == Nat \ {0}
ConversationId == Nat \ {0}
Stage == {"sent", "lookup", "stream", "append", "commit", "closed"}
Event == {"conversation", "token", "done", "error"}

\* updated: updated_at. titled: a title was given.
Row == [tenant : Tenants, updated : Nat, titled : BOOLEAN]

\* asked: the conversation_id of the body; stamp: created_at of its messages;
\* history: the turns load_history found; wire: the events not yet delivered.
TurnRecord ==
    [tab : Tabs, tenant : Tenants, asked : ConversationId \union {NoConversation},
     at : Stage, conversation : ConversationId \union {NoConversation},
     stamp : Nat, history : Seq(Turn), saved : BOOLEAN, listening : BOOLEAN,
     wire : Seq(Event)]

\* happened: which of the troubles below have come up.
Trouble == {"errors", "haste", "switches"}
Budget == [turns : Nat, opens : Nat, renames : Nat, errors : Nat, haste : Nat,
           switches : Nat, happened : SUBSET Trouble]

ASSUME ConversationsAssumption ==
    /\ NoConversation \notin ConversationId
    /\ Bounds \subseteq Budget

ServerTypeOK ==
    /\ conversations \in Seq(Row)
    /\ turns \in Seq(TurnRecord)
    /\ \A t \in DOMAIN turns : turns[t].at \notin {"sent", "closed"} =>
           turns[t].conversation \in DOMAIN conversations
    /\ clock \in Nat
    /\ budget \in Budget

ServerInit ==
    /\ conversations = <<>> /\ turns = <<>>
    /\ clock = 0
    /\ budget \in Bounds

Spend(kinds) ==
    /\ \A kind \in kinds : budget[kind] > 0
    /\ budget' = [kind \in DOMAIN budget |->
                    IF kind = "happened" THEN budget.happened \union (kinds \intersect Trouble)
                    ELSE IF kind \in kinds THEN budget[kind] - 1 ELSE budget[kind]]

-----------------------------------------------------------------------------
(* What is in the messages table                                             *)

TurnsOf(c) == {t \in DOMAIN turns : turns[t].saved /\ turns[t].conversation = c}

\* The elements of a set in the order of their times.
InOrder(time) == CHOOSE order \in SetToSeqs(DOMAIN time) :
    \A i, j \in DOMAIN order : i < j => time[order[i]] <= time[order[j]]

CreatedAt(set) == [t \in set |-> turns[t].stamp]

\* Mutant of Ordered: the newest turn comes first.
OrderedNewestFirst(c) == Reverse(InOrder(CreatedAt(TurnsOf(c))))

\* "order_by(Message.created_at)"
Ordered(c) == InOrder(CreatedAt(TurnsOf(c)))

\* The caller may open the conversations of its own tenant.
Listed(tenant) == {c \in DOMAIN conversations : conversations[c].tenant = tenant}

-----------------------------------------------------------------------------
(* POST /chat                                                                *)

TurnAt(t, stage) == t \in DOMAIN turns /\ turns[t].at = stage

\* The request as it leaves the browser.
Sent(tab, tenant, asked) ==
    [tab |-> tab, tenant |-> tenant, asked |-> asked, at |-> "sent",
     conversation |-> NoConversation, stamp |-> 0, history |-> <<>>,
     saved |-> FALSE, listening |-> TRUE, wire |-> <<>>]

\* Mutant of Found: the look-up is by id alone.
FoundById(t) == turns[t].asked \in DOMAIN conversations

Found(t) ==
    /\ turns[t].asked \in DOMAIN conversations
    /\ conversations[turns[t].asked].tenant = turns[t].tenant

\* Mutant of Post: the new row is not flushed before its id is used.
PostUnflushed(t) ==
    /\ TurnAt(t, "sent")
    /\ turns' = [turns EXCEPT ![t].at = "lookup", ![t].wire = <<"conversation">>,
                   ![t].conversation = IF Found(t) THEN turns[t].asked ELSE NoConversation]
    /\ UNCHANGED <<conversations, clock, budget>>

\* get_or_create_conversation, its commit, and the first event of the stream.
Post(t) ==
    /\ TurnAt(t, "sent")
    /\ LET reply(c) == [turns EXCEPT ![t].at = "lookup", ![t].conversation = c,
                                     ![t].wire = <<"conversation">>]
       IN \/ /\ Found(t)
             /\ turns' = reply(turns[t].asked)
             /\ UNCHANGED <<conversations, clock>>
          \/ /\ ~Found(t)
             /\ turns' = reply(Len(conversations) + 1)
             /\ conversations' = Append(conversations,
                    [tenant |-> turns[t].tenant, updated |-> clock + 1, titled |-> FALSE])
             /\ clock' = clock + 1
    /\ UNCHANGED budget

\* A cached answer: the two inserts begin the transaction, then all the events.
Hit(t) ==
    /\ TurnAt(t, "lookup")
    /\ clock' = clock + 1
    /\ turns' = [turns EXCEPT ![t].at = "commit", ![t].stamp = clock + 1,
                              ![t].wire = @ \o <<"token", "done">>]
    /\ UNCHANGED <<conversations, budget>>

\* Mutant of LoadHistory: the messages of all conversations are read.
LoadHistoryOfAll(t) ==
    /\ TurnAt(t, "lookup")
    /\ clock' = clock + 1
    /\ turns' = [turns EXCEPT ![t].at = "stream", ![t].stamp = clock + 1,
                   ![t].history = InOrder(CreatedAt({u \in DOMAIN turns : turns[u].saved}))]
    /\ UNCHANGED <<conversations, budget>>

\* load_history's query begins the transaction that the messages will be part of.
LoadHistory(t) ==
    /\ TurnAt(t, "lookup")
    /\ clock' = clock + 1
    /\ turns' = [turns EXCEPT ![t].at = "stream", ![t].stamp = clock + 1,
                              ![t].history = Ordered(turns[t].conversation)]
    /\ UNCHANGED <<conversations, budget>>

\* The question is condensed, sources are retrieved and the answer is streamed.
Stream(t) ==
    /\ TurnAt(t, "stream")
    /\ turns' = [turns EXCEPT ![t].at = "append", ![t].wire = Append(@, "token")]
    /\ UNCHANGED <<conversations, clock, budget>>

\* Both messages are flushed, the answer is cached, `done` is sent.
AppendMessages(t) ==
    /\ TurnAt(t, "append")
    /\ turns' = [turns EXCEPT ![t].at = "commit", ![t].wire = Append(@, "done")]
    /\ UNCHANGED <<conversations, clock, budget>>

Commit(t) ==
    /\ TurnAt(t, "commit")
    /\ turns' = [turns EXCEPT ![t].at = "closed", ![t].saved = TRUE]
    /\ UNCHANGED <<conversations, clock, budget>>

\* A refusal, an exception or a crash; or the handler is cancelled because
\* nobody listens. What was not committed is rolled back and the connection
\* breaks off.
Fail(t) ==
    /\ t \in DOMAIN turns /\ turns[t].at # "closed"
    /\ \/ turns[t].listening /\ Spend({"errors"})
       \/ ~turns[t].listening /\ UNCHANGED budget
    /\ turns' = [turns EXCEPT ![t].at = "closed", ![t].wire = Append(@, "error")]
    /\ UNCHANGED <<conversations, clock>>

Answering(t) ==
    Post(t) \/ Hit(t) \/ LoadHistory(t) \/ Stream(t) \/ AppendMessages(t) \/ Commit(t)

-----------------------------------------------------------------------------
\* PATCH /conversations/{id}: the title, and updated_at as the handler has just
\* read it, which is one step because no other statement updates the row.
Rename(c, titled) ==
    /\ Spend({"renames"})
    /\ conversations' = [conversations EXCEPT ![c].titled = titled]
    /\ UNCHANGED <<turns, clock>>
=============================================================================
