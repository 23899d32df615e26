------------------------------ MODULE MCMsgPath ------------------------------
(* Constants for model checking MsgPath: messages of all types whose fields *)
(* all differ, with every choice of missing strings.                        *)
EXTENDS MsgPath

Ids == {1, 2}

AllMessages ==
    [type: Record, id: Ids, reqno: {7}, all: {15}, opt: {3}, share: {4},
     mask: {12}, app_id: {NULL, "", "app"}, klass: {NULL, "", "klass"}, mode: {1}]
    \cup [type: Possess, id: Ids, reqno: {7}]
    \cup [type: Notify, id: Ids, reqno: {0, 7}, resrc: {0, 5}]
    \cup [type: {"audio"}, id: Ids, reqno: {7}, group: {NULL, "group"},
          app_id: {NULL, "app"}, name: {NULL, "name"}, method: {2},
          pattern: {NULL, "pattern"}]
    \cup [type: {"video"}, id: Ids, reqno: {7}, pid: {9}]
    \cup [type: {"status"}, id: Ids, reqno: {7}, errcod: {0}, errmsg: {NULL, "ok"}]

(* The longest message is printed in 20 characters. *)
Sizes == 1..22

AllReplies == [errcod: {0, 5}, errmsg: {NULL, "no"}]
=============================================================================
