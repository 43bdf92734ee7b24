-------------------------------- MODULE Ids --------------------------------
(* The ids generate() gives to the requests it serves (uuid4 strings), the *)
(* keys of the KV accounting, the queue and the streams alike.             *)
CONSTANT Requests
=============================================================================
