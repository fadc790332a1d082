---------------------------- MODULE MCJobEditor ----------------------------
(* JobEditor with two servers: web has a database, two volumes of which one  *)
(* is an orphan, and a directory; app has other ones and no database.        *)
EXTENDS JobEditor, TLC

CONSTANTS j1, j2, web, app, local, cloud, policy, tag, script, excludes,
          sales, stock, vol, orphan, cache, srv, home

MCItemsOf == [s \in {web, app} |->
    IF s = web THEN [files |-> {srv}, postgresql |-> {sales, stock},
                     docker_volumes |-> {vol, orphan}, custom |-> {}]
               ELSE [files |-> {home}, postgresql |-> {},
                     docker_volumes |-> {cache}, custom |-> {}]]
MCOrphansOf == [s \in {web, app} |-> IF s = web THEN {orphan} ELSE {cache}]
MCBindMountsOf == [s \in {web, app} |-> IF s = web THEN {srv} ELSE {}]
=============================================================================
