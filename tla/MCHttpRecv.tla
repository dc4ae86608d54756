------------------------------ MODULE MCHttpRecv ------------------------------
EXTENDS HttpRecv, TLC

\* Lines and pieces of lines, good and bad, from which streams are put together.
Pieces ==
    { <<"GET", "tab", "path", "sp", "HTTP/1.1", "cr", "lf">>,
      <<"GET", "tab", "http://", "host", "path", "tab", "sp", "HTTP/1.1", "cr", "lf">>,
      <<"GET", "sp", "path", "sp", "HTTP/1.1", "cr", "lf">>,
      <<"text", "cr", "lf">>,
      <<"nul", "text", "cr", "lf">>,
      <<"cr", "lf">>,
      <<"text", "cr">>,
      <<"lf">> }

Streams == {a \o b \o c : a, b, c \in Pieces}
=============================================================================
