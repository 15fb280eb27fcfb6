SPECIFICATION Spec
CONSTANTS
    Port = {window, preview}
    Format = {vga, cif, hd}
    Default = vga
    NoFormat = NoFormat
    MaxEvents = 2
INVARIANT RendererFollows
